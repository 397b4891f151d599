------------------------------ MODULE Keysymtab ------------------------------
(***************************************************************************)
(* The table of registryd/ucs2keysym.c, in the order of the source, with   *)
(* its rows written as runs: Run(k, u, n) is n rows whose symbols and      *)
(* characters both go up by one, from k and u.  The search for a key       *)
(* symbol or for a character depends on nothing but this order.            *)
(***************************************************************************)
EXTENDS Integers, Sequences, SequencesExt

Run(keysym, ucs, n) == [i \in 1..n |-> <<keysym + i - 1, ucs + i - 1>>]
Rows(runs) == FlattenSeq([i \in DOMAIN runs |-> Run(runs[i][1], runs[i][2], runs[i][3])])

\* Lines 40 to 189.
Rows1 == Rows(<<
    <<2979, 60, 1>>, <<2982, 62, 1>>, <<3014, 95, 1>>, <<3008, 175, 1>>, <<417, 260, 1>>,
    <<433, 261, 1>>, <<421, 317, 1>>, <<419, 321, 1>>, <<422, 346, 1>>, <<426, 350, 1>>,
    <<425, 352, 1>>, <<427, 356, 1>>, <<428, 377, 1>>, <<431, 379, 1>>, <<430, 381, 1>>,
    <<435, 322, 1>>, <<437, 318, 1>>, <<438, 347, 1>>, <<441, 353, 1>>, <<442, 351, 1>>,
    <<443, 357, 1>>, <<444, 378, 1>>, <<446, 382, 1>>, <<447, 380, 1>>, <<448, 340, 1>>,
    <<451, 258, 1>>, <<453, 313, 1>>, <<454, 262, 1>>, <<456, 268, 1>>, <<458, 280, 1>>,
    <<460, 282, 1>>, <<463, 270, 1>>, <<464, 272, 1>>, <<465, 323, 1>>, <<466, 327, 1>>,
    <<469, 336, 1>>, <<472, 344, 1>>, <<473, 366, 1>>, <<475, 368, 1>>, <<478, 354, 1>>,
    <<480, 341, 1>>, <<483, 259, 1>>, <<485, 314, 1>>, <<486, 263, 1>>, <<488, 269, 1>>,
    <<490, 281, 1>>, <<492, 283, 1>>, <<495, 271, 1>>, <<496, 273, 1>>, <<497, 324, 1>>,
    <<498, 328, 1>>, <<501, 337, 1>>, <<504, 345, 1>>, <<505, 367, 1>>, <<507, 369, 1>>,
    <<510, 355, 1>>, <<673, 294, 1>>, <<678, 292, 1>>, <<681, 304, 1>>, <<683, 286, 1>>,
    <<684, 308, 1>>, <<689, 295, 1>>, <<694, 293, 1>>, <<697, 305, 1>>, <<699, 287, 1>>,
    <<700, 309, 1>>, <<709, 266, 1>>, <<710, 264, 1>>, <<725, 288, 1>>, <<728, 284, 1>>,
    <<733, 364, 1>>, <<734, 348, 1>>, <<741, 267, 1>>, <<742, 265, 1>>, <<757, 289, 1>>,
    <<760, 285, 1>>, <<765, 365, 1>>, <<766, 349, 1>>, <<930, 312, 1>>, <<931, 342, 1>>,
    <<933, 296, 1>>, <<934, 315, 1>>, <<938, 274, 1>>, <<939, 290, 1>>, <<940, 358, 1>>,
    <<947, 343, 1>>, <<949, 297, 1>>, <<950, 316, 1>>, <<954, 275, 1>>, <<955, 291, 1>>,
    <<956, 359, 1>>, <<957, 330, 1>>, <<959, 331, 1>>, <<960, 256, 1>>, <<967, 302, 1>>,
    <<972, 278, 1>>, <<975, 298, 1>>, <<977, 325, 1>>, <<978, 332, 1>>, <<979, 310, 1>>,
    <<985, 370, 1>>, <<989, 360, 1>>, <<990, 362, 1>>, <<992, 257, 1>>, <<999, 303, 1>>,
    <<1004, 279, 1>>, <<1007, 299, 1>>, <<1009, 326, 1>>, <<1010, 333, 1>>,
    <<1011, 311, 1>>, <<1017, 371, 1>>, <<1021, 361, 1>>, <<1022, 363, 1>>,
    <<2294, 402, 1>>, <<5052, 338, 2>>, <<5054, 376, 1>>, <<439, 711, 1>>,
    <<418, 728, 1>>, <<511, 729, 1>>, <<434, 731, 1>>, <<445, 733, 1>>, <<1966, 901, 1>>,
    <<1953, 902, 1>>, <<1954, 904, 3>>, <<1959, 908, 1>>, <<1960, 910, 1>>,
    <<1963, 911, 1>>, <<1974, 912, 1>>, <<1985, 913, 16>>>>)

\* Lines 190 to 339.
Rows2 == Rows(<<
    <<2001, 929, 1>>, <<2002, 931, 1>>, <<2004, 932, 6>>, <<1957, 938, 1>>,
    <<1961, 939, 1>>, <<1969, 940, 4>>, <<1978, 944, 1>>, <<2017, 945, 17>>,
    <<2035, 962, 1>>, <<2034, 963, 1>>, <<2036, 964, 6>>, <<1973, 970, 1>>,
    <<1977, 971, 1>>, <<1975, 972, 2>>, <<1979, 974, 1>>, <<1715, 1025, 1>>,
    <<1713, 1026, 2>>, <<1716, 1028, 9>>, <<1726, 1038, 2>>, <<1761, 1040, 2>>,
    <<1783, 1042, 1>>, <<1767, 1043, 1>>, <<1764, 1044, 2>>, <<1782, 1046, 1>>,
    <<1786, 1047, 1>>, <<1769, 1048, 8>>, <<1778, 1056, 4>>, <<1766, 1060, 1>>,
    <<1768, 1061, 1>>, <<1763, 1062, 1>>, <<1790, 1063, 1>>, <<1787, 1064, 1>>,
    <<1789, 1065, 1>>, <<1791, 1066, 1>>, <<1785, 1067, 1>>, <<1784, 1068, 1>>,
    <<1788, 1069, 1>>, <<1760, 1070, 1>>, <<1777, 1071, 1>>, <<1729, 1072, 2>>,
    <<1751, 1074, 1>>, <<1735, 1075, 1>>, <<1732, 1076, 2>>, <<1750, 1078, 1>>,
    <<1754, 1079, 1>>, <<1737, 1080, 8>>, <<1746, 1088, 4>>, <<1734, 1092, 1>>,
    <<1736, 1093, 1>>, <<1731, 1094, 1>>, <<1758, 1095, 1>>, <<1755, 1096, 1>>,
    <<1757, 1097, 1>>, <<1759, 1098, 1>>, <<1753, 1099, 1>>, <<1752, 1100, 1>>,
    <<1756, 1101, 1>>, <<1728, 1102, 1>>, <<1745, 1103, 1>>, <<1699, 1105, 1>>,
    <<1697, 1106, 2>>, <<1700, 1108, 9>>, <<1710, 1118, 2>>, <<3296, 1488, 11>>>>)

\* Lines 340 to 488.
Rows3 == Rows(<<
    <<3307, 1499, 16>>, <<1452, 1548, 1>>, <<1467, 1563, 1>>, <<1471, 1567, 1>>,
    <<1473, 1569, 26>>, <<1504, 1600, 19>>, <<3489, 3585, 58>>, <<3551, 3647, 15>>,
    <<3568, 3664, 10>>>>)

\* Lines 490 to 639.
Rows4 == Rows(<<
    <<3796, 4520, 27>>, <<3832, 4587, 1>>, <<3833, 4592, 1>>, <<3834, 4601, 1>>,
    <<2722, 8194, 1>>, <<2721, 8195, 1>>, <<2723, 8196, 2>>, <<2725, 8199, 4>>,
    <<2747, 8210, 1>>, <<2730, 8211, 1>>, <<2729, 8212, 1>>, <<1967, 8213, 1>>,
    <<3295, 8215, 1>>, <<2768, 8216, 2>>, <<2813, 8218, 1>>, <<2770, 8220, 2>>,
    <<2814, 8222, 1>>, <<2801, 8224, 2>>, <<2790, 8226, 1>>, <<2735, 8229, 1>>,
    <<2734, 8230, 1>>, <<2774, 8242, 2>>, <<2812, 8248, 1>>, <<1150, 8254, 1>>,
    <<3839, 8361, 1>>, <<5028, 8364, 1>>, <<2744, 8453, 1>>, <<1712, 8470, 1>>,
    <<2811, 8471, 1>>, <<2772, 8478, 1>>, <<2761, 8482, 1>>, <<2736, 8531, 8>>,
    <<2755, 8539, 4>>, <<2299, 8592, 4>>, <<2254, 8658, 1>>, <<2253, 8660, 1>>,
    <<2287, 8706, 1>>, <<2245, 8711, 1>>, <<3018, 8728, 1>>, <<2262, 8730, 1>>,
    <<2241, 8733, 2>>, <<2270, 8743, 2>>, <<2268, 8745, 2>>, <<2239, 8747, 1>>,
    <<2240, 8756, 1>>, <<2248, 8764, 1>>, <<2249, 8771, 1>>, <<2237, 8800, 1>>,
    <<2255, 8801, 1>>, <<2236, 8804, 1>>, <<2238, 8805, 1>>, <<2266, 8834, 2>>,
    <<3036, 8866, 1>>, <<3068, 8867, 1>>, <<3022, 8868, 1>>, <<3010, 8869, 1>>,
    <<3027, 8968, 1>>, <<3012, 8970, 1>>, <<2810, 8981, 1>>, <<2212, 8992, 2>>,
    <<2748, 9001, 1>>, <<2750, 9002, 1>>, <<3020, 9109, 1>>, <<2219, 9115, 1>>,
    <<2220, 9117, 2>>, <<2222, 9120, 1>>, <<2215, 9121, 1>>, <<2216, 9123, 2>>,
    <<2218, 9126, 1>>, <<2223, 9128, 1>>, <<2224, 9132, 1>>, <<2209, 9143, 1>>,
    <<2543, 9146, 2>>, <<2546, 9148, 2>>, <<2530, 9225, 1>>, <<2531, 9228, 2>>,
    <<2533, 9226, 1>>, <<2536, 9252, 1>>, <<2537, 9227, 1>>, <<2211, 9472, 1>>,
    <<2214, 9474, 1>>, <<2210, 9484, 1>>, <<2540, 9484, 1>>, <<2539, 9488, 1>>,
    <<2541, 9492, 1>>, <<2538, 9496, 1>>, <<2548, 9500, 1>>, <<2549, 9508, 1>>,
    <<2551, 9516, 1>>>>)

\* Lines 640 to 789.
Rows5 == Rows(<<
    <<2542, 9532, 1>>, <<2550, 9524, 1>>, <<2529, 9618, 1>>, <<2791, 9642, 1>>,
    <<2785, 9643, 1>>, <<2779, 9644, 1>>, <<2786, 9645, 1>>, <<2783, 9646, 1>>,
    <<2767, 9647, 1>>, <<2792, 9650, 1>>, <<2787, 9651, 1>>, <<2781, 9654, 1>>,
    <<2765, 9655, 1>>, <<2793, 9660, 1>>, <<2788, 9661, 1>>, <<2780, 9664, 1>>,
    <<2764, 9665, 1>>, <<2528, 9670, 1>>, <<2766, 9675, 1>>, <<2782, 9679, 1>>,
    <<2784, 9702, 1>>, <<2798, 9829, 1>>, <<2797, 9830, 1>>, <<2805, 9839, 1>>,
    <<2806, 9837, 1>>, <<2803, 10003, 1>>, <<2804, 10007, 1>>, <<2777, 10013, 1>>,
    <<2800, 10016, 1>>, <<1188, 12289, 1>>, <<1185, 12290, 1>>, <<1186, 12300, 2>>,
    <<1246, 12443, 2>>, <<1191, 12449, 1>>, <<1201, 12450, 1>>, <<1192, 12451, 1>>,
    <<1202, 12452, 1>>, <<1193, 12453, 1>>, <<1203, 12454, 1>>, <<1194, 12455, 1>>,
    <<1204, 12456, 1>>, <<1195, 12457, 1>>, <<1205, 12458, 2>>, <<1207, 12461, 1>>,
    <<1208, 12463, 1>>, <<1209, 12465, 1>>, <<1210, 12467, 1>>, <<1211, 12469, 1>>,
    <<1212, 12471, 1>>, <<1213, 12473, 1>>, <<1214, 12475, 1>>, <<1215, 12477, 1>>,
    <<1216, 12479, 1>>, <<1217, 12481, 1>>, <<1199, 12483, 1>>, <<1218, 12484, 1>>,
    <<1219, 12486, 1>>, <<1220, 12488, 1>>, <<1221, 12490, 6>>, <<1227, 12498, 1>>,
    <<1228, 12501, 1>>, <<1229, 12504, 1>>, <<1230, 12507, 1>>, <<1231, 12510, 5>>,
    <<1196, 12515, 1>>, <<1236, 12516, 1>>, <<1197, 12517, 1>>, <<1237, 12518, 1>>,
    <<1198, 12519, 1>>, <<1238, 12520, 6>>, <<1244, 12527, 1>>, <<1190, 12530, 1>>,
    <<1245, 12531, 1>>, <<1189, 12539, 1>>, <<1200, 12540, 1>>, <<3745, 12593, 51>>,
    <<3823, 12653, 1>>, <<3824, 12657, 1>>, <<3825, 12664, 1>>, <<3826, 12671, 1>>,
    <<3827, 12673, 1>>>>)

\* Lines 790 to 793.
Rows6 == Rows(<<
    <<3828, 12676, 1>>, <<3829, 12678, 1>>, <<3830, 12685, 2>>>>)

Table == Rows1 \o Rows2 \o Rows3 \o Rows4 \o Rows5 \o Rows6
=============================================================================
