---------------------------- MODULE MCBusLauncher -----------------------------
EXTENDS BusLauncher
=============================================================================
