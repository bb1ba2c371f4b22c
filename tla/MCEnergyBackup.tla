--------------------------- MODULE MCEnergyBackup ---------------------------
(* A small meter: two units of energy between EEPROM backups, a flash     *)
(* backup after every second one.                                         *)
EXTENDS EnergyBackup
=============================================================================
