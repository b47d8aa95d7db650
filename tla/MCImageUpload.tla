---------------------------- MODULE MCImageUpload ----------------------------
EXTENDS ImageUpload

EveryDriver == AllDrivers
=============================================================================
