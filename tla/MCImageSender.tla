---------------------------- MODULE MCImageSender ----------------------------
EXTENDS ImageSender
=============================================================================
