---------------------------- MODULE MCJpegBuffers ----------------------------
EXTENDS JpegBuffers
=============================================================================
