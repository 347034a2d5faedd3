---------------------------- MODULE MCAioBitmap ----------------------------
EXTENDS AioBitmap

\* Devices of one sector, one chunk exactly, one chunk and a sector, a
\* chunk short of a 64-bit word, a word of chunks and one sector more.
MCSizes == {1, 2048, 2049, 63 * 2048, 64 * 2048 + 1}
=============================================================================
