---------------------------- MODULE MCClassSearch ----------------------------
(***************************************************************************)
(* class_of on the real table of preload.cpp.                              *)
(***************************************************************************)
EXTENDS ClassSearch

MCSizes == <<
  8, 16, 24, 32, 40, 48, 56, 64, 80, 96, 112, 128,
  160, 192, 224, 256, 320, 384, 448, 512, 640, 768, 896, 1024,
  1280, 1536, 1792, 2048, 2560, 3072, 3584, 4096, 5120, 6144, 7168, 8192,
  10240, 12288, 14336, 16384, 20480, 24576, 28672, 32768, 40960, 49152, 57344, 65536,
  81920, 98304, 114688, 131072, 163840, 196608, 229376, 262144, 327680, 393216, 458752, 524288,
  655360, 786432, 917504, 1048576, 1310720, 1572864, 1835008, 2097152>>

\* The smallest request, and those on both sides of every boundary.
MCRequests ==
  {1} \cup {MCSizes[c] : c \in 1 .. 68}
      \cup {MCSizes[c] - 1 : c \in 1 .. 68}
      \cup {MCSizes[c] + 1 : c \in 1 .. 67}
=============================================================================
