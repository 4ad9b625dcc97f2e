--------------------------- MODULE MCSurfaceCommit ---------------------------
(* SurfaceCommit for TLC *)
EXTENDS SurfaceCommit

BothKinds == {"shm", "dma"}
ShmOnly   == {"shm"}

Pacing        == {"fifo", "timestamps"}
FramesAndFifo == {"callbacks", "fifo"}
=============================================================================
