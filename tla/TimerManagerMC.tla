--------------------------- MODULE TimerManagerMC ---------------------------
(***************************************************************************)
(* Instances of TimerManager for TLC: the eBPF thread and the worker, a few *)
(* descriptors and timers.                                                  *)
(***************************************************************************)
EXTENDS TimerManager

CONSTANTS ebpf,           \* the thread of BpfLoader
          main,           \* main(), which arms the guard and the poll
          i1, i2, i3, i4  \* timers

\* Numbers after 0, 1, 2 and epoll_fd_.
FewFds == 4 .. 5
SomeFds == 4 .. 6

=============================================================================
