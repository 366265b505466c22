SPECIFICATION FairSpec
CONSTANTS
  ebpf = ebpf  main = main
  Worker = Worker
  NoFd = NoFd  NoId = NoId
  i1 = i1  i2 = i2  i3 = i3  i4 = i4
  Callers = {ebpf, main}
  Ids = {i1, i2, i3}
  Fds <- SomeFds
  MaxEvents = 2
  Delays = {"positive", "none"}
CHECK_DEADLOCK FALSE
INVARIANTS NoDescriptorLeak
PROPERTIES ImplementsService SoundIsServed
