-------------------------------- MODULE MCVm --------------------------------
(***************************************************************************)
(* Address spaces and page replacement on small instances.  They share no  *)
(* state, since replacement only ever works on the address space of        *)
(* check_swap: part says which of the two a behaviour is of.               *)
(***************************************************************************)
EXTENDS Swap

CONSTANTS Procs, NFrames, NV, PTN, PGSIZE, Stack, StackPages, Programs, Reads, Argv,
          MallocSizes, MaxCalls, ObjsPerPage

VARIABLES part, proc, kstack, mm, pool, calls, halt

V == INSTANCE Vm

spaces == <<proc, kstack, mm, pool, calls, halt>>

Ph(type, va, filesz, memsz, flags) ==
    [type |-> type, va |-> va, filesz |-> filesz, memsz |-> memsz, flags |-> flags]

\* A segment with a bss that reaches into the next page; one with headers that
\* are skipped; one whose segments share a page; one that claims more file than
\* memory.
MCPrograms == {
    <<Ph("LOAD", 0, 1, 3, {"R", "W"}), Ph("NOTE", 0, 1, 1, {"R"})>>,
    <<Ph("LOAD", 0, 0, 3, {"R", "W"}), Ph("LOAD", 1, 1, 1, {"R", "X"})>>,
    <<Ph("LOAD", 0, 1, 1, {"R", "X"}), Ph("LOAD", 1, 1, 2, {"R", "W"})>>,
    <<Ph("LOAD", 0, 2, 1, {"R", "X"})>> }

\* Strings where a program has its data, or on the stack and in the data.
MCArgv == {<<2>>, <<4, 2>>}

MCInit == /\ part \in {"vm", "swap"}
          /\ V!Init
          /\ Init /\ (part = "vm" => sm = "fifo")

MCNext == \/ part = "vm" /\ V!Next /\ UNCHANGED <<part, svars>>
          \/ part = "swap" /\ Next /\ UNCHANGED <<part, spaces>>

MCSpec == MCInit /\ [][MCNext]_<<part, spaces, svars>>

\* The frames are all accounted for: see FramesExact of Vm.
FramesExact == V!FramesExact

\* The areas, tables and pages agree: see AreasExact of Vm.
AreasExact == V!AreasExact

\* The tests of pmm_init and vmm_init pass: see BootChecks of Vm.
BootChecks == V!BootChecks

\* User programs see private memory: see ImplementsAddrSpec of Vm.
ImplementsAddrSpec == V!ImplementsAddrSpec

\* init_main's last assertion: see InitMainMemory of Vm.
InitMainMemory == V!InitMainMemory
=============================================================================
