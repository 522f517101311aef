------------------------------- MODULE MCHart -------------------------------
(* Two pages that share a TLB line, mapped one by one or together; a       *)
(* kernel page, a user page for data and one for code.                     *)
EXTENDS Hart

leaf(r, w, x, u, pp) == [v |-> TRUE, r |-> r, w |-> w, x |-> x, u |-> u, d |-> FALSE, pp |-> pp, span |-> NoSpan]
MCLine == [va \in {1, 2} |-> 1]
KernelLeaf == leaf(TRUE, TRUE, FALSE, FALSE, 1)
DataLeaf == leaf(TRUE, TRUE, FALSE, TRUE, 2)
CodeLeaf == leaf(FALSE, FALSE, TRUE, TRUE, 1)
MCSpans == {[va \in {1} |-> 0], [va \in {2} |-> 0], [va \in {1, 2} |-> va - 1]}

boot(mode, satp, deleg) ==
  [mode |-> mode, MIE |-> FALSE, SIE |-> FALSE, MPIE |-> FALSE, SPIE |-> FALSE, MPP |-> User, SPP |-> FALSE,
   MPRV |-> FALSE, SUM |-> FALSE, MXR |-> FALSE, TVM |-> FALSE, TW |-> FALSE, TSR |-> FALSE,
   satp |-> satp, mie |-> {}, mip |-> {}, mideleg |-> {}, medeleg |-> deleg]
program(ops, accesses, leaves, status, irqs, start, interval) ==
  [ops |-> ops, accesses |-> accesses, leaves |-> leaves, status |-> status, irqs |-> irqs, boot |-> start, interval |-> interval]
Kernel == program({"memory", "table", "trap"}, {"Store"}, {KernelLeaf, DataLeaf}, {}, {},
                  boot(Supervisor, "paged", {2, 8, 12, 13, 15}), 0)
Firmware == program({"memory", "table", "status"}, {"Fetch", "Load"}, {DataLeaf, CodeLeaf},
                    {[SUM |-> TRUE, MPRV |-> FALSE], [SUM |-> FALSE, MXR |-> TRUE], [MPRV |-> TRUE, MPP |-> 1]},
                    {}, boot(Machine, "paged", {}), 0)
Compiled == program({"memory", "table", "mark"}, Fused, {KernelLeaf}, {}, {}, boot(Supervisor, "paged", {}), 0)
Interrupted == program({"irq", "trap", "status", "compiled"}, {}, {},
                       {[SIE |-> TRUE, MIE |-> TRUE], [MPP |-> 1, SPP |-> TRUE], [TSR |-> TRUE, TVM |-> TRUE, TW |-> TRUE]},
                       {1, 7}, boot(Machine, "bare", {8}), 2)
Patcher == program({"code"}, {}, {}, {}, {}, boot(Machine, "bare", {}), 0)
DirectBoot == program({"sbi", "irq", "trap", "compiled"}, {}, {}, {}, {5},
                      [boot(Supervisor, "bare", {2, 8}) EXCEPT !.mideleg = {1, 5, 9}, !.SIE = TRUE], 1)
MCGuests == {DirectBoot, Kernel, Firmware, Compiled, Interrupted, Patcher}
=============================================================================
