--------------------------- MODULE SchedulePrograms ---------------------------
(***************************************************************************)
(* The schedule of agentir-core: how each operation of a memory program is *)
(* iterated.  Every dimension of an operation starts as one serial axis;   *)
(* requests split and tile axes, bind them to levels of the target,        *)
(* vectorize, unroll and fuse.  The last part lowers a schedule to the     *)
(* kernels of agentir-backend-wgsl.                                        *)
(*                                                                         *)
(* An axis is its position among the axes made so far; an axis that was    *)
(* split stays, and is no longer among the axes of its node.  The extent 0 *)
(* stands for a symbolic extent.  A workgroup has two dimensions, the      *)
(* third of the code being like the second.                                *)
(***************************************************************************)
EXTENDS Integers, SequencesExt

CONSTANTS
    Nodes,        \* in memory order: [extents, reduction, uses |-> earlier nodes, lanes]
    Levels,       \* that a request may bind
    Widths,       \* vector widths the target supports
    Factors,      \* of splits, tiles and unrolls that are requested
    Launches,     \* workgroup shapes that are requested
    MaxWorkgroup, \* the target's workgroup dimensions
    MaxThreads    \* and threads of a workgroup

ASSUME NodesAssumption ==
    \A n \in DOMAIN Nodes : \A u \in Nodes[n].uses : u < n

Symbolic == 0
Static(extent) == extent # Symbolic

Axis(node, extent, parent, factor, outer, level, remainder) ==
    [node |-> node, extent |-> extent, parent |-> parent, factor |-> factor, outer |-> outer,
     level |-> level, remainder |-> remainder]

\* One serial axis for every dimension of every node, in memory order.
SerialSchedule ==
    FoldLeft(LAMBDA program, n :
                 FoldLeft(LAMBDA p, extent :
                              [p EXCEPT !.axes = Append(@, Axis(n, extent, 0, 1, FALSE, "serial", FALSE)),
                                        !.leaves[n] = Append(@, Len(p.axes) + 1)],
                          program, Nodes[n].extents),
             [axes |-> <<>>, leaves |-> [n \in DOMAIN Nodes |-> <<>>], vectors |-> <<>>,
              unrolls |-> <<>>, groups |-> <<>>, group |-> [n \in DOMAIN Nodes |-> 0],
              launch |-> <<1, 1>>],
             [n \in DOMAIN Nodes |-> n])

Active(p, a) == \E n \in DOMAIN Nodes : a \in ToSet(p.leaves[n])
Reduction(p, a) == Nodes[p.axes[a].node].reduction

---------------------------------------------------------------------------
(* Verification. *)

Dimension(level) ==
    CASE level \in {"workgroup_x", "block_x"} -> 1
      [] level \in {"workgroup_y", "block_y"} -> 2
      [] OTHER -> 0

\* The last axis bound to a dimension gives its size.
WorkgroupDimensions(p) ==
    FoldLeft(LAMBDA w, axis :
                 LET d == Dimension(axis.level)
                 IN IF d = 0 THEN w
                    ELSE [w EXCEPT ![d] = IF Static(axis.extent) THEN axis.extent ELSE 1],
             p.launch, p.axes)

WithinTarget(p) ==
    LET w == WorkgroupDimensions(p)
    IN /\ \A d \in 1 .. 2 : w[d] <= MaxWorkgroup[d]
       /\ w[1] * w[2] <= MaxThreads

\* Over every axis, those that were split included.
LevelsUnique(p) ==
    \A a, b \in DOMAIN p.axes :
        p.axes[a].level = p.axes[b].level /\ p.axes[a].level # "serial" => a = b

VectorFits(p, a, width) == width \in Widths /\ width <= Nodes[p.axes[a].node].lanes

Verified(p) ==
    /\ LevelsUnique(p)
    /\ \A i \in DOMAIN p.vectors : VectorFits(p, p.vectors[i][1], p.vectors[i][2])
    /\ \A i \in DOMAIN p.unrolls : ~Reduction(p, p.unrolls[i][1])
    /\ WithinTarget(p)

---------------------------------------------------------------------------
(* The requests.  Each is the set of the programs it can make: no program  *)
(* when it is refused.                                                     *)

Ceiling(n, width) == (n + width - 1) \div width

X_Outer_RoundsDown(extent, factor) == IF Static(extent) THEN extent \div factor ELSE extent

Outer(extent, factor) ==
    IF Static(extent) THEN Ceiling(extent, factor) ELSE extent

\* The outer part takes over the binding of the axis, which keeps it as well.
SplitAxis(p, a, factor) ==
    LET source == p.axes[a]
        outer == Len(p.axes) + 1
        at == CHOOSE i \in DOMAIN p.leaves[source.node] : p.leaves[source.node][i] = a
    IN IF ~Active(p, a) \/ Reduction(p, a) THEN {}
       ELSE {[p EXCEPT
                !.axes = @ \o <<Axis(source.node, Outer(source.extent, factor), a, factor, TRUE, source.level,
                                     ~Static(source.extent) \/ source.extent % factor # 0),
                                Axis(source.node, factor, a, factor, FALSE, "serial", FALSE)>>,
                !.leaves[source.node] = SubSeq(@, 1, at - 1) \o <<outer, outer + 1>>
                                        \o SubSeq(@, at + 1, Len(@))]}

TileAxes(p, axes, sizes) ==
    FoldLeft(LAMBDA ps, i : UNION {IF axes[i] \in DOMAIN q.axes THEN SplitAxis(q, axes[i], sizes[i]) ELSE {}
                                     : q \in ps},
             {p}, [i \in DOMAIN axes |-> i])

Extents(p, n) == [i \in DOMAIN p.leaves[n] |-> p.axes[p.leaves[n][i]].extent]
Users(n) == {m \in DOMAIN Nodes : n \in Nodes[m].uses}

\* A pair of its own: a member of an earlier group moves to the new one.
FuseOperations(p, producer, consumer) ==
    IF Users(producer) # {consumer} \/ Extents(p, producer) # Extents(p, consumer)
       \/ Nodes[producer].reduction \/ Nodes[consumer].reduction
    THEN {}
    ELSE {[p EXCEPT !.groups = Append(@, <<producer, consumer>>),
                    !.group[producer] = Len(p.groups) + 1,
                    !.group[consumer] = Len(p.groups) + 1]}

BindAxis(p, a, level) ==
    IF ~Active(p, a) \/ (Reduction(p, a) /\ level # "serial") THEN {}
    ELSE {[p EXCEPT !.axes[a].level = level]}

VectorizeAxis(p, a, width) ==
    IF ~Active(p, a) \/ Reduction(p, a) \/ ~VectorFits(p, a, width) THEN {}
    ELSE {[p EXCEPT !.vectors = Append(@, <<a, width>>), !.axes[a].level = "vector_lane"]}

UnrollAxis(p, a, factor) ==
    IF ~Active(p, a) \/ Reduction(p, a) THEN {}
    ELSE {[p EXCEPT !.unrolls = Append(@, <<a, factor>>)]}

ChooseSerial(p, a) ==
    IF ~Active(p, a) THEN {}
    ELSE {[p EXCEPT !.axes[a].level = "serial",
                    !.vectors = SelectSeq(@, LAMBDA v : v[1] # a)]}

\* Changes nothing: the remainder is the compiler's already.
ChooseCompilerRemainder(p, a) == IF p.axes[a].remainder THEN {p} ELSE {}

SetLaunchShape(p, workgroup) == {[p EXCEPT !.launch = workgroup]}

Requests(axes) ==
    [request : {"split"}, axis : axes, factor : Factors]
    \cup [request : {"tile"}, axes : axes \X axes, sizes : Factors \X Factors]
    \cup [request : {"fuse"}, producer : DOMAIN Nodes, consumer : DOMAIN Nodes]
    \cup [request : {"bind"}, axis : axes, level : Levels]
    \cup [request : {"vectorize"}, axis : axes, width : Widths]
    \cup [request : {"unroll"}, axis : axes, factor : Factors]
    \cup [request : {"serial", "remainder"}, axis : axes]
    \cup [request : {"launch"}, workgroup : Launches]

Requested(p, r) ==
    CASE r.request = "split" -> SplitAxis(p, r.axis, r.factor)
      [] r.request = "tile" -> TileAxes(p, r.axes, r.sizes)
      [] r.request = "fuse" -> FuseOperations(p, r.producer, r.consumer)
      [] r.request = "bind" -> BindAxis(p, r.axis, r.level)
      [] r.request = "vectorize" -> VectorizeAxis(p, r.axis, r.width)
      [] r.request = "unroll" -> UnrollAxis(p, r.axis, r.factor)
      [] r.request = "serial" -> ChooseSerial(p, r.axis)
      [] r.request = "remainder" -> ChooseCompilerRemainder(p, r.axis)
      [] r.request = "launch" -> SetLaunchShape(p, r.workgroup)

\* What one more request of a transaction makes of the programs so far.
Accepted(p) == {q \in UNION {Requested(p, r) : r \in Requests(DOMAIN p.axes)} : Verified(q)}

---------------------------------------------------------------------------
(* Lowering: one kernel for every fusion group and every other node.       *)

GroupOf(p, n) == IF p.group[n] = 0 THEN <<n>> ELSE p.groups[p.group[n]]

\* A node that an earlier group has taken is visited; a group is placed at its first node.
Groups(p) ==
    FoldLeft(LAMBDA s, n : IF n \in s.visited THEN s
                           ELSE [visited |-> s.visited \cup {n} \cup ToSet(GroupOf(p, n)),
                                 groups |-> Append(s.groups, GroupOf(p, n))],
             [visited |-> {}, groups |-> <<>>], [n \in DOMAIN Nodes |-> n]).groups

X_Dispatched_RoundsDown(extent, width) == IF Static(extent) THEN extent \div width ELSE Symbolic

\* The workgroups to start: those of a symbolic extent are counted when the kernel runs.
Dispatched(extent, width) == IF Static(extent) THEN Ceiling(extent, width) ELSE Symbolic

Kernel(p, nodes) ==
    LET leaves == UNION {ToSet(p.leaves[n]) : n \in ToSet(nodes)}
        serial == \A a \in leaves : p.axes[a].level = "serial"
        workgroup == IF serial THEN <<1, 1>> ELSE WorkgroupDimensions(p)
        extent == Nodes[nodes[1]].extents[1]
    IN [nodes |-> nodes, serial |-> serial, extent |-> extent, workgroup |-> workgroup,
        workgroups |-> IF Static(extent) /\ serial THEN 1 ELSE Dispatched(extent, workgroup[1])]

\* The kernels have to cover the nodes in exact order: what a group reorders is refused.
Lowered(p) ==
    {kernels \in {[i \in DOMAIN Groups(p) |-> Kernel(p, Groups(p)[i])]} :
        /\ \A n \in DOMAIN Nodes : ~Nodes[n].reduction /\ Len(Nodes[n].extents) = 1
        /\ \A i \in DOMAIN p.vectors : p.vectors[i][2] \in {1, 2, 4}
        /\ FlattenSeq(Groups(p)) = [n \in DOMAIN Nodes |-> n]}

(***************************************************************************)
(* The times that a kernel computes element i, when its symbolic extent    *)
(* has the given size: only the first coordinate of an invocation is its   *)
(* index, and every invocation of a serial kernel loops over the extent.   *)
(***************************************************************************)
TimesComputed(kernel, size, i) ==
    LET workgroups == IF kernel.workgroups = Symbolic THEN Ceiling(size, kernel.workgroup[1])
                      ELSE kernel.workgroups
        threads == kernel.workgroup[1] * kernel.workgroup[2]
    IN IF kernel.serial THEN workgroups * threads
       ELSE IF i < workgroups * kernel.workgroup[1] THEN kernel.workgroup[2] ELSE 0
=============================================================================
