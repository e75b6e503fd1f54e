-------------------------------- MODULE HostList --------------------------------
(***************************************************************************)
(* Slurm host lists (triage/internal/hostlist): how Slurm writes a set of  *)
(* host names, and how triage expands what it wrote.                       *)
(*                                                                         *)
(* A host name is [prefix, digits, suffix], digits the sequence of its     *)
(* decimal digits, leading zeros included.  An expression is a sequence of *)
(* items, one per top-level comma:                                         *)
(*   [prefix, parts, suffix, brackets]  brackets "none", "pair" or "broken"*)
(* with one part [lo, hi] per comma in the brackets, both digit sequences. *)
(***************************************************************************)
EXTENDS Integers, SequencesExt

\* strconv.Atoi of a digit sequence that is not empty.
Value(digits) == FoldLeft(LAMBDA acc, d : 10 * acc + d, 0, digits)

\* The decimal digits of i < 1000, without leading zeros.
Decimal(i) == IF i < 10 THEN <<i>>
              ELSE IF i < 100 THEN <<i \div 10, i % 10>>
              ELSE <<i \div 100, (i \div 10) % 10, i % 10>>

\* %0*d
Padded(i, width) ==
    LET d == Decimal(i)
    IN  IF Len(d) < width THEN [k \in 1..(width - Len(d)) |-> 0] \o d ELSE d

BadPart(p) == p.lo = <<>> \/ p.hi = <<>> \/ Value(p.hi) < Value(p.lo)

\* Mutant: the padding is that of the range's end.
PartDigitsFromEnd(p) == {Padded(i, Len(p.hi)) : i \in Value(p.lo)..Value(p.hi)}

\* The width of the first number is kept for the whole range.
PartDigits(p) == {Padded(i, Len(p.lo)) : i \in Value(p.lo)..Value(p.hi)}

BadItem(it) == \/ it.brackets = "broken"
               \/ it.brackets = "pair" /\ \E p \in ToSet(it.parts) : BadPart(p)

ItemHosts(it) ==
    LET numbers == IF it.brackets = "none" THEN {it.parts[1].lo}
                   ELSE UNION {PartDigits(p) : p \in ToSet(it.parts)}
    IN  {[prefix |-> it.prefix, digits |-> d, suffix |-> it.suffix] : d \in numbers}

\* Expand returns no error: one bad item fails the whole expression.
Expands(expr) == \A it \in ToSet(expr) : ~BadItem(it)

Expand(expr) == UNION {ItemHosts(it) : it \in ToSet(expr)}

\* RunsOn, OnNode: an expression triage cannot read names no node.
Names(expr, host) == Expands(expr) /\ host \in Expand(expr)

-------------------------------------------------------------------------------
(* How slurmctld writes a set of hosts: one item per prefix and suffix, runs *)
(* of consecutive numbers as ranges.  A range keeps the width of its first   *)
(* number, so it goes on as long as the next number, in that width, is there. *)

\* The numbers of host names that Decimal is enough for.
Digits == UNION {[1..n -> 0..9] : n \in 1..3}
HostNames == [prefix : STRING, digits : Digits, suffix : STRING]

NextNumber(a) == Padded(Value(a) + 1, Len(a))

Starts(nums) == {a \in nums : \A b \in nums : NextNumber(b) # a}
Ends(nums)   == {a \in nums : NextNumber(a) \notin nums}

\* Printed in a's width, the numbers from a to e are there.
Run(a, e, nums) ==
    /\ Value(a) <= Value(e) /\ e = Padded(Value(e), Len(a))
    /\ \A i \in Value(a)..Value(e) : Padded(i, Len(a)) \in nums

\* The end of the run that starts at a.
RunEnd(a, nums) == CHOOSE e \in Ends(nums) : Run(a, e, nums)

ItemOf(hosts) ==
    LET h    == CHOOSE x \in hosts : TRUE
        nums == {x.digits : x \in hosts}
    IN  [prefix |-> h.prefix, suffix |-> h.suffix,
         brackets |-> IF Cardinality(nums) = 1 THEN "none" ELSE "pair",
         parts |-> SetToSeq({[lo |-> a, hi |-> RunEnd(a, nums)] : a \in Starts(nums)})]

HostListOf(hosts) ==
    SetToSeq({ItemOf({x \in hosts : x.prefix = h.prefix /\ x.suffix = h.suffix}) : h \in hosts})
===============================================================================
