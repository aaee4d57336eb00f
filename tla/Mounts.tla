------------------------------- MODULE Mounts -------------------------------
(***************************************************************************)
(* MountEnumerator: what the first-run dialog is told of the mount table.  *)
(*                                                                         *)
(* A line of /proc/self/mountinfo is its fields; a field is a sequence of  *)
(* characters, or one symbol where only equality matters (types of file    *)
(* systems, the dash). Labels and removable devices are left out: nothing  *)
(* but the label's display depends on them.                                *)
(***************************************************************************)
EXTENDS Integers, Sequences, SequencesExt

CONSTANT PseudoFsTypes    \* types of file systems that hold no files of their own

Digits == [c \in {"0", "1", "3", "4"} |->
             CASE c = "0" -> 0 [] c = "1" -> 1 [] c = "3" -> 3 [] OTHER -> 4]

\* The characters the kernel writes as an octal number: blank and backslash.
CharOf == [n \in {32, 92} |-> IF n = 32 THEN " " ELSE "\\"]

IsEscape(raw, i) ==
    /\ raw[i] = "\\" /\ i + 3 <= Len(raw)
    /\ \A k \in 1..3 : raw[i + k] \in DOMAIN Digits

\* skip counts the digits of an escape that are still to be passed over.
DecodeMountinfoEscapes(raw) ==
    LET Value(i) == Digits[raw[i + 1]] * 64 + Digits[raw[i + 2]] * 8 + Digits[raw[i + 3]]
        Step(s, i) ==
            IF s.skip > 0 THEN [s EXCEPT !.skip = @ - 1]
            ELSE IF IsEscape(raw, i)
                 THEN [out |-> Append(s.out, CharOf[Value(i)]), skip |-> 3]
                 ELSE [s EXCEPT !.out = Append(@, raw[i])]
    IN FoldLeftDomain(Step, [out |-> <<>>, skip |-> 0], raw).out

\* Zero or one mount: a line that lacks a field is left out. The optional
\* fields end at the dash.
ParseMountInfoLine(fields) ==
    LET dash == SelectInSubSeq(fields, 7, Len(fields), LAMBDA f : f = <<"-">>)
    IN IF Len(fields) < 6 \/ dash = 0 \/ dash + 2 > Len(fields) THEN <<>>
       ELSE <<[mountPoint |-> DecodeMountinfoEscapes(fields[5]), fsType |-> fields[dash + 1]]>>

IsPseudoFsType(mount) == mount.fsType \in {<<t>> : t \in PseudoFsTypes}

ParseMountInfo(lines) ==
    SelectSeq(FlattenSeq([i \in DOMAIN lines |-> ParseMountInfoLine(lines[i])]),
              LAMBDA m : ~IsPseudoFsType(m))
=============================================================================
