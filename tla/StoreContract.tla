--------------------------- MODULE StoreContract ----------------------------
(***************************************************************************)
(* What the trait Storage (storage/mod.rs) promises its callers about the  *)
(* content of files, whatever the backend.                                 *)
(*                                                                         *)
(* A call may fail at any time, but it may not lose or invent content: a   *)
(* write leaves the old content, nothing or the new one, never a mixture;  *)
(* a rename has the content at its source until it has it at its target;   *)
(* removing a directory removes what lies in it and nothing else; and a    *)
(* call that reports success has had its whole effect: a directory that    *)
(* has been removed with its contents has none left.                       *)
(***************************************************************************)
EXTENDS Sequences, SequencesExt

CONSTANTS Calls, Files, Dirs, Absent

VARIABLES
  files,  \* the content of each path, or Absent
  calls   \* the calls: what was asked, what was read and how far it is

vars == <<files, calls>>

Ops == {"write", "append", "delete", "rename", "copy",
        "create_dir", "create_dir_all", "remove_dir", "remove_dir_all"}

Content(x) == IF x = Absent THEN <<>> ELSE x

Goto(c, phase) == calls' = [calls EXCEPT ![c].phase = phase]

Init ==
  /\ files \in [Files -> {Absent, <<"old">>}]
  /\ calls = [c \in Calls |->
       [op |-> "none", from |-> <<>>, to |-> <<>>, seen |-> Absent,
        phase |-> "idle"]]

Begin(c) ==
  /\ calls[c].phase = "idle"
  /\ calls'[c] \in [op : Ops, from : Files \cup Dirs, to : Files \cup {<<>>},
                    seen : {Absent}, phase : {"open"}]
  /\ calls' = [calls EXCEPT ![c] = calls'[c]]
  /\ UNCHANGED files

\* The call reads its source.
Look(c) ==
  /\ calls[c].phase = "open" /\ calls[c].from \in Files
  /\ calls' = [calls EXCEPT ![c].seen = Content(files[calls[c].from])]
  /\ UNCHANGED files

\* Opening a file for writing empties it, opening it to append creates it.
Touch(c) ==
  LET q == calls[c]
      p == IF q.op = "copy" THEN q.to ELSE q.from
  IN /\ q.phase = "open"
     /\ q.op \in {"write", "copy"} \/ (q.op = "append" /\ files[p] = Absent)
     /\ files' = [files EXCEPT ![p] = <<>>]
     /\ UNCHANGED calls

In(p, q) == IsStrictPrefix(q.from, p)
Removes(q) == q.op = "remove_dir_all" \/ (q.op = "delete" /\ q.from \in Dirs)

\* The whole effect of a call, with which it has succeeded.
Perform(c) ==
  LET q == calls[c] IN
  /\ q.phase = "open"
  /\ CASE q.op = "write" -> files' = [files EXCEPT ![q.from] = <<c>>]
       [] q.op = "append" -> files' = [files EXCEPT
            ![q.from] = Append(Content(@), c)]
       [] q.op = "delete" /\ q.from \in Files ->
            files' = [files EXCEPT ![q.from] = Absent]
       [] q.op = "rename" -> /\ files[q.from] # Absent
                             /\ files' = [files EXCEPT
                                  ![q.to] = files[q.from],
                                  ![q.from] = Absent]
       [] q.op = "copy" -> \E x \in {q.seen, files[q.from]} \ {Absent} :
            files' = [files EXCEPT ![q.to] = x]
       [] Removes(q) -> files' = [p \in Files |->
            IF In(p, q) THEN Absent ELSE files[p]]
       [] OTHER -> UNCHANGED files
  /\ Goto(c, "ok")

\* A rename in two halves: the second only once the first has been done.
CopyOver(c) ==
  LET q == calls[c] IN
  /\ q.phase = "open" /\ q.op = "rename" /\ files[q.from] # Absent
  /\ files' = [files EXCEPT ![q.to] = files[q.from]]
  /\ Goto(c, "copied")

Drop(c) ==
  LET q == calls[c] IN
  /\ q.phase = "copied" /\ files[q.to] = files[q.from]
  /\ files' = [files EXCEPT ![q.from] = Absent]
  /\ Goto(c, "ok")

\* Some of what lies in the directory goes before the rest.
Prune(c) ==
  LET q == calls[c] IN
  /\ q.phase = "open" /\ Removes(q)
  /\ \E S \in SUBSET {p \in Files : In(p, q)} :
       files' = [p \in Files |-> IF p \in S THEN Absent ELSE files[p]]
  /\ UNCHANGED calls

Fail(c) ==
  /\ calls[c].phase \in {"open", "copied"}
  /\ Goto(c, "err")
  /\ UNCHANGED files

Next == \E c \in Calls :
  \/ Begin(c) \/ Look(c) \/ Touch(c) \/ Perform(c) \/ CopyOver(c) \/ Drop(c)
  \/ Prune(c) \/ Fail(c)

Spec == Init /\ [][Next]_vars
=============================================================================
