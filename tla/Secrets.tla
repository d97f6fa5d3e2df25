------------------------------ MODULE Secrets ------------------------------
(***************************************************************************)
(* The node secret: one SSM parameter that `secrets generate`, `set` and   *)
(* `delete` and the first step of `apply` read and write, each with a read *)
(* and, maybe a question later, a write of the whole parameter.            *)
(*                                                                         *)
(* A value is a sequence of characters: "dq", "sq" and "bs" are the double *)
(* quote, the single quote and the backslash, "lt" is <, and the others    *)
(* are letters and digits.                                                 *)
(***************************************************************************)
EXTENDS Naturals, Sequences, SequencesExt

CONSTANTS
  Procs,   \* the bbctl processes
  Keys,    \* SecretKeys
  Given,   \* the values users pass to `secrets set`
  Random,  \* the values GenerateSecrets draws
  Limit,   \* SSM refuses longer values (the parameter as a whole is limited)
  Absent,  \* no parameter; also: a process that has read none
  Verbs    \* the commands the users run

\* KEY=VALUE... of `secrets set`
Assignments == UNION {[ks -> Given] : ks \in (SUBSET Keys) \ {{}}}

Values == Seq({"dq", "sq", "bs", "lt"} \cup UNION {ToSet(v) : v \in Given \cup Random})

SecretsConstants ==
  /\ Verbs \subseteq {"set", "generate", "force", "apply", "delete"}
  /\ Limit \in Nat
  /\ Given \cup Random \subseteq Values
  /\ \A v \in Random : v # <<>> /\ v[1] # "lt"
  /\ Absent \notin [Keys -> Values]
  /\ Absent \notin [verb : Verbs, sets : Assignments \cup {Absent}]

VARIABLES
  param,  \* the parameter: what stands after the = of each key
  pc,     \* the next thing the process does
  cmd,    \* its verb, and the values given to `set`
  next    \* what it will write: the value of each key

vars == <<param, pc, cmd, next>>

-----------------------------------------------------------------------------
(* The format: KEY="value" with Go's %q, read back by trimming quotes.     *)

Escaped(c) == IF c \in {"dq", "bs"} THEN <<"bs", c>> ELSE <<c>>

FormatValue(v) == <<"dq">> \o FlattenSeq([i \in DOMAIN v |-> Escaped(v[i])]) \o <<"dq">>

\* Mutant of ParseValue: the quotes stay.
ParseUntrimmed(t) == t
\* strings.Trim(v, `"'`): quotes go from both ends; escapes are left alone.
ParseValue(t) ==
  LET inner == {i \in DOMAIN t : t[i] \notin {"dq", "sq"}}
  IN IF inner = {} THEN <<>> ELSE SubSeq(t, Min(inner), Max(inner))

\* FormatSecrets writes every key, a key without value as "".
FormatSecrets(s) == [k \in Keys |-> FormatValue(s[k])]

ParseSecrets(content) == [k \in Keys |-> ParseValue(content[k])]

\* What a reader makes of the parameter; nothing is the same as empty values.
Read(content) == IF content = Absent THEN [k \in Keys |-> <<>>] ELSE ParseSecrets(content)

MissingSecrets(s) == {k \in Keys : s[k] = <<>> \/ s[k][1] = "lt"}

-----------------------------------------------------------------------------
Ended(p) == pc[p] \in {"idle", "ok", "failed"}

TypeOK ==
  /\ param # Absent => \A k \in Keys : param[k] \in Values /\ Len(param[k]) <= Limit
  /\ pc \in [Procs -> {"idle", "read", "put", "check", "delete", "ok", "failed"}]
  /\ \A p \in Procs : Ended(p) <=> cmd[p] = Absent
  /\ \A p \in Procs : pc[p] = "put" => \A k \in Keys : next[p][k] \in Values

Init ==
  /\ param = Absent
  /\ pc = [p \in Procs |-> "idle"]
  /\ cmd = [p \in Procs |-> Absent]
  /\ next = [p \in Procs |-> Absent]

Goto(p, label) == pc' = [pc EXCEPT ![p] = label]

Finish(p, result) ==
  /\ Goto(p, result)
  /\ cmd' = [cmd EXCEPT ![p] = Absent]
  /\ next' = [next EXCEPT ![p] = Absent]

Start(p) ==
  /\ Ended(p)
  /\ \E v \in Verbs, sets \in Assignments \cup {Absent} :
       /\ (v = "set") <=> (sets # Absent)
       /\ cmd' = [cmd EXCEPT ![p] = [verb |-> v, sets |-> sets]]
       /\ Goto(p, IF v = "delete" THEN "delete" ELSE "read")
  /\ UNCHANGED <<param, next>>

\* A call to SSM fails, the user answers no, or an argument is refused.
Fail(p) ==
  /\ ~Ended(p)
  /\ Finish(p, "failed")
  /\ UNCHANGED param

\* Mutant of Overlay: only what is given is written.
OverlayEmpty(s, sets) == [k \in Keys |-> IF k \in DOMAIN sets THEN sets[k] ELSE <<>>]
\* set: the values given take the place of those read.
Overlay(s, sets) == [k \in Keys |-> IF k \in DOMAIN sets THEN sets[k] ELSE s[k]]

SetSecrets(p) ==
  /\ pc[p] = "read" /\ cmd[p].verb = "set"
  /\ next' = [next EXCEPT ![p] = Overlay(Read(param), cmd[p].sets)]
  /\ Goto(p, "put")
  /\ UNCHANGED <<param, cmd>>

\* generate --force replaces what is there, the others leave it alone:
\* generate is done, apply goes on to check it.
GeneratesAlways(verb, found) == verb # "apply" \/ ~found  \* mutant: --force is the default
Generates(verb, found) == ~found \/ verb = "force"

GenerateSecrets(p) ==
  /\ pc[p] = "read" /\ Generates(cmd[p].verb, param # Absent)
  /\ cmd[p].verb # "set"
  /\ \E s \in [Keys -> Random] : next' = [next EXCEPT ![p] = s]
  /\ Goto(p, "put")
  /\ UNCHANGED <<param, cmd>>

LeaveAlone(p) ==
  /\ pc[p] = "read" /\ ~Generates(cmd[p].verb, param # Absent)
  /\ IF cmd[p].verb = "generate" THEN Finish(p, "ok")
     ELSE /\ cmd[p].verb = "apply"
          /\ Goto(p, "check") /\ UNCHANGED <<cmd, next>>
  /\ UNCHANGED param

\* Mutant of PutSecrets: the limit is not enforced.
PutUnlimited(p) ==
  /\ pc[p] = "put"
  /\ param' = FormatSecrets(next[p])
  /\ Finish(p, "ok")

\* PutSecrets overwrites whatever is there by then.
PutSecrets(p) ==
  /\ pc[p] = "put"
  /\ \A k \in Keys : Len(FormatValue(next[p][k])) <= Limit
  /\ param' = FormatSecrets(next[p])
  /\ IF cmd[p].verb = "apply"
     THEN Goto(p, "check") /\ UNCHANGED <<cmd, next>>
     ELSE Finish(p, "ok")

\* CheckSecrets reads the parameter once more; apply goes on if it is complete.
CheckSecrets(p) ==
  /\ pc[p] = "check"
  /\ param # Absent /\ MissingSecrets(Read(param)) = {}
  /\ Finish(p, "ok")
  /\ UNCHANGED param

\* secrets delete and destroy --purge; a missing parameter is not an error.
DeleteSecrets(p) ==
  /\ pc[p] = "delete"
  /\ param' = Absent
  /\ Finish(p, "ok")

Next ==
  \E p \in Procs :
    \/ Start(p) \/ SetSecrets(p) \/ GenerateSecrets(p) \/ LeaveAlone(p)
    \/ PutSecrets(p) \/ CheckSecrets(p) \/ DeleteSecrets(p) \/ Fail(p)

Spec == Init /\ [][Next]_vars

-----------------------------------------------------------------------------
(* Properties *)

Puts(p, verbs) == pc[p] = "put" /\ pc'[p] \notin {"put", "failed"} /\ cmd[p].verb \in verbs

\* "An existing secret is only checked, never replaced" by apply, and "left
\* alone" by generate without --force (ensureSecrets, secretsGenerateCmd).
ExistingKept ==
  [][\A p \in Procs : Puts(p, {"apply", "generate"}) => param = Absent]_vars

\* secrets set: "set individual keys, keeping the others".  The others read the
\* same afterwards.
SetKeepsOthers ==
  [][\A p \in Procs : Puts(p, {"set"}) =>
       \A k \in Keys \ DOMAIN cmd[p].sets : Read(param')[k] = Read(param)[k]]_vars

\* Values without quotes and backslashes do: those that GenerateSecrets draws,
\* and most that users choose.
Plain(v) == ToSet(v) \cap {"dq", "sq", "bs"} = {}

\* What `secrets set` leaves behind.  The plain values of other keys stay as they
\* were.  No key is missing that was not, unless it was given: a complete secret
\* does not keep nodes from being provisioned because of a later set of another
\* key.  And `secrets get` prints what was given, if that is plain.
SetKeepsSecret ==
  [][\A p \in Procs : Puts(p, {"set"}) =>
       LET before == Read(param)
           after == Read(param')
           given == DOMAIN cmd[p].sets
       IN /\ \A k \in Keys \ given : Plain(before[k]) => after[k] = before[k]
          /\ MissingSecrets(after) \subseteq MissingSecrets(before) \cup given
          /\ \A k \in given : Plain(cmd[p].sets[k]) => after[k] = cmd[p].sets[k]]_vars

=============================================================================
