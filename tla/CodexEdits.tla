----------------------------- MODULE CodexEdits -----------------------------
(***************************************************************************)
(* What editing Codex's two configuration files promises: each change of a *)
(* file is one edit, applied to what the file held, and everything the     *)
(* researcher wrote by hand stays.                                         *)
(*                                                                         *)
(* The edits themselves are those of the crate cyber-sandbox-agents;       *)
(* CodexFiles carries them out step by step and implements this.           *)
(***************************************************************************)
CONSTANTS
  Session,   \* identifiers of sessions
  Own,       \* an environment, and a trusted directory, of the researcher's
  None       \* no value

VARIABLE files   \* what each file says

\* environments.toml and config.toml.
File == {"environments", "config"}

\* `default`, and the ids under [[environments]] or the directories of
\* sessions under [projects].  config.toml has no `default`.
Document ==
  [default : Session \cup {Own, None}, entries : SUBSET (Session \cup {Own})]

\* What a file that does not exist, or is empty, is read as.
Blank == [default |-> None, entries |-> {}]

Adding(d, s) == [d EXCEPT !.entries = @ \cup {s}]
Dropping(d, s) == [d EXCEPT !.entries = @ \ {s}]
Selecting(d, v) == [d EXCEPT !.default = v]

\* The researcher has an environment and a trusted directory of their own,
\* and may have made that environment the default.
Init ==
  \E d \in {Own, None} :
    files = [environments |-> [default |-> d, entries |-> {Own}],
             config |-> [default |-> None, entries |-> {Own}]]

Edit(f) ==
  \/ \E s \in Session : files' = [files EXCEPT ![f] = Adding(@, s)]
  \/ \E s \in Session : files' = [files EXCEPT ![f] = Dropping(@, s)]
  \/ \E v \in Session \cup {Own, None} :
       files' = [files EXCEPT !.environments = Selecting(@, v)]

Next == \E f \in File : Edit(f)

Spec == Init /\ [][Next]_files
=============================================================================
