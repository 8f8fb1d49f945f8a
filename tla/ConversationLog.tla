--------------------------- MODULE ConversationLog ---------------------------
(***************************************************************************)
(* What the bot promises about conversations, without transcripts, models  *)
(* or tools: each conversation is a log of the turns answered in it.  A    *)
(* turn enters the log of its own place once, at the end, and stays.       *)
(***************************************************************************)
EXTENDS Sequences

CONSTANTS
  Requests,  (* the turns                                                  *)
  Keys,      (* the conversations                                          *)
  Place      (* the conversation of each turn                              *)

VARIABLE log

Logged(r) == \E i \in DOMAIN log[Place[r]] : log[Place[r]][i] = r

Init == log = [k \in Keys |-> <<>>]

Commit(r) ==
  /\ ~Logged(r)
  /\ log' = [log EXCEPT ![Place[r]] = Append(@, r)]

Next == \E r \in Requests : Commit(r)

Spec == Init /\ [][Next]_log
===============================================================================
