----------------------------- MODULE WebService -----------------------------
(***************************************************************************)
(* What the web server promises its clients, without sockets, polls,       *)
(* pieces of requests and threads: a client is accepted at most once and   *)
(* among few others, it is answered at most once and then closed, and the  *)
(* answer is right for what it asked and for as much as was read of it.    *)
(***************************************************************************)
EXTENDS Naturals, FiniteSets

CONSTANTS Clients,
          Limit     \* how many connections are accepted at a time

VARIABLES wanted,  \* what each client asks for
          link,    \* its connection
          reply    \* its answer

serviceVars == <<wanted, link, reply>>

Answers == [code : {200, 400, 401, 404}, body : {"empty", "part", "whole"}]
NoAnswer == [code |-> 0, body |-> "empty"]

(* A whole request gets what it asks for.  The rest of the answers: only   *)
(* the list of models needs no body, only a tokenizer takes an empty one.  *)
Right(want, r) ==
  /\ r.body = "whole" =>
       IF want = "unknown model" THEN r.code \in {400, 404} ELSE r.code = 200
  /\ r.code = 200 => \/ want = "models" \/ r.body = "whole"
                     \/ want = "tokenize" /\ r.body = "empty"

Accepted == {c \in Clients : link[c] = "accepted"}

Init ==
  /\ link = [c \in Clients |-> "away"]
  /\ reply = [c \in Clients |-> NoAnswer]

Connect(c) ==
  /\ link[c] = "away"
  /\ link' = [link EXCEPT ![c] = "backlog"]
  /\ UNCHANGED <<wanted, reply>>

Accept(c) ==
  /\ link[c] = "backlog" /\ Cardinality(Accepted) < Limit
  /\ link' = [link EXCEPT ![c] = "accepted"]
  /\ UNCHANGED <<wanted, reply>>

Answer(c) ==
  /\ link[c] = "accepted"
  /\ link' = [link EXCEPT ![c] = "closed"]
  /\ \E r \in Answers : Right(wanted[c], r) /\ reply' = [reply EXCEPT ![c] = r]
  /\ UNCHANGED wanted

(* Unanswered: too many, a signal, a poll that fails, a client that is gone.*)
Close(conns) ==
  /\ \A c \in conns : link[c] \in {"backlog", "accepted"}
  /\ link' = [c \in Clients |-> IF c \in conns THEN "closed" ELSE link[c]]
  /\ UNCHANGED <<wanted, reply>>

Next == \/ \E c \in Clients : Connect(c) \/ Accept(c) \/ Answer(c)
        \/ \E conns \in SUBSET Clients : Close(conns)

Spec == Init /\ [][Next]_serviceVars
=============================================================================
