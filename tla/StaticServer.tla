---------------------------- MODULE StaticServer ----------------------------
(***************************************************************************)
(* The built-in static server (serve.rs): a single-threaded accept loop on *)
(* the loopback that reads one request, answers it and goes back to the    *)
(* backlog.  Clients may be silent, send their request in pieces, or be    *)
(* slow to read the answer; the tree below the root may change between two *)
(* requests, and an answer that fits the socket buffer never blocks.       *)
(***************************************************************************)
EXTENDS Naturals, Sequences, FiniteSets

CONSTANT Clients

VARIABLES
  backlog,   \* connections not accepted yet, in order
  client,    \* each client: "away", "queued", "sent", "piece", "answered"
  loop,      \* the server: accepting, reading from or writing to a client
  reply      \* the status each client got, 0 for none

serveVars == <<backlog, client, loop, reply>>

Accepting == [at |-> "accept"]

ServeInit ==
  /\ backlog = <<>>
  /\ client = [c \in Clients |-> "away"]
  /\ loop = Accepting
  /\ reply = [c \in Clients |-> 0]

-----------------------------------------------------------------------------
(* Clients *)

Connect(c) ==
  /\ client[c] = "away"
  /\ client' = [client EXCEPT ![c] = "queued"]
  /\ backlog' = Append(backlog, c)
  /\ UNCHANGED <<loop, reply>>

\* The request arrives, whole or only its first piece; a silent client sends
\* nothing.
Send(c) ==
  /\ client[c] = "queued"
  /\ client' \in {[client EXCEPT ![c] = s] : s \in {"sent", "piece"}}
  /\ UNCHANGED <<backlog, loop, reply>>

-----------------------------------------------------------------------------
(* The loop *)

Accept ==
  /\ loop = Accepting
  /\ backlog # <<>>
  /\ loop' = [at |-> "read", from |-> Head(backlog)]
  /\ backlog' = Tail(backlog)
  /\ UNCHANGED <<client, reply>>

\* What a complete GET or HEAD is answered, by what the path names: a file or a
\* directory inside the root, a hidden entry or one that leads outside it,
\* nothing at all.
Statuses == {200, 403, 404}

\* One read: another method and a silent client get 405, a request whose path
\* did not arrive 400, and the answer is small or larger than the buffer.
Read ==
  /\ loop.at = "read"
  /\ client[loop.from] \in {"sent", "piece"}
  /\ \E status \in IF client[loop.from] = "piece" THEN {400, 405} ELSE Statuses \cup {405},
        large \in BOOLEAN :
       /\ large => status = 200
       /\ loop' = [at |-> "write", to |-> loop.from, status |-> status, large |-> large]
  /\ UNCHANGED <<backlog, client, reply>>

\* Mutation: a silent client is waited for.
NoReadTimeout == FALSE

\* The read timeout ends the wait for a silent client.
ReadTimeout ==
  /\ loop.at = "read"
  /\ client[loop.from] = "queued"
  /\ loop' = [at |-> "write", to |-> loop.from, status |-> 405, large |-> FALSE]
  /\ UNCHANGED <<backlog, client, reply>>

Answered(c, status) ==
  /\ reply' = [reply EXCEPT ![c] = status]
  /\ client' = [client EXCEPT ![c] = "answered"]
  /\ loop' = Accepting
  /\ UNCHANGED backlog

Write == loop.at = "write" /\ ~loop.large /\ Answered(loop.to, loop.status)

\* There is no write timeout: a large answer waits for its client to read.
Drained(c) == loop.at = "write" /\ loop.large /\ loop.to = c /\ Answered(c, loop.status)

\* The client looks at its answer and may come back.
Return(c) ==
  /\ client[c] = "answered"
  /\ client' = [client EXCEPT ![c] = "away"]
  /\ reply' = [reply EXCEPT ![c] = 0]
  /\ UNCHANGED <<backlog, loop>>

ServeNext ==
  \/ Accept \/ Read \/ ReadTimeout \/ Write
  \/ \E c \in Clients : Connect(c) \/ Send(c) \/ Drained(c) \/ Return(c)

ServeLoop == Accept \/ Read \/ ReadTimeout \/ Write
ServeFair ==
  /\ WF_serveVars(ServeLoop)
  /\ \A c \in Clients : WF_serveVars(Drained(c))

ServeSpec == ServeInit /\ [][ServeNext]_serveVars /\ ServeFair

-----------------------------------------------------------------------------
(* Properties *)

\* Whoever connects is answered, also while others stay silent: a client that
\* never sends its request holds the loop for the read timeout and no longer.
\* (Assumes that a client reads the large answer it asked for.)
ConnectedIsAnswered ==
  \A c \in Clients : client[c] = "queued" ~> client[c] = "answered"
=============================================================================
