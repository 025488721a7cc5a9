----------------------------- MODULE ChunkSerial -----------------------------
(***************************************************************************)
(* What the chunk workers promise to the rest of ChunkService, with no     *)
(* worker in sight: each chunk executes the operations it has accepted one *)
(* at a time, in the order it accepted them, and answers every one of      *)
(* them.  ChunkWorkers is shown to implement this specification, and       *)
(* MineChunk takes it as given.                                            *)
(***************************************************************************)
EXTENDS Naturals, Sequences

CONSTANTS Requests, Chunks, ChunkOf, NoRequest

VARIABLES
    pending,    \* accepted operations of each chunk, in order
    executing,  \* the operation each chunk is executing
    answer      \* the answer of each operation not collected yet

vars == <<pending, executing, answer>>

Answers == {"served", "refused"}

Init ==
    /\ pending = [c \in Chunks |-> <<>>]
    /\ executing = [c \in Chunks |-> NoRequest]
    /\ answer = [r \in Requests |-> "empty"]

Outstanding(r) ==
    LET c == ChunkOf[r] IN
    executing[c] = r \/ \E i \in DOMAIN pending[c] : pending[c][i] = r

\* The chunk accepts an operation, behind those it has accepted before.
Accept(r) ==
    /\ ~Outstanding(r)
    /\ answer[r] = "empty"
    /\ pending' = [pending EXCEPT ![ChunkOf[r]] = Append(@, r)]
    /\ UNCHANGED <<executing, answer>>

\* The chunk starts its oldest accepted operation when it executes none.
Start(c) ==
    /\ executing[c] = NoRequest
    /\ pending[c] # <<>>
    /\ executing' = [executing EXCEPT ![c] = Head(pending[c])]
    /\ pending' = [pending EXCEPT ![c] = Tail(@)]
    /\ UNCHANGED answer

\* The operation has been carried out, or refused because its caller left.
Answer(c) ==
    /\ executing[c] # NoRequest
    /\ \E a \in Answers : answer' = [answer EXCEPT ![executing[c]] = a]
    /\ executing' = [executing EXCEPT ![c] = NoRequest]
    /\ UNCHANGED pending

\* The caller takes the answer, or nobody will.
Collect(r) ==
    /\ answer[r] # "empty"
    /\ answer' = [answer EXCEPT ![r] = "empty"]
    /\ UNCHANGED <<pending, executing>>

Next ==
    \/ \E r \in Requests : Accept(r) \/ Collect(r)
    \/ \E c \in Chunks : Start(c) \/ Answer(c)

Spec == Init /\ [][Next]_vars

FairSpec == Spec /\ \A c \in Chunks : WF_vars(Start(c)) /\ WF_vars(Answer(c))

=============================================================================
