--------------------------- MODULE AsrServer_proofs ---------------------------
(* What holds of the recognition server for every number of recordings, chunks,
   sessions and results, and every size of its buffer.                      *)
EXTENDS AsrServer, SequenceTheorems, TLAPS

(* The constants' assumption, as the provers need it. *)
LEMMA ConstantsAreNat ==
    /\ MaxTurns \in Nat /\ Chunks \in Nat /\ MaxText \in Nat /\ MaxSessions \in Nat
    /\ BUFFER_SIZE \in Nat /\ BUFFER_SIZE > 1
    /\ \A size \in Sizes : size \in Nat /\ 0 < size /\ size <= BUFFER_SIZE
    /\ \A id \in Ids : id \in Nat /\ id # 0
  BY AsrServerAssumption DEF AsrServerAssumption

-----------------------------------------------------------------------------
(* The inductive invariant. *)

Working == {"open", "init", "start", "write", "partial", "vad", "stop", "result", "exit"}
Writing == {"write", "partial", "vad", "stop"}

(* The line: a recording is worked on from recv to exit, and while the server lives. *)
LineInv ==
    /\ pc \in Working => cur # 0
    /\ pc \notin Working => cur = 0
    /\ pc # "dead" => peer = "up"
    /\ pc \in {"partial", "vad"} => left > 0

(* A session is open from sr_start_listening until one of the three places that end
   it, and iat.state says on which side of them the server is.  After the failed
   write of sr_stop_listening session_id names a session that is no longer open. *)
SessionInv ==
    /\ pc \in Writing => (state = "STARTED" /\ open = {session_id} /\ session_id # 0)
                         \/ (state = "INIT" /\ open = {} /\ session_id = 0)
    /\ pc \in {"partial", "vad"} => state = "STARTED"
    /\ pc = "result" => open = {session_id} /\ session_id # 0
    /\ pc \notin Writing \cup {"result"} => open = {}
    /\ pc \notin Writing \cup {"dead"} => state # "STARTED"
    /\ twice = {}

(* The text: its first id is known once it is not empty. *)
TextInv == TextFits /\ (len # 0 => first \in Ids)

ServerInv == TypeOK /\ LineInv /\ SessionInv /\ TextInv

-----------------------------------------------------------------------------
(* Results. *)

(* on_result keeps the text in its buffer, and what it sends is a reply. *)
LEMMA OnResultKeeps ==
  ASSUME TypeOK, TextInv, cur # 0,
         NEW id \in Ids, NEW size \in Sizes, OnResult(id, size)
  PROVE  /\ len' \in 0 .. MaxText /\ len' # 0
         /\ first' \in Ids /\ g_buffersize' \in Nat /\ g_result' = "set"
         /\ len' < g_buffersize'
         /\ down' \in Seq([of : 1 .. MaxTurns, id : Ids])
<1>1. len \in Nat /\ g_buffersize \in Nat /\ len < g_buffersize
  BY ConstantsAreNat DEF TypeOK, TextInv, TextFits, OnResult
<1>2. len' \in 0 .. MaxText /\ len' # 0 /\ g_buffersize' \in Nat /\ len' < g_buffersize'
  BY <1>1, ConstantsAreNat DEF OnResult
<1>3. first' \in Ids
  BY ConstantsAreNat DEF OnResult, TextInv
<1>4. cur \in 1 .. MaxTurns
  BY ConstantsAreNat DEF TypeOK
<1>5. down' \in Seq([of : 1 .. MaxTurns, id : Ids])
  BY <1>3, <1>4 DEF OnResult, TypeOK
<1> QED BY <1>2, <1>3, <1>5 DEF OnResult

(* What GetResult leaves, whichever way it goes. *)
LEMMA GetResultKeeps ==
  ASSUME TypeOK, TextInv, cur # 0, GetResult
  PROVE  /\ rec_stat' \in {"SUCCESS", "INCOMPLETE", "COMPLETE"}
         /\ len' \in 0 .. MaxText /\ first' \in Ids \cup {0}
         /\ g_buffersize' \in Nat /\ g_result' \in {"null", "set"}
         /\ TextInv'
         /\ down' \in Seq([of : 1 .. MaxTurns, id : Ids])
<1>1. CASE UNCHANGED <<resVars, down>>
  BY <1>1 DEF GetResult, TypeOK, TextInv, TextFits, resVars
<1>2. CASE \E id \in Ids, size \in Sizes : OnResult(id, size)
  BY <1>2, OnResultKeeps DEF GetResult, TextInv, TextFits
<1>3. CASE OnResultNoMemory
  BY <1>3 DEF OnResultNoMemory, GetResult, TypeOK, TextInv, TextFits
<1> QED BY <1>1, <1>2, <1>3 DEF GetResult

-----------------------------------------------------------------------------
(* Steps. *)

(* Each step keeps the invariant. *)
LEMMA ServerInvStep ==
  ASSUME ServerInv, Next \/ UNCHANGED vars
  PROVE  ServerInv'
<1> USE ConstantsAreNat DEF ServerInv, TypeOK, LineInv, SessionInv, TextInv, TextFits,
                            Working, Writing, Sessions, lineVars, srVars, engVars, resVars
<1>1. CASE ClientRecords
  <2>1. turns + 1 \in 1 .. MaxTurns /\ turns' = turns + 1
    BY <1>1 DEF ClientRecords
  <2>2. Append(up, turns + 1) \in Seq(1 .. MaxTurns)
    BY <2>1, AppendProperties
  <2>3. up' \in Seq(1 .. MaxTurns)
    BY <1>1, <2>2 DEF ClientRecords
  <2> QED BY <1>1, <2>1, <2>3 DEF ClientRecords
<1>2. CASE GetAudioFile
  BY <1>2 DEF GetAudioFile
<1>3. CASE OpensFile
  BY <1>3 DEF OpensFile
<1>4. CASE OpenFails
  BY <1>4 DEF OpenFails
<1>5. CASE SrInit
  <2>1. TypeOK'
    BY <1>5 DEF SrInit
  <2> QED BY <2>1, <1>5 DEF SrInit
<1>6. CASE StartFails
  BY <1>6 DEF StartFails
<1>7. CASE Writes
  BY <1>7 DEF Writes
<1>8. CASE WritesAll
  BY <1>8 DEF WritesAll
<1>9. CASE NothingToStop
  BY <1>9 DEF NothingToStop
<1>10. CASE StopWrites
  BY <1>10 DEF StopWrites, Stopping
<1>11. CASE Exits
  BY <1>11 DEF Exits
<1>12. CASE Dies
  BY <1>12 DEF Dies
<1>13. CASE StartListening
  <2>1. open' = {begun + 1} /\ begun + 1 \in Sessions
    <3>1. open = {}
      BY <1>13 DEF StartListening
    <3>2. begun + 1 \in Sessions
      BY <1>13 DEF StartListening
    <3>3. open' = open \cup {begun + 1}
      BY <1>13 DEF StartListening
    <3> QED BY <3>1, <3>2, <3>3
  <2>2. TypeOK'
    BY <2>1, <1>13 DEF StartListening
  <2> QED BY <2>1, <2>2, <1>13 DEF StartListening
<1>14. CASE ClientReads
  BY <1>14 DEF ClientReads
<1>15. CASE WriteFails
  <2>1. open' = {} /\ twice' = {} /\ begun' = begun
    BY <1>15 DEF WriteFails, EndOnError, EndsSession
  <2> QED BY <2>1, <1>15 DEF WriteFails, EndOnError
<1>16. CASE PartialFails
  BY <1>16 DEF PartialFails, EndOnError, EndsSession
<1>17. CASE ResultFails
  BY <1>17 DEF ResultFails, EndOnError, EndsSession
<1>18. CASE VadEnds
  BY <1>18 DEF VadEnds, EndsSession
<1>19. CASE StopWriteFails
  BY <1>19 DEF StopWriteFails, Stopping, EndsSession
<1>20. CASE ResultsEnd
  BY <1>20 DEF ResultsEnd, EndsSession
<1>21. CASE Partial
  BY <1>21, GetResultKeeps DEF Partial
<1>22. CASE VadPolls
  BY <1>22, GetResultKeeps DEF VadPolls
<1>23. CASE Results
  BY <1>23, GetResultKeeps DEF Results
<1>24. CASE UNCHANGED vars
  BY <1>24 DEF vars
<1> QED BY <1>1, <1>2, <1>3, <1>4, <1>5, <1>6, <1>7, <1>8, <1>9, <1>10, <1>11, <1>12, <1>13, <1>14, <1>15, <1>16, <1>17, <1>18, <1>19, <1>20, <1>21, <1>22, <1>23, <1>24 DEF Next, ServerNext

(* speech_recognizer.c and on_result: the inductive invariant holds of every run. *)
THEOREM ServerInvariant == Spec => []ServerInv
<1>1. Init => ServerInv
  <2> SUFFICES ASSUME Init PROVE ServerInv
    OBVIOUS
  <2>1. TypeOK
    BY ConstantsAreNat DEF Init, TypeOK, Sessions
  <2>2. LineInv /\ SessionInv /\ TextInv
    BY ConstantsAreNat DEF Init, LineInv, SessionInv, TextInv, TextFits, Working, Writing
  <2> QED BY <2>1, <2>2 DEF ServerInv
<1> QED BY <1>1, ServerInvStep, PTL DEF Spec

(* Type correctness of the server, for any number of recordings and sessions. *)
THEOREM ServerTypeCorrect == Spec => []TypeOK
<1>1. ServerInv => TypeOK
  BY DEF ServerInv
<1> QED BY <1>1, ServerInvariant, PTL

(* No session stays open or is ended twice, whichever call of the engine fails. *)
THEOREM SessionsSafe == Spec => []SessionsEnded
<1>1. ServerInv => SessionsEnded
  BY DEF ServerInv, SessionInv, SessionsEnded, Writing
<1> QED BY <1>1, ServerInvariant, PTL

(* on_result never writes past g_result, for every size of buffer and results no
   longer than it.                                                          *)
THEOREM TextSafe == Spec => []TextFits
<1>1. ServerInv => TextFits
  BY DEF ServerInv, TextInv
<1> QED BY <1>1, ServerInvariant, PTL

-----------------------------------------------------------------------------
(* Refinement. *)

(* Reading the first reply is Recognizer's Reads(1). *)
LEMMA OneReplyRead ==
  ASSUME NEW S, NEW s \in Seq(S), s # <<>>
  PROVE  1 \in 1 .. Len(s) /\ Tail(s) = SubSeq(s, 1 + 1, Len(s))
<1>1. Len(s) \in Nat /\ Len(s) > 0
  BY EmptySeq
<1>2. Tail(s) \in Seq(S) /\ SubSeq(s, 2, Len(s)) \in Seq(S)
  BY <1>1, HeadTailProperties, SubSeqProperties
<1> QED BY <1>1, HeadTailProperties, SubSeqProperties, SeqEqual

(* Every step of the server, of its engine or of the client is a step of Recognizer
   or leaves the line alone.                                                *)
LEMMA RecognizerStep ==
  ASSUME ServerInv, Next \/ UNCHANGED vars
  PROVE  (R!ServerNext \/ R!ClientNext) \/ UNCHANGED R!lineVars
<1> USE DEF lineVars, R!lineVars
<1>1. cur \in 0 .. MaxTurns /\ down \in Seq([of : 1 .. MaxTurns, id : Ids])
  BY DEF ServerInv, TypeOK
<1>2. CASE ClientRecords
  <2>1. \E isSent \in BOOLEAN : R!Recording(isSent)
    BY <1>2 DEF ClientRecords, R!Recording
  <2> QED BY <2>1 DEF R!ClientNext
<1>3. CASE ClientReads
  <2>1. R!Reads(1) /\ 1 \in 1 .. Len(down)
    BY <1>1, <1>3, OneReplyRead DEF ClientReads, R!Reads
  <2> QED BY <2>1 DEF R!ClientNext
<1>4. CASE GetAudioFile
  <2>1. R!Take
    BY <1>4 DEF GetAudioFile, R!Take, ServerInv, LineInv, Working
  <2> QED BY <2>1 DEF R!ServerNext
<1>5. CASE OpenFails \/ Exits
  <2>1. R!Done
    BY <1>5 DEF OpenFails, Exits, R!Done, ServerInv, LineInv, Working
  <2> QED BY <2>1 DEF R!ServerNext
<1>6. CASE Partial \/ VadPolls \/ Results
  <2>1. GetResult /\ UNCHANGED <<turns, up, cur, peer>> /\ peer = "up" /\ cur # 0
    BY <1>6 DEF Partial, VadPolls, Results, ServerInv, LineInv, Working
  <2>2. CASE \E id \in Ids, size \in Sizes : OnResult(id, size)
    <3>1. PICK id \in Ids, size \in Sizes : OnResult(id, size)
      BY <2>2
    <3>2. first' \in Ids /\ down' = Append(down, [of |-> cur, id |-> first'])
      BY <2>1, <3>1, OnResultKeeps DEF ServerInv, OnResult
    <3>3. R!Answer(first')
      BY <2>1, <3>2 DEF R!Answer
    <3> QED BY <3>2, <3>3 DEF R!ServerNext
  <2>3. CASE OnResultNoMemory \/ UNCHANGED <<resVars, down>>
    BY <2>1, <2>3 DEF OnResultNoMemory
  <2> QED BY <2>1, <2>2, <2>3 DEF GetResult
<1>7. CASE Dies
  <2>1. R!Gone
    BY <1>7 DEF Dies, R!Gone
  <2> QED BY <2>1 DEF R!ServerNext
<1>8. CASE \/ OpensFile \/ SrInit \/ StartListening \/ StartFails \/ Writes \/ VadEnds
           \/ WritesAll \/ NothingToStop \/ StopWrites \/ StopWriteFails \/ ResultsEnd
  BY <1>8 DEF OpensFile, SrInit, StartListening, StartFails, Writes, VadEnds, WritesAll,
              NothingToStop, StopWrites, StopWriteFails, ResultsEnd
<1>9. CASE WriteFails \/ PartialFails \/ ResultFails
  BY <1>9 DEF WriteFails, PartialFails, ResultFails, EndOnError
<1>10. CASE UNCHANGED vars
  BY <1>10 DEF vars
<1> QED BY <1>2, <1>3, <1>4, <1>5, <1>6, <1>7, <1>8, <1>9, <1>10 DEF Next, ServerNext

(* The server implements module Recognizer, on which the model of the client builds. *)
THEOREM ServerImplementsRecognizer == Spec => ImplementsRecognizer
<1>1. Init => R!LineInit
  BY DEF Init, R!LineInit
<1>2. ServerInv /\ [Next]_vars => [R!ServerNext \/ R!ClientNext]_(R!lineVars)
  BY RecognizerStep
<1> QED BY <1>1, <1>2, ServerInvariant, PTL DEF Spec, ImplementsRecognizer, R!RecognizerSpec
=============================================================================
