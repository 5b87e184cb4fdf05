--------------------------- MODULE VoiceClient_proofs ---------------------------
(* What holds of the voice client for every number of recordings, every set of ids
   and every size of the fifo.                                              *)
EXTENDS VoiceClient, SequenceTheorems, TLAPS

(* The constants' assumption, as the provers need it. *)
LEMMA ConstantsAreNat ==
    /\ MaxTurns \in Nat /\ FdLimit \in Nat /\ PipeMax \in Nat
    /\ FaultyTurns \in Nat /\ FaultyIds \subseteq Ids
    /\ \A id \in Ids : id \in Nat /\ id # 0
  BY VoiceClientAssumption DEF VoiceClientAssumption

-----------------------------------------------------------------------------
(* The inductive invariants. *)

(* A recording starts at most one player. *)
PlayersInv ==
    /\ players <= turns
    /\ pc \in {"recv", "operate", "videoStart"} => players < turns

(* Each flag that a wait of the main thread looks at was set by a touch since it was
   cleared for that wait, or for the recording before it.                   *)
TouchedInv ==
    /\ pc \in {"videoStart", "video"} /\ touch_flag = 1 => "quit" \in seen
    /\ pc \in {"start", "prompt", "clearTouch"} /\ touch_voiceflag = 1 => "record" \in seen

ClientInv == TypeOK /\ PlayersInv /\ TouchedInv

-----------------------------------------------------------------------------
(* Steps of the line. *)

(* Each step of the line keeps its types. *)
LEMMA LineTypeStep ==
  ASSUME LineTypeOK,
         \/ \E isSent \in BOOLEAN : Recording(isSent)
         \/ SendsToGone \/ Take \/ Done \/ Gone
         \/ \E id \in Ids : Answer(id) \/ AnswersOnce(id)
         \/ \E n \in 0 .. Len(down) : Reads(n)
         \/ UNCHANGED lineVars
  PROVE  LineTypeOK'
<1> USE ConstantsAreNat DEF LineTypeOK, Turns
<1>1. CASE \E isSent \in BOOLEAN : Recording(isSent)
  <2>1. turns + 1 \in 1 .. MaxTurns /\ turns' = turns + 1
    BY <1>1 DEF Recording
  <2>2. Append(up, turns + 1) \in Seq(1 .. MaxTurns)
    BY <2>1, AppendProperties
  <2>3. up' \in Seq(1 .. MaxTurns)
    BY <1>1, <2>2 DEF Recording
  <2> QED BY <1>1, <2>1, <2>3 DEF Recording
<1>2. CASE SendsToGone
  BY <1>2 DEF SendsToGone
<1>3. CASE Take
  BY <1>3 DEF Take
<1>4. CASE Done
  BY <1>4 DEF Done
<1>5. CASE Gone
  BY <1>5 DEF Gone
<1>6. CASE \E id \in Ids : Answer(id) \/ AnswersOnce(id)
  <2>1. PICK id \in Ids : Answer(id) \/ AnswersOnce(id)
    BY <1>6
  <2>2. cur \in 1 .. MaxTurns
    BY <2>1 DEF Answer, AnswersOnce
  <2>3. Append(down, [of |-> cur, id |-> id]) \in Seq([of : 1 .. MaxTurns, id : Ids])
    BY <2>2, AppendProperties
  <2>4. CASE Answer(id)
    BY <2>2, <2>3, <2>4 DEF Answer
  <2>5. CASE AnswersOnce(id)
    <3>1. down' = Append(down, [of |-> cur, id |-> id])
      BY <2>5 DEF AnswersOnce
    <3>2. cur' = 0 /\ UNCHANGED <<turns, up, peer>>
      BY <2>5 DEF AnswersOnce
    <3> QED BY <2>3, <3>1, <3>2
  <2> QED BY <2>1, <2>4, <2>5
<1>7. CASE \E n \in 0 .. Len(down) : Reads(n)
  <2>1. PICK n \in 0 .. Len(down) : Reads(n)
    BY <1>7
  <2>2. SubSeq(down, n + 1, Len(down)) \in Seq([of : 1 .. MaxTurns, id : Ids])
    <3> DEFINE R == [of : 1 .. MaxTurns, id : Ids]
    <3>0. down \in Seq(R) /\ n \in Nat
      BY <2>1
    <3> HIDE DEF R
    <3>1. \A i \in n + 1 .. Len(down) : down[i] \in R
      BY ONLY <3>0, ElementOfSeq
    <3>2. n + 1 \in Int /\ Len(down) \in Int
      BY ONLY <3>0
    <3>3. SubSeq(down, n + 1, Len(down)) \in Seq(R)
      BY ONLY <3>1, <3>2, SubSeqProperties
    <3> QED BY <3>3 DEF R
  <2> QED BY <2>1, <2>2 DEF Reads
<1>8. CASE UNCHANGED lineVars
  BY <1>8 DEF lineVars
<1> QED BY <1>1, <1>2, <1>3, <1>4, <1>5, <1>6, <1>7, <1>8

-----------------------------------------------------------------------------
(* Steps. *)

(* Each step keeps the invariant. *)
LEMMA ClientInvStep ==
  ASSUME ClientInv, Next \/ UNCHANGED vars
  PROVE  ClientInv'
<1>0. faultless' = faultless
  BY DEF Next, MainNext, TouchNext, PlayerNext, Serves, vars
<1> USE <1>0, ConstantsAreNat DEF ClientInv, TypeOK, LineTypeOK, PlayersInv, TouchedInv, lineVars, flags, playerVars,
                            KeepsLine, KeepsMain, KeepsClient, Operates
<1>1. CASE Connects
  BY <1>1 DEF Connects
<1>2. CASE Prompts
  BY <1>2 DEF Prompts
<1>3. CASE Records
  BY <1>3 DEF Records
<1>4. CASE OperatesPlain
  BY <1>4 DEF OperatesPlain
<1>5. CASE OperatesNextPic
  BY <1>5 DEF OperatesNextPic
<1>6. CASE OperatesLastPic
  BY <1>6 DEF OperatesLastPic
<1>7. CASE SongReturns
  BY <1>7 DEF SongReturns
<1>8. CASE OperatesVideo
  BY <1>8 DEF OperatesVideo
<1>9. CASE VideoReturns
  BY <1>9 DEF VideoReturns
<1>10. CASE OperatesExit
  BY <1>10 DEF OperatesExit
<1>11. CASE ClearsVoiceFlag
  BY <1>11 DEF ClearsVoiceFlag
<1>12. CASE ClearsTouchFlag
  BY <1>12 DEF ClearsTouchFlag
<1>13. CASE ReceivesEnd
  BY <1>13 DEF ReceivesEnd
<1>14. CASE ReceiveFails
  BY <1>14 DEF ReceiveFails
<1>15. CASE TouchesQuit
  BY <1>15 DEF TouchesQuit
<1>16. CASE TouchesRecord
  BY <1>16 DEF TouchesRecord
<1>17. CASE Sends
  <2>1. LineTypeOK'
    BY <1>17, LineTypeStep DEF Sends
  <2>2. turns' = turns + 1 /\ turns' \in 0 .. MaxTurns /\ fds' \in 0 .. FdLimit
    BY <1>17 DEF Sends, Recording, SendsToGone
  <2>3. pc' \in {"recv", "done"} /\ rec' = "none"
    BY <1>17 DEF Sends
  <2>4. UNCHANGED <<half, recvbuf, Piccount, touch_flag, touch_voiceflag, touch, fifo, players, seen>>
    BY <1>17 DEF Sends
  <2>5. TypeOK'
    BY <2>1, <2>2, <2>3, <2>4
  <2>6. PlayersInv'
    BY <2>2, <2>4
  <2>7. TouchedInv'
    BY <2>3
  <2> QED BY <2>5, <2>6, <2>7
<1>18. CASE SendFails
  <2>1. LineTypeOK'
    BY <1>18, LineTypeStep DEF SendFails
  <2>2. turns' = turns + 1
    BY <1>18 DEF SendFails, Recording
  <2>3. pc' = "recv" /\ rec' = "none"
    BY <1>18 DEF SendFails
  <2>4. UNCHANGED <<fds, half, recvbuf, Piccount, touch_flag, touch_voiceflag, touch, fifo, players, seen>>
    BY <1>18 DEF SendFails
  <2>5. TypeOK'
    BY <2>1, <2>3, <2>4
  <2>6. PlayersInv'
    BY <2>2, <2>4
  <2>7. TouchedInv'
    BY <2>3
  <2> QED BY <2>5, <2>6, <2>7
<1>19. CASE \E n \in 0 .. Len(down), more \in BOOLEAN : Receives(n, more)
  <2>1. PICK n \in 0 .. Len(down), more \in BOOLEAN : Receives(n, more)
    BY <1>19
  <2>2. LineTypeOK' /\ turns' = turns
    BY <2>1, LineTypeStep DEF Receives, Reads
  <2>3. recvbuf' \in Replies \cup {Unfilled}
    <3>1. CASE n > 0
      <4>1. Head(down) \in [of : Turns, id : Ids]
        <5>1. down \in Seq([of : Turns, id : Ids]) /\ down # <<>>
          BY <2>1, <3>1, EmptySeq DEF Receives, Reads
        <5> QED BY ONLY <5>1, HeadTailProperties
      <4> QED BY <2>1, <3>1, <4>1 DEF Receives, Replies
    <3>2. CASE ~(n > 0)
      BY <2>1, <3>2 DEF Receives
    <3> QED BY <3>1, <3>2
  <2>4. half' \in BOOLEAN
    BY <2>1 DEF Receives
  <2> QED BY <2>1, <2>2, <2>3, <2>4 DEF Receives
<1>20. CASE OperatesStopPlay
  BY <1>20 DEF OperatesStopPlay, send_cmd, Commands
<1>21. CASE OperatesSong
  BY <1>21 DEF OperatesSong, StartsPlayer
<1>22. CASE StartsVideo
  BY <1>22 DEF StartsVideo, StartsPlayer
<1>23. CASE TouchesOther
  <2>1. CASE Len(fifo) < PipeMax
    <3>1. fifo' = Append(fifo, "other") /\ UNCHANGED <<touch, players>>
      BY <1>23, <2>1 DEF TouchesOther, send_cmd
    <3>2. Append(fifo, "other") \in Seq(Commands) /\ Len(Append(fifo, "other")) = Len(fifo) + 1
      BY AppendProperties DEF Commands
    <3>3. fifo' \in Seq(Commands) /\ Len(fifo') <= PipeMax
      BY <2>1, <3>1, <3>2
    <3> QED BY <1>23, <3>1, <3>3 DEF TouchesOther
  <2>2. CASE ~(Len(fifo) < PipeMax)
    BY <1>23, <2>2 DEF TouchesOther
  <2> QED BY <2>1, <2>2
<1>24. CASE TouchUnblocks
  BY <1>24 DEF TouchUnblocks, send_cmd, Commands
<1>25. CASE PlayerReads
  BY <1>25 DEF PlayerReads
<1>26. CASE PlayerEnds
  BY <1>26 DEF PlayerEnds
<1>27. CASE Serves
  <2>1. LineTypeOK' /\ turns' = turns
    BY <1>27, LineTypeStep DEF Serves, Take, AnswersOnce, Answer, Done, Gone
  <2> QED BY <1>27, <2>1 DEF Serves
<1>28. CASE UNCHANGED vars
  BY <1>28 DEF vars
<1> QED BY <1>1, <1>2, <1>3, <1>4, <1>5, <1>6, <1>7, <1>8, <1>9, <1>10, <1>11, <1>12, <1>13, <1>14, <1>15, <1>16, <1>17, <1>18, <1>19, <1>20, <1>21, <1>22, <1>23, <1>24, <1>25, <1>26, <1>27, <1>28 DEF Next, MainNext, TouchNext, PlayerNext

(* The inductive invariant holds of every reachable state. *)
THEOREM ClientInvariant == Spec => []ClientInv
<1>1. Init => ClientInv
  <2> SUFFICES ASSUME Init PROVE ClientInv
    OBVIOUS
  <2>1. LineTypeOK
    BY ConstantsAreNat DEF Init, LineInit, LineTypeOK, Turns
  <2>2. half \in BOOLEAN
    BY DEF Init
  <2>3. fifo \in Seq(Commands) /\ Len(fifo) <= PipeMax
    BY ConstantsAreNat DEF Init
  <2>4. TypeOK
    BY ConstantsAreNat, <2>1, <2>2, <2>3 DEF Init, TypeOK
  <2> QED BY <2>4 DEF Init, LineInit, ClientInv, PlayersInv, TouchedInv
<1>2. ClientInv /\ [Next]_vars => ClientInv'
  BY ClientInvStep
<1> QED BY <1>1, <1>2, PTL DEF Spec

(* The client's variables keep their types: there is never a player more than there
   were recordings, and the picture shown stays in the album (main.c:286-355). *)
THEOREM ClientTypeCorrect == Spec => []TypeOK
<1>1. ClientInv => TypeOK
  BY DEF ClientInv
<1> QED BY <1>1, ClientInvariant, PTL

(* The main thread leaves a video only after a quit touch that came since touch_flag
   was cleared for it (main.c:369-373), whatever the touch thread does.     *)
THEOREM VideoSafe == Spec => VideoLeftByTouch
<1>1. ClientInv /\ [Next]_vars => [pc = "video" /\ pc' # "video" => "quit" \in seen]_vars
  BY DEF ClientInv, TypeOK, TouchedInv, Next, MainNext, TouchNext, PlayerNext, Serves, vars,
         Connects, Prompts, Records, Sends, SendFails, Receives, ReceivesEnd, ReceiveFails,
         OperatesPlain, OperatesNextPic, OperatesLastPic, OperatesStopPlay, OperatesSong,
         SongReturns, OperatesVideo, StartsVideo, VideoReturns, OperatesExit, ClearsVoiceFlag,
         ClearsTouchFlag, Operates, TouchesQuit, TouchesRecord, TouchesOther, TouchUnblocks,
         PlayerReads, PlayerEnds, KeepsMain, KeepsClient
<1> QED BY <1>1, ClientInvariant, PTL DEF Spec, VideoLeftByTouch

(* Each recording was asked for by a touch after the one before it began
   (main.c:75-97).                                                          *)
THEOREM RecordSafe == Spec => RecordedByTouch
<1>1. ClientInv /\ [Next]_vars => [pc = "prompt" /\ pc' = "record" => "record" \in seen]_vars
  BY DEF ClientInv, TypeOK, TouchedInv, Next, MainNext, TouchNext, PlayerNext, Serves, vars,
         Connects, Prompts, Records, Sends, SendFails, Receives, ReceivesEnd, ReceiveFails,
         OperatesPlain, OperatesNextPic, OperatesLastPic, OperatesStopPlay, OperatesSong,
         SongReturns, OperatesVideo, StartsVideo, VideoReturns, OperatesExit, ClearsVoiceFlag,
         ClearsTouchFlag, Operates, TouchesQuit, TouchesRecord, TouchesOther, TouchUnblocks,
         PlayerReads, PlayerEnds, KeepsMain, KeepsClient
<1> QED BY <1>1, ClientInvariant, PTL DEF Spec, RecordedByTouch

-----------------------------------------------------------------------------
(* With a server that answers each recording once. *)

(* Nothing is under way but between a recording and its reply, and then at most one
   thing: the recording, the work on it, or its reply.                      *)
Idle == up = <<>> /\ cur = 0 /\ down = <<>>
UnderWay ==
    \/ Idle
    \/ up = <<turns>> /\ cur = 0 /\ down = <<>>
    \/ up = <<>> /\ cur = turns /\ down = <<>>
    \/ up = <<>> /\ cur = 0 /\ \E id \in Ids : down = <<[of |-> turns, id |-> id]>>

OwnInv ==
    /\ peer = "up"
    /\ UnderWay
    /\ pc # "recv" => Idle
    /\ pc = "operate" => recvbuf.of = turns

(* Each step keeps that at most one thing is under way. *)
LEMMA OwnInvStep ==
  ASSUME faultless, ClientInv, OwnInv, Next \/ UNCHANGED vars
  PROVE  OwnInv'
<1> USE DEF OwnInv, UnderWay, Idle, lineVars
<1>1. CASE Sends
  <2>0. ~SendsToGone /\ Idle
    BY <1>1 DEF Sends, SendsToGone
  <2>1. Recording(TRUE) /\ pc' = "recv" /\ Idle
    BY <1>1, <2>0, Zenon DEF Sends
  <2>2. Append(<<>>, turns + 1) = <<turns + 1>>
    OBVIOUS
  <2>3. up' = <<turns'>> /\ cur' = 0 /\ down' = <<>> /\ peer' = "up"
    BY <2>1, <2>2 DEF Recording
  <2> QED BY <2>1, <2>3
<1>2. CASE SendFails
  BY <1>2 DEF SendFails, Recording
<1>3. CASE \E n \in 0 .. Len(down), more \in BOOLEAN : Receives(n, more)
  <2>1. PICK n \in 0 .. Len(down), more \in BOOLEAN : Receives(n, more)
    BY <1>3
  <2>2. n > 0 /\ recvbuf' = Head(down) /\ pc' = "operate" /\ Reads(n)
    BY <2>1 DEF Receives
  <2>3. PICK id \in Ids : down = <<[of |-> turns, id |-> id]>> /\ up = <<>> /\ cur = 0
    BY <2>1, <2>2
  <2>4. Len(down) = 1 /\ n = 1 /\ Head(down) = [of |-> turns, id |-> id]
    BY <2>1, <2>2, <2>3
  <2>5. SubSeq(down, 2, 1) = <<>>
    BY SubSeqEmpty
  <2>6. down' = <<>> /\ turns' = turns /\ up' = <<>> /\ cur' = 0 /\ peer' = "up"
    BY <2>2, <2>3, <2>4, <2>5 DEF Reads
  <2>7. recvbuf'.of = turns'
    BY <2>2, <2>4, <2>6
  <2> QED BY <2>2, <2>6, <2>7
<1>4. CASE Serves
  <2>1. UNCHANGED <<pc, recvbuf>>
    BY <1>4 DEF Serves
  <2>2. CASE Take
    <3>1. up = <<turns>> /\ cur = 0 /\ down = <<>>
      BY <2>2 DEF Take
    <3>2. Head(<<turns>>) = turns /\ Tail(<<turns>>) = <<>>
      OBVIOUS
    <3>3. up' = <<>> /\ cur' = turns /\ UNCHANGED <<turns, down, peer>>
      BY <2>2, <3>1, <3>2 DEF Take
    <3> QED BY <2>1, <3>1, <3>3
  <2>3. CASE \E id \in Ids : AnswersOnce(id)
    <3>1. PICK id \in Ids : AnswersOnce(id)
      BY <2>3
    <3>2. up = <<>> /\ cur = turns /\ down = <<>> /\ pc = "recv"
      BY <3>1 DEF AnswersOnce
    <3>3. down' = <<[of |-> turns, id |-> id]>> /\ cur' = 0 /\ UNCHANGED <<turns, up, peer>>
      BY <3>1, <3>2 DEF AnswersOnce
    <3>4. \E i \in Ids : down' = <<[of |-> turns', id |-> i]>>
      BY <3>3
    <3> QED BY <2>1, <3>2, <3>3, <3>4
  <2> QED BY <1>4, <2>2, <2>3 DEF Serves
<1>5. CASE TouchNext \/ PlayerNext
  BY <1>5 DEF TouchNext, PlayerNext, TouchesQuit, TouchesRecord, TouchesOther, TouchUnblocks, PlayerReads,
              PlayerEnds, KeepsMain, KeepsClient
<1>6. CASE \/ Connects \/ Prompts \/ Records \/ ReceivesEnd \/ ReceiveFails
           \/ OperatesPlain \/ OperatesNextPic \/ OperatesLastPic \/ OperatesStopPlay
           \/ OperatesSong \/ SongReturns \/ OperatesVideo \/ StartsVideo \/ VideoReturns
           \/ OperatesExit \/ ClearsVoiceFlag \/ ClearsTouchFlag
  <2>1. UNCHANGED <<turns, up, cur, down, peer, recvbuf>>
    BY <1>6 DEF Connects, Prompts, Records, ReceivesEnd, ReceiveFails, OperatesPlain, OperatesNextPic,
         OperatesLastPic, OperatesStopPlay, OperatesSong, SongReturns, OperatesVideo, StartsVideo,
         VideoReturns, OperatesExit, ClearsVoiceFlag, ClearsTouchFlag, KeepsLine
  <2>2. pc # "recv" /\ pc' \notin {"recv", "operate"}
    BY <1>6 DEF Connects, Prompts, Records, ReceivesEnd, ReceiveFails, OperatesPlain, OperatesNextPic,
         OperatesLastPic, OperatesStopPlay, OperatesSong, SongReturns, OperatesVideo, StartsVideo,
         VideoReturns, OperatesExit, ClearsVoiceFlag, ClearsTouchFlag, Operates
  <2> QED BY <2>1, <2>2
<1>7. CASE UNCHANGED vars
  BY <1>7 DEF vars
<1> QED BY <1>1, <1>2, <1>3, <1>4, <1>5, <1>6, <1>7 DEF Next, MainNext

(* main.c:87-88: with a server that answers each recording once and stays, what is
   operated is the id of the recording made last, for every number of recordings,
   those included whose file could not be opened for want of descriptors.   *)
THEOREM OwnSafe == Spec => []OperatesOwn
<1>1. Init => (faultless => OwnInv)
  BY DEF Init, LineInit, OwnInv, UnderWay, Idle
<1>2. ClientInv /\ (faultless => OwnInv) /\ [Next]_vars => (faultless => OwnInv)'
  <2> SUFFICES ASSUME ClientInv, faultless => OwnInv, [Next]_vars, faultless
               PROVE  OwnInv'
    BY DEF Next, MainNext, TouchNext, PlayerNext, Serves, vars
  <2> QED BY OwnInvStep
<1>3. (faultless => OwnInv) => OperatesOwn
  BY DEF OwnInv, OperatesOwn
<1> QED BY <1>1, <1>2, <1>3, ClientInvariant, PTL DEF Spec
================================================================================
