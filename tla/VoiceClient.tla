----------------------------- MODULE VoiceClient -----------------------------
(***************************************************************************)
(* The voice client (main.c): its main thread, which records, sends,       *)
(* receives an id and operates; its touch thread, as far as touches reach  *)
(* the two flags and the players (module TouchPanel has the touches        *)
(* themselves); the mplayer processes and the fifo they all read; and the  *)
(* recognition server as module Recognizer describes it.                   *)
(*                                                                         *)
(* The commands that only show a picture and play a sound for a fixed time *)
(* are one kind.  recv may return part of what was sent: the part of a     *)
(* reply before its id leaves the id of an earlier reply in recvbuf, which *)
(* is never cleared.                                                       *)
(***************************************************************************)
EXTENDS Recognizer

CONSTANTS FdLimit,      \* files the process may have open, beyond those it starts with
          PipeMax,      \* commands the fifo holds
          FaultyTurns,  \* of a behaviour with faults: its recordings,
          FaultyIds     \*   and the ids they are answered with

NextPic == 3  LastPic == 4  Playmusic_ctrl == 5  Video == 8  StopPlay == 12  Exit == 999

ASSUME VoiceClientAssumption ==
    /\ Ids \subseteq Nat \ {0}
    /\ MaxTurns \in Nat /\ FdLimit \in Nat /\ PipeMax \in Nat
    /\ FaultyTurns \in Nat /\ FaultyIds \subseteq Ids

VARIABLES pc,               \* where the main thread is
          rec,              \* the file arecord left, if any
          fds,              \* recordings opened and never closed
          half,             \* the first reply in down has been read up to its id
          recvbuf,          \* the reply recvbuf holds an id of, or Unfilled
          Piccount,
          touch_flag, touch_voiceflag,
          touch,            \* the touch thread: "reads", or "blocked" in write
          fifo,             \* the commands written to /tmp/fifo and not read
          players,          \* the number of slave players running
          faultless,        \* every recording is made, and answered exactly once and in one
                            \* piece by a server that stays: it never changes
          seen              \* "quit": a quit touch since touch_flag was cleared for a
                            \* video; "record": a record touch since a recording began

flags      == <<touch_flag, touch_voiceflag>>
playerVars == <<fifo, players>>
vars == <<lineVars, pc, rec, fds, half, recvbuf, Piccount, flags, touch, playerVars, seen,
          faultless>>

Unfilled == [of |-> 0, id |-> 0]
Replies  == [of : Turns, id : Ids]
Commands == {"quit", "other"}

(* The values of the line, of main.c's globals, of recvbuf, the fifo and the players. *)
TypeOK ==
    /\ LineTypeOK
    /\ pc \in {"start", "prompt", "record", "send", "recv", "operate", "song", "videoStart",
               "video", "clearVoice", "clearTouch", "done"}
    /\ rec \in {"none", "made"}
    /\ fds \in 0 .. FdLimit
    /\ half \in BOOLEAN
    /\ recvbuf \in Replies \cup {Unfilled}
    /\ Piccount \in 0 .. 6
    /\ touch_flag \in {0, 1} /\ touch_voiceflag \in {0, 1}
    /\ touch \in {"reads", "blocked"}
    /\ fifo \in Seq(Commands) /\ Len(fifo) <= PipeMax
    /\ players \in 0 .. MaxTurns
    /\ seen \in SUBSET {"quit", "record"} /\ faultless \in BOOLEAN

Init ==
    /\ LineInit
    /\ pc = "start" /\ rec = "none" /\ fds = 0 /\ half = FALSE
    /\ recvbuf = Unfilled /\ Piccount = 1
    /\ touch_flag = 0 /\ touch_voiceflag = 0 /\ touch = "reads"
    /\ fifo = <<>> /\ players = 0
    /\ seen = {} /\ faultless \in BOOLEAN

send_cmd(cmd) ==
    /\ Len(fifo) < PipeMax
    /\ fifo' = Append(fifo, cmd)
    /\ UNCHANGED players

-----------------------------------------------------------------------------
(* The main thread: recording, sending and receiving. *)

Connects ==
    /\ pc = "start" /\ pc' \in {"prompt", "done"}
    /\ UNCHANGED <<lineVars, rec, fds, half, recvbuf, Piccount, flags, touch, playerVars, seen>>

Prompts ==
    /\ pc = "prompt" /\ touch_voiceflag = 1 /\ turns < MaxTurns
    /\ faultless \/ turns < FaultyTurns
    /\ pc' = "record"
    /\ seen' = seen \ {"record"}
    /\ UNCHANGED <<lineVars, rec, fds, half, recvbuf, Piccount, flags, touch, playerVars>>

Records ==
    /\ pc = "record" /\ pc' = "send"
    /\ rec' = "made" \/ (~faultless /\ rec' = "none")
    /\ UNCHANGED <<lineVars, fds, half, recvbuf, Piccount, flags, touch, playerVars, seen>>

(* A slip for Sends: the file is opened, and its size is read as 0. *)
SendsNothing ==
    /\ pc = "send" /\ rec = "made" /\ fds < FdLimit
    /\ fds' = fds + 1 /\ rec' = "none"
    /\ Recording(FALSE) /\ pc' = "recv"
    /\ UNCHANGED <<half, recvbuf, Piccount, flags, touch, playerVars, seen>>

(* send_file: it opens the file and does not close it.  A connection that was reset
   fails the send, which goes unnoticed or kills the program with SIGPIPE.  *)
Sends ==
    /\ pc = "send" /\ rec = "made" /\ fds < FdLimit
    /\ fds' = fds + 1 /\ rec' = "none"
    /\ \/ peer = "up" /\ Recording(TRUE) /\ pc' = "recv"
       \/ SendsToGone /\ pc' \in (IF peer = "rst" THEN {"recv", "done"} ELSE {"recv"})
    /\ UNCHANGED <<half, recvbuf, Piccount, flags, touch, playerVars, seen>>

(* send_file cannot open the file, and its result is not looked at. *)
SendFails ==
    /\ pc = "send" /\ (rec = "none" \/ fds = FdLimit)
    /\ Recording(FALSE)
    /\ pc' = "recv" /\ rec' = "none"
    /\ UNCHANGED <<fds, half, recvbuf, Piccount, flags, touch, playerVars, seen>>

(* A slip for Receives: what was received stays in the socket. *)
ReceivesCopy(n, more) ==
    /\ pc = "recv"
    /\ n > 0 /\ n <= Len(down)
    /\ recvbuf' = Head(down)
    /\ pc' = "operate"
    /\ UNCHANGED <<lineVars, half, rec, fds, Piccount, flags, touch, playerVars, seen>>

(* recv and Extraction: n replies to their end and, if more, the next one up to its
   id; the first id in recvbuf counts.                                      *)
Receives(n, more) ==
    /\ pc = "recv"
    /\ n > 0 \/ (more /\ ~half)
    /\ more => n < Len(down) /\ ~faultless
    /\ recvbuf' = IF n > 0 THEN Head(down) ELSE recvbuf
    /\ Reads(n)
    /\ half' = more
    /\ pc' = "operate"
    /\ UNCHANGED <<rec, fds, Piccount, flags, touch, playerVars, seen>>

(* recv returns 0: recvbuf is as it was. *)
ReceivesEnd ==
    /\ pc = "recv" /\ down = <<>> /\ peer # "up"
    /\ pc' = "operate"
    /\ UNCHANGED <<lineVars, rec, fds, half, recvbuf, Piccount, flags, touch, playerVars, seen>>

ReceiveFails ==
    /\ pc = "recv" /\ down = <<>> /\ peer = "rst"
    /\ pc' = "done"
    /\ UNCHANGED <<lineVars, rec, fds, half, recvbuf, Piccount, flags, touch, playerVars, seen>>

-----------------------------------------------------------------------------
(* The main thread: Operate. *)

Voice == recvbuf.id
Operates(ids) == pc = "operate" /\ Voice \in ids
KeepsLine == UNCHANGED <<lineVars, rec, fds, half, recvbuf>>

(* A picture and a sound, or an id that Operate does not know, none included. *)
OperatesPlain ==
    /\ pc = "operate"
    /\ Voice \notin {NextPic, LastPic, Playmusic_ctrl, Video, StopPlay, Exit}
    /\ pc' = "clearVoice"
    /\ KeepsLine /\ UNCHANGED <<Piccount, flags, touch, playerVars, seen>>

OperatesNextPic ==
    /\ Operates({NextPic})
    /\ Piccount' = IF Piccount + 1 = 7 THEN 6 ELSE Piccount + 1
    /\ pc' = "clearVoice"
    /\ KeepsLine /\ UNCHANGED <<flags, touch, playerVars, seen>>

OperatesLastPic ==
    /\ Operates({LastPic})
    /\ Piccount' = IF Piccount = 0 THEN 0 ELSE Piccount - 1
    /\ pc' = "clearVoice"
    /\ KeepsLine /\ UNCHANGED <<flags, touch, playerVars, seen>>

(* The quit command goes into the fifo; the main thread waits while it is full. *)
OperatesStopPlay ==
    /\ Operates({StopPlay})
    /\ send_cmd("quit")
    /\ pc' = "clearVoice"
    /\ KeepsLine /\ UNCHANGED <<Piccount, flags, touch, seen>>

StartsPlayer ==
    /\ players' = players + 1 /\ UNCHANGED fifo

OperatesSong ==
    /\ Operates({Playmusic_ctrl})
    /\ StartsPlayer
    /\ pc' = "song"
    /\ KeepsLine /\ UNCHANGED <<Piccount, flags, touch, seen>>

(* while(touch_flag); *)
SongReturns ==
    /\ pc = "song" /\ touch_flag = 0
    /\ pc' = "clearVoice"
    /\ KeepsLine /\ UNCHANGED <<Piccount, flags, touch, playerVars, seen>>

(* A slip for OperatesVideo: the flag is not cleared. *)
OperatesVideoUncleared ==
    /\ Operates({Video})
    /\ seen' = seen \ {"quit"}
    /\ pc' = "videoStart"
    /\ KeepsLine /\ UNCHANGED <<flags, Piccount, touch, playerVars>>

OperatesVideo ==
    /\ Operates({Video})
    /\ touch_flag' = 0 /\ seen' = seen \ {"quit"}
    /\ pc' = "videoStart"
    /\ KeepsLine /\ UNCHANGED <<touch_voiceflag, Piccount, touch, playerVars>>

StartsVideo ==
    /\ pc = "videoStart"
    /\ StartsPlayer
    /\ pc' = "video"
    /\ KeepsLine /\ UNCHANGED <<Piccount, flags, touch, seen>>

(* while(!touch_flag); *)
VideoReturns ==
    /\ pc = "video" /\ touch_flag = 1
    /\ pc' = "clearVoice"
    /\ KeepsLine /\ UNCHANGED <<Piccount, flags, touch, playerVars, seen>>

(* The process ends, the touch thread with it; the players play on. *)
OperatesExit ==
    /\ Operates({Exit})
    /\ pc' = "done"
    /\ KeepsLine /\ UNCHANGED <<Piccount, flags, touch, playerVars, seen>>

(* The end of the loop's body: one flag, then the other. *)
ClearsNothing ==
    /\ pc = "clearVoice" /\ pc' = "clearTouch"
    /\ KeepsLine /\ UNCHANGED <<flags, Piccount, touch, playerVars, seen>>

ClearsVoiceFlag ==
    /\ pc = "clearVoice" /\ pc' = "clearTouch"
    /\ touch_voiceflag' = 0
    /\ KeepsLine /\ UNCHANGED <<touch_flag, Piccount, touch, playerVars, seen>>

ClearsTouchFlag ==
    /\ pc = "clearTouch" /\ pc' = "prompt"
    /\ touch_flag' = 0
    /\ KeepsLine /\ UNCHANGED <<touch_voiceflag, Piccount, touch, playerVars, seen>>

MainNext ==
    /\ UNCHANGED faultless
    /\ \/ Connects \/ Prompts \/ Records \/ Sends \/ SendFails
       \/ \E n \in 0 .. Len(down), more \in BOOLEAN : Receives(n, more)
       \/ ReceivesEnd \/ ReceiveFails
       \/ OperatesPlain \/ OperatesNextPic \/ OperatesLastPic \/ OperatesStopPlay
       \/ OperatesSong \/ SongReturns \/ OperatesVideo \/ StartsVideo \/ VideoReturns
       \/ OperatesExit \/ ClearsVoiceFlag \/ ClearsTouchFlag

-----------------------------------------------------------------------------
(* The touch thread, once it has been created, and while the process lives. *)

Touching == pc \notin {"start", "done"} /\ touch = "reads"
KeepsMain == UNCHANGED <<lineVars, pc, rec, fds, half, recvbuf, Piccount>>

TouchesQuit ==
    /\ Touching
    /\ touch_flag' = 1 /\ seen' = seen \cup {"quit"}
    /\ KeepsMain /\ UNCHANGED <<touch_voiceflag, touch, playerVars>>

TouchesRecord ==
    /\ Touching
    /\ touch_voiceflag' = 1 /\ seen' = seen \cup {"record"}
    /\ KeepsMain /\ UNCHANGED <<touch_flag, touch, playerVars>>

(* Pause, volume, mute and seek. *)
TouchesOther ==
    /\ Touching
    /\ IF Len(fifo) < PipeMax THEN send_cmd("other") /\ UNCHANGED touch
       ELSE touch' = "blocked" /\ UNCHANGED playerVars
    /\ KeepsMain /\ UNCHANGED <<flags, seen>>

TouchUnblocks ==
    /\ pc # "done" /\ touch = "blocked"
    /\ send_cmd("other") /\ touch' = "reads"
    /\ KeepsMain /\ UNCHANGED <<flags, seen>>

TouchNext ==
    UNCHANGED faultless /\ (TouchesQuit \/ TouchesRecord \/ TouchesOther \/ TouchUnblocks)

-----------------------------------------------------------------------------
(* The players: each reads the fifo, and what one reads the others do not. *)

KeepsClient == UNCHANGED <<lineVars, pc, rec, fds, half, recvbuf, Piccount, flags, touch, seen>>

PlayerReads ==
    /\ players > 0 /\ fifo # <<>>
    /\ fifo' = Tail(fifo)
    /\ players' = IF Head(fifo) = "quit" THEN players - 1 ELSE players
    /\ KeepsClient

PlayerEnds ==
    /\ players > 0 /\ players' = players - 1
    /\ KeepsClient /\ UNCHANGED fifo

PlayerNext == UNCHANGED faultless /\ (PlayerReads \/ PlayerEnds)

-----------------------------------------------------------------------------
(* The server, and the whole system. *)

AnswersOnce(id) ==
    /\ peer = "up" /\ cur # 0
    /\ down' = Append(down, [of |-> cur, id |-> id])
    /\ cur' = 0
    /\ UNCHANGED <<turns, up, peer>>

Serves ==
    /\ \/ Take
       \/ faultless /\ \E id \in Ids : AnswersOnce(id)
       \/ ~faultless /\ Len(down) < FaultyTurns /\ \E id \in FaultyIds : Answer(id)
       \/ ~faultless /\ (Done \/ Gone)
    /\ UNCHANGED <<pc, rec, fds, half, recvbuf, Piccount, flags, touch, playerVars, seen,
                   faultless>>

Next == MainNext \/ TouchNext \/ PlayerNext \/ Serves

Spec == Init /\ [][Next]_vars

(* The threads are scheduled, and the server works. *)
FairSpec == Spec /\ WF_vars(MainNext) /\ WF_vars(Serves)

-----------------------------------------------------------------------------
(* main.c:369-373: the main thread leaves a video only after a quit touch that came
   since touch_flag was cleared for it, whatever was touched before.        *)
VideoLeftByTouch == [][pc = "video" /\ pc' # "video" => "quit" \in seen]_vars

(* main.c:75-97: each recording was asked for by a touch after the one before it
   began, however long it took to be operated.                              *)
RecordedByTouch == [][pc = "prompt" /\ pc' = "record" => "record" \in seen]_vars

(* main.c:87-88: when every recording is answered once and in one piece, what is
   operated is the id of the recording made last.                           *)
OperatesOwn == faultless /\ pc = "operate" => recvbuf.of = turns

(* Where the main thread waits for what nobody else will do: for the fifo, when no player
   reads it; in while(touch_flag) after a quit touch, for only this thread clears the flag;
   for the answer to a recording that could not be opened for want of a descriptor.  *)
Stuck ==
    \/ Len(fifo) = PipeMax
    \/ pc = "song" /\ touch_flag = 1
    \/ pc = "recv" /\ fds = FdLimit /\ up = <<>> /\ cur = 0 /\ down = <<>>

(* main.c:75-98: with such a server a recording that has begun is operated, and the
   main thread is back at its prompt, waits for a touch that ends a video, or has ended;
   it stops nowhere but in the three places above.                          *)
RecordingOperated ==
    faultless /\ pc = "record" ~> (pc \in {"prompt", "video", "done"} \/ Stuck)

=============================================================================
