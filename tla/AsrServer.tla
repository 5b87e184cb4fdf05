------------------------------ MODULE AsrServer ------------------------------
(***************************************************************************)
(* The speech recognition server: asr_record_demo.c (get_audio_file,       *)
(* demo_file, on_result) with the sr_ functions of speech_recognizer.c it  *)
(* calls.  The recognition engine behind the QISR functions is external:   *)
(* it may fail, detect the end of speech early, and give any number of     *)
(* results.                                                                *)
(*                                                                         *)
(* A recording is its number and a reply the id of the first result in the *)
(* text sent, which is all the client looks for; of the texts themselves   *)
(* the model keeps the length.                                             *)
(***************************************************************************)
EXTENDS Naturals, Sequences, FiniteSets

CONSTANTS Ids, MaxTurns,  \* as in Recognizer
          Chunks,         \* sr_write_audio_data calls of one recording (15)
          BUFFER_SIZE,    \* 4096
          Sizes,          \* lengths of one result
          MaxText,        \* the length after which the engine has no more results
          MaxSessions     \* sessions the engine is asked for

ASSUME AsrServerAssumption ==
    /\ MaxTurns \in Nat /\ Chunks \in Nat /\ MaxText \in Nat /\ MaxSessions \in Nat
    /\ Ids \subseteq Nat \ {0}
    /\ BUFFER_SIZE \in Nat /\ BUFFER_SIZE > 1
    /\ Sizes \subseteq 1 .. BUFFER_SIZE

VARIABLES turns, up, cur, down, peer,  \* as in Recognizer
          pc,           \* where the server is
          left,         \* the chunks of the recording still to write
          state,        \* iat.state: "unset" before sr_init, "INIT" or "STARTED"
          session_id,   \* iat.session_id, 0 for NULL
          ep_stat,      \* iat.ep_stat: "LOOKING" for speech, or "AFTER" it
          rec_stat,     \* iat.rec_stat: "SUCCESS", "INCOMPLETE" or "COMPLETE"
          open,         \* the engine's sessions that were begun and not ended
          begun,        \* the number of sessions begun
          twice,        \* the sessions ended while they were not open
          first,        \* the first id in g_result
          len,          \* strlen(g_result)
          g_buffersize,
          g_result      \* "null" or "set"

srVars  == <<state, session_id, ep_stat, rec_stat>>
lineVars == <<turns, up, cur, down, peer>>
engVars == <<open, begun, twice>>
resVars == <<first, len, g_buffersize, g_result>>
vars == <<lineVars, pc, left, srVars, engVars, resVars>>

Sessions == 1 .. MaxSessions

(* The values of the line, of struct speech_rec, the engine's sessions and g_result. *)
TypeOK ==
    /\ turns \in 0 .. MaxTurns /\ up \in Seq(1 .. MaxTurns) /\ cur \in 0 .. MaxTurns
    /\ down \in Seq([of : 1 .. MaxTurns, id : Ids])
    /\ peer \in {"up", "fin", "rst"}
    /\ pc \in {"recv", "open", "init", "start", "write", "partial", "vad",
               "stop", "result", "exit", "dead"}
    /\ left \in 0 .. Chunks
    /\ state \in {"unset", "INIT", "STARTED"}
    /\ session_id \in 0 .. MaxSessions
    /\ ep_stat \in {"LOOKING", "AFTER"} /\ rec_stat \in {"SUCCESS", "INCOMPLETE", "COMPLETE"}
    /\ open \in SUBSET Sessions /\ begun \in 0 .. MaxSessions
    /\ twice \in SUBSET (0 .. MaxSessions)
    /\ first \in Ids \cup {0} /\ len \in 0 .. MaxText
    /\ g_buffersize \in Nat /\ g_result \in {"null", "set"}

Init ==
    /\ turns = 0 /\ up = <<>> /\ cur = 0 /\ down = <<>> /\ peer = "up"
    /\ pc = "recv" /\ left = 0
    /\ state = "unset" /\ session_id = 0 /\ ep_stat = "LOOKING" /\ rec_stat = "SUCCESS"
    /\ open = {} /\ begun = 0 /\ twice = {}
    /\ first = 0 /\ len = 0 /\ g_buffersize = BUFFER_SIZE /\ g_result = "null"

-----------------------------------------------------------------------------
(* The client: it makes recordings, and reads replies, when it likes. *)

ClientRecords ==
    /\ peer = "up" /\ turns < MaxTurns
    /\ turns' = turns + 1
    /\ up' \in {up, Append(up, turns + 1)}
    /\ UNCHANGED <<cur, down, peer, pc, left, srVars, engVars, resVars>>

ClientReads ==
    /\ down # <<>> /\ down' = Tail(down)
    /\ UNCHANGED <<turns, up, cur, peer, pc, left, srVars, engVars, resVars>>

-----------------------------------------------------------------------------
(* The engine. *)

EndsSession(s) ==
    /\ open' = open \ {s}
    /\ twice' = IF s \in open THEN twice ELSE twice \cup {s}
    /\ UNCHANGED begun

(* end_sr_on_error, from which demo_file goes to iat_exit. *)
EndOnError ==
    /\ IF session_id # 0 THEN EndsSession(session_id) ELSE UNCHANGED engVars
    /\ session_id' = 0 /\ state' = "INIT" /\ pc' = "exit"
    /\ UNCHANGED <<ep_stat, rec_stat, left, resVars, lineVars>>

(* Slips for OnResult: a length of which the terminator is forgotten; a result that
   is sent under the number of the next recording.                          *)
OnResultTight(id, size) ==
    /\ g_result = "set" /\ len + size <= MaxText
    /\ g_buffersize' = IF g_buffersize - len < size
                       THEN g_buffersize + BUFFER_SIZE ELSE g_buffersize
    /\ len' = len + size /\ first' = IF len = 0 THEN id ELSE first
    /\ down' = Append(down, [of |-> cur, id |-> first'])
    /\ UNCHANGED g_result
OnResultLate(id, size) ==
    /\ g_result = "set" /\ len + size <= MaxText
    /\ len' = len + size /\ first' = IF len = 0 THEN id ELSE first
    /\ down' = Append(down, [of |-> turns, id |-> first'])
    /\ UNCHANGED <<g_buffersize, g_result>>

(* on_result: the result is appended to g_result, all of which is sent. *)
OnResult(id, size) ==
    /\ g_result = "set" /\ len + size <= MaxText
    /\ g_buffersize' = IF g_buffersize - 1 - len < size
                       THEN g_buffersize + BUFFER_SIZE ELSE g_buffersize
    /\ len' = len + size /\ first' = IF len = 0 THEN id ELSE first
    /\ down' = Append(down, [of |-> cur, id |-> first'])
    /\ UNCHANGED g_result

(* realloc fails: the text is lost, and nothing is sent. *)
OnResultNoMemory ==
    /\ g_result = "set" /\ g_result' = "null"
    /\ \E size \in Sizes : g_buffersize - 1 - len < size
    /\ UNCHANGED <<first, len, g_buffersize, down>>

(* One successful call of QISRGetResult, with or without a result. *)
GetResult ==
    /\ rec_stat' \in {"SUCCESS", "INCOMPLETE", "COMPLETE"}
    /\ \/ UNCHANGED <<resVars, down>>
       \/ \E id \in Ids, size \in Sizes : OnResult(id, size)
       \/ OnResultNoMemory

-----------------------------------------------------------------------------
(* get_audio_file, and demo_file up to sr_start_listening. *)

GetAudioFile ==
    /\ pc = "recv" /\ up # <<>>
    /\ cur' = Head(up) /\ up' = Tail(up)
    /\ pc' = "open" /\ left' = Chunks
    /\ state' = "unset"
    /\ UNCHANGED <<turns, down, peer, session_id, ep_stat, rec_stat, engVars, resVars>>

(* fopen, malloc and fread; when one fails iat_exit works on an iat that was never
   initialised, which it survives or not.                                   *)
OpensFile ==
    /\ pc = "open" /\ pc' = "init"
    /\ UNCHANGED <<lineVars, left, srVars, engVars, resVars>>

OpenFails ==
    /\ pc = "open"
    /\ pc' = "recv" /\ cur' = 0
    /\ UNCHANGED <<turns, up, down, peer, left, srVars, engVars, resVars>>

(* sr_init, which fails when there is no memory for a copy of the parameters. *)
SrInit ==
    /\ pc = "init" /\ pc' \in {"start", "exit"}
    /\ state' = "INIT" /\ session_id' = 0 /\ ep_stat' = "LOOKING" /\ rec_stat' = "SUCCESS"
    /\ UNCHANGED <<lineVars, left, engVars, resVars>>

(* sr_start_listening and on_speech_begin. *)
StartListening ==
    /\ pc = "start" /\ begun < MaxSessions
    /\ begun' = begun + 1 /\ open' = open \cup {begun + 1} /\ session_id' = begun + 1
    /\ ep_stat' = "LOOKING" /\ rec_stat' = "SUCCESS" /\ state' = "STARTED"
    /\ g_result' = "set" /\ g_buffersize' = BUFFER_SIZE /\ first' = 0 /\ len' = 0
    /\ pc' = "write"
    /\ UNCHANGED <<lineVars, left, twice>>

StartFails ==
    /\ pc = "start" /\ pc' = "exit"
    /\ UNCHANGED <<lineVars, left, srVars, engVars, resVars>>

-----------------------------------------------------------------------------
(* sr_write_audio_data for each chunk. *)

WriteFails == pc = "write" /\ left > 0 /\ EndOnError

Writes ==
    /\ pc = "write" /\ left > 0 /\ session_id \in open
    /\ ep_stat' \in {"LOOKING", "AFTER"} /\ rec_stat' \in {"SUCCESS", "INCOMPLETE", "COMPLETE"}
    /\ pc' = IF rec_stat' = "SUCCESS" THEN "partial" ELSE IF ep_stat' = "AFTER" THEN "vad" ELSE "write"
    /\ left' = IF pc' = "write" THEN left - 1 ELSE left
    /\ UNCHANGED <<lineVars, state, session_id, engVars, resVars>>

(* A partial result. *)
PartialFails == pc = "partial" /\ EndOnError

(* A slip for Partial: the chunk is written again. *)
PartialAgain ==
    /\ pc = "partial"
    /\ GetResult
    /\ pc' = IF ep_stat = "AFTER" THEN "vad" ELSE "write"
    /\ UNCHANGED <<turns, up, cur, peer, left, state, session_id, ep_stat, engVars>>

Partial ==
    /\ pc = "partial"
    /\ GetResult
    /\ pc' = IF ep_stat = "AFTER" THEN "vad" ELSE "write"
    /\ left' = IF ep_stat = "AFTER" THEN left ELSE left - 1
    /\ UNCHANGED <<turns, up, cur, peer, state, session_id, ep_stat, engVars>>

(* end_sr_on_vad, which does not look at the error of QISRGetResult. *)
VadPolls ==
    /\ pc = "vad" /\ rec_stat # "COMPLETE"
    /\ GetResult
    /\ UNCHANGED <<turns, up, cur, peer, pc, left, state, session_id, ep_stat, engVars>>

VadEnds ==
    /\ pc = "vad" /\ rec_stat = "COMPLETE"
    /\ IF session_id # 0 THEN EndsSession(session_id) ELSE UNCHANGED engVars
    /\ session_id' = 0 /\ state' = "INIT"
    /\ pc' = "write" /\ left' = left - 1
    /\ UNCHANGED <<lineVars, ep_stat, rec_stat, resVars>>

WritesAll ==
    /\ pc = "write" /\ left = 0 /\ pc' = "stop"
    /\ UNCHANGED <<lineVars, left, srVars, engVars, resVars>>

-----------------------------------------------------------------------------
(* sr_stop_listening, which demo_file calls at the end and again at iat_exit. *)

Stopping == pc \in {"stop", "exit"} /\ state = "STARTED"

NothingToStop ==
    /\ pc = "stop" /\ state # "STARTED" /\ pc' = "exit"
    /\ UNCHANGED <<lineVars, left, srVars, engVars, resVars>>

StopWrites ==
    /\ Stopping
    /\ session_id \in open
    /\ state' = "INIT" /\ rec_stat' = "INCOMPLETE" /\ ep_stat' \in {"LOOKING", "AFTER"}
    /\ pc' = "result"
    /\ UNCHANGED <<lineVars, left, session_id, engVars, resVars>>

(* A slip for StopWriteFails: the state is not set before the write. *)
StopWriteFailsStarted ==
    /\ Stopping
    /\ EndsSession(session_id)
    /\ pc' = "exit"
    /\ UNCHANGED <<lineVars, left, srVars, resVars>>

(* The last write fails: the session is ended, its id is kept. *)
StopWriteFails ==
    /\ Stopping
    /\ EndsSession(session_id)
    /\ state' = "INIT" /\ pc' = "exit"
    /\ UNCHANGED <<lineVars, left, session_id, ep_stat, rec_stat, resVars>>

ResultFails == pc = "result" /\ rec_stat # "COMPLETE" /\ EndOnError

Results ==
    /\ pc = "result" /\ rec_stat # "COMPLETE"
    /\ GetResult
    /\ UNCHANGED <<turns, up, cur, peer, pc, left, state, session_id, ep_stat, engVars>>

ResultsEnd ==
    /\ pc = "result" /\ rec_stat = "COMPLETE"
    /\ EndsSession(session_id)
    /\ session_id' = 0 /\ pc' = "exit"
    /\ UNCHANGED <<lineVars, left, state, ep_stat, rec_stat, resVars>>

(* iat_exit when there is nothing left to stop, and back to get_audio_file. *)
Exits ==
    /\ pc = "exit" /\ state # "STARTED"
    /\ pc' = "recv" /\ cur' = 0
    /\ UNCHANGED <<turns, up, down, peer, left, srVars, engVars, resVars>>

(* The program ends: a read or a write on the connection fails, strlen(NULL), an
   iat that was never initialised, or a user.                               *)
Dies ==
    /\ peer = "up"
    /\ pc' = "dead" /\ peer' \in {"fin", "rst"}
    /\ cur' = 0 /\ up' = <<>> /\ open' = {}
    /\ UNCHANGED <<turns, down, left, srVars, begun, twice, resVars>>

-----------------------------------------------------------------------------
ServerNext ==
    \/ GetAudioFile \/ OpensFile \/ OpenFails \/ SrInit \/ StartListening \/ StartFails
    \/ WriteFails \/ Writes \/ PartialFails \/ Partial \/ VadPolls \/ VadEnds \/ WritesAll
    \/ NothingToStop \/ StopWrites \/ StopWriteFails \/ ResultFails \/ Results \/ ResultsEnd
    \/ Exits

Next == ClientRecords \/ ClientReads \/ ServerNext \/ Dies

Spec == Init /\ [][Next]_vars

(* The server is scheduled; of the engine nothing is assumed. *)
FairSpec == Spec /\ WF_vars(ServerNext)

-----------------------------------------------------------------------------
(* speech_recognizer.c: whichever call fails, and wherever the end of the speech is
   found, the server waits for the next recording with no session open and has
   ended each session once.                                                 *)
SessionsEnded == (pc = "recv" => open = {}) /\ open \subseteq {session_id} /\ twice = {}

(* on_result: one enlargement makes room for any result of at most BUFFER_SIZE bytes
   and the terminator, after any number of results.                         *)
TextFits == g_result = "set" => len < g_buffersize

R == INSTANCE Recognizer

(* asr_record_demo.c, what the client relies on: replies belong to the recording being
   worked on, and recordings are worked on one at a time in their order.    *)
ImplementsRecognizer == R!RecognizerSpec

(* In one of the two loops that poll the engine for its results, which says each time that
   there is more, or, in end_sr_on_vad, fails. *)
Polling(loop) == pc = loop /\ rec_stat # "COMPLETE"

(* demo_file: whichever calls fail, wherever the speech ends and however the results come,
   the server comes back for the next recording, or dies, or stays for ever in one of its
   two polling loops.  Nowhere else, and not by going from one loop to the other, can a
   recording keep it. *)
RecordingFinished ==
    \/ []<>(pc \in {"recv", "dead"})
    \/ <>[]Polling("vad") \/ <>[]Polling("result")

=============================================================================
