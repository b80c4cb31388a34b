----------------------------- MODULE LogBuffer -----------------------------
(***************************************************************************)
(* LoggingPrinter: the buffer of logged characters that is posted to a URL *)
(* and sent over the web socket when it is nearly full or a command ends.  *)
(* A flush waits for the network, and the waiting itself logs, runs        *)
(* commands and flushes again, so flushes nest.  A character is its number *)
(* in the order of writing.                                                *)
(***************************************************************************)
EXTENDS Naturals, Sequences, SequencesExt

CONSTANTS
  MaxSize,   (* MAXSIZE, 1000                                              *)
  Margin,    (* 50: how much earlier than MAXSIZE the buffer is flushed    *)
  MaxBytes,  (* bound: characters written in one behaviour                 *)
  MaxFlushes (* bound: flushes in progress                                 *)

ASSUME LogSizesOK ==
  /\ MaxSize \in Nat /\ Margin \in Nat /\ MaxBytes \in Nat /\ MaxFlushes \in Nat
  /\ 1 < Margin /\ Margin < MaxSize

VARIABLES
  data,      (* data[0 .. length - 1]                                      *)
  written,   (* characters offered so far                                  *)
  flushes,   (* where each flush in progress waits, the innermost last     *)
  hasUrl,    (* whether log.dest.url is set                                *)
  logToWss,  (* whether a web-socket client has connected                  *)
  posted     (* history: the last character each destination was sent      *)

logVars == <<data, written, flushes, hasUrl, logToWss, posted>>

FlushAt == MaxSize - Margin
Active == hasUrl \/ logToWss

RoomUnchecked == TRUE  \* mutant

Room == Len(data) < MaxSize - 1

\* The destination a flush waits for first.
StartFlush ==
  /\ Len(flushes) < MaxFlushes
  /\ flushes' = Append(flushes, IF hasUrl THEN "url" ELSE "wss")

WritesPrevious ==  \* mutant
  /\ Active
  /\ written < MaxBytes
  /\ written' = written + 1
  /\ data' = IF Room THEN Append(data, written) ELSE data
  /\ IF Room /\ Len(data) + 1 = FlushAt THEN StartFlush ELSE UNCHANGED flushes
  /\ UNCHANGED <<hasUrl, logToWss, posted>>

\* myWrite.
Write ==
  /\ Active
  /\ written < MaxBytes
  /\ written' = written + 1
  /\ data' = IF Room THEN Append(data, written + 1) ELSE data
  /\ IF Room /\ Len(data) + 1 = FlushAt THEN StartFlush ELSE UNCHANGED flushes
  /\ UNCHANGED <<hasUrl, logToWss, posted>>

\* flushLog, called when commands have run, after a send and before deep sleep.
FlushLog ==
  /\ data # <<>>
  /\ StartFlush
  /\ UNCHANGED <<data, written, hasUrl, logToWss, posted>>

Waiting(dest) == flushes # <<>> /\ Last(flushes) = dest

\* sendData hands over what the buffer holds when the wait is over, or nothing
\* when there is no network.
Deliver(dest) ==
  posted' \in {posted, [posted EXCEPT ![dest] = IF data = <<>> THEN @ ELSE Last(data)]}

NeverCleared == flushes' = Front(flushes) /\ UNCHANGED data  \* mutant

ClearedByOutermost ==  \* mutant
  /\ data' = IF Len(flushes) = 1 THEN <<>> ELSE data
  /\ flushes' = Front(flushes)

\* The end of flushLog.
Empty == data' = <<>> /\ flushes' = Front(flushes)

PostUrl ==
  /\ Waiting("url")
  /\ Deliver("url")
  /\ IF logToWss
     THEN flushes' = Front(flushes) \o <<"wss">> /\ UNCHANGED data
     ELSE Empty
  /\ UNCHANGED <<written, hasUrl, logToWss>>

SendWss ==
  /\ Waiting("wss")
  /\ Deliver("wss")
  /\ Empty
  /\ UNCHANGED <<written, hasUrl, logToWss>>

\* WebSocketServer::loop, which no wait calls.
WssConnected ==
  /\ flushes = <<>>
  /\ logToWss' = TRUE
  /\ UNCHANGED <<data, written, flushes, hasUrl, posted>>

LogInit ==
  /\ data = <<>>
  /\ written = 0
  /\ flushes = <<>>
  /\ hasUrl \in BOOLEAN
  /\ logToWss = FALSE
  /\ posted = [d \in {"url", "wss"} |-> 0]

LogNext == Write \/ FlushLog \/ PostUrl \/ SendWss \/ WssConnected

LogSpec == LogInit /\ [][LogNext]_logVars

-----------------------------------------------------------------------------
\* Properties.

LogTypeOK ==
  /\ data \in Seq(1 .. MaxBytes)
  /\ written \in 0 .. MaxBytes
  /\ flushes \in Seq({"url", "wss"})
  /\ hasUrl \in BOOLEAN /\ logToWss \in BOOLEAN
  /\ posted \in [{"url", "wss"} -> 0 .. MaxBytes]

\* The characters and the zero that follows them fit into the array, however
\* much is logged while a flush waits.
InBounds == Len(data) + 1 <= MaxSize

\* The buffer is at or past the one length that starts a flush only while a
\* flush is in progress, whose end empties it; otherwise it would fill up and
\* drop everything from then on.
NeverStuck == Len(data) >= FlushAt => flushes # <<>>

\* A destination is never sent a character again that an outer or a nested
\* flush already sent it.  With both destinations in use only the second one
\* keeps this: a flush nested in the wait for it posts to the first one again.
SentOnce ==
  [][\A d \in {"url", "wss"} :
       (posted'[d] # posted[d] /\ (d = "url" => ~logToWss))
         => \A i \in DOMAIN data : data[i] > posted[d]]_logVars
=============================================================================
