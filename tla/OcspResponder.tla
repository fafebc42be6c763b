--------------------------- MODULE OcspResponder ---------------------------
(***************************************************************************)
(* The OCSP responder of bb84/pki_tools/run_ocsp_responder.sh.  openssl    *)
(* reads the database of the authority once, when it starts, and ends      *)
(* after one request (-nrequest 1).  A loop writes the fingerprint of the  *)
(* database, starts openssl, writes its process id and waits; a watcher    *)
(* compares the fingerprint with the database every Poll and kills the     *)
(* process when they differ.  Loop, watcher, process and authority are     *)
(* four actors.                                                            *)
(*                                                                         *)
(* What is kept of the database is the state of one certificate, which     *)
(* also stands for its fingerprint: the database only grows.  A step of    *)
(* the loop and a kill take less than a unit of time.                      *)
(***************************************************************************)
EXTENDS Naturals

CONSTANTS
  Poll,      \* OCSP_INDEX_POLL_S
  None       \* no fingerprint, no answer, not yet

VARIABLES
  now,       \* the clock
  index,     \* the certificate in ca-db/index.txt
  fp,        \* the file $PIDFILE.fp, or None
  loop,      \* where the main loop is; "down" when the script does not run
  proc,      \* the openssl process: "none", "starting", or what it has read
  left,      \* has a stop left it behind?  Then it holds the port.
  pidKnown,  \* does $PIDFILE.child name the loop's process?
  watch,     \* the watcher: "sleep" or "kill"
  polledAt   \* when the watcher last went to sleep

scriptVars == <<fp, loop, proc, left, pidKnown, watch, polledAt>>

View == {"unknown", "good", "revoked"}

ASSUME ResponderAssumption ==
  /\ Poll \in Nat \ {0}
  /\ None \notin Nat /\ None \notin View

ResponderInit ==
  /\ index = "unknown" /\ fp = None /\ loop = "down" /\ proc = "none"
  /\ left = FALSE /\ pidKnown = FALSE /\ watch = "sleep" /\ polledAt = 0

-----------------------------------------------------------------------------
(* The authority signs the certificate, later perhaps revokes it.          *)
Sign ==
  /\ index = "unknown" /\ index' = "good"
  /\ UNCHANGED scriptVars

Revoke ==
  /\ index = "good" /\ index' = "revoked"
  /\ UNCHANGED scriptVars

(* The loop.                                                               *)
WriteFp ==
  /\ loop = "fp" /\ loop' = "start"
  /\ fp' = index
  /\ UNCHANGED <<index, proc, left, pidKnown, watch, polledAt>>

(* While another process holds the port openssl ends at once.              *)
StartProcess ==
  /\ loop = "start" /\ loop' = "pid"
  /\ proc' = IF left THEN proc ELSE "starting"
  /\ pidKnown' = FALSE
  /\ UNCHANGED <<index, fp, left, watch, polledAt>>

(* Defect: the fingerprint is that of the time when the process runs.      *)
WritePidAndFp ==
  /\ loop = "pid" /\ loop' = "wait"
  /\ pidKnown' = TRUE /\ fp' = index
  /\ UNCHANGED <<index, proc, left, watch, polledAt>>

WritePid ==
  /\ loop = "pid" /\ loop' = "wait"
  /\ pidKnown' = TRUE
  /\ UNCHANGED <<index, fp, proc, left, watch, polledAt>>

ChildGone ==
  /\ loop = "wait" /\ (proc = "none" \/ left) /\ loop' = "fp"
  /\ UNCHANGED <<index, fp, proc, left, pidKnown, watch, polledAt>>

(* openssl reads the database.                                             *)
Load ==
  /\ proc = "starting" /\ proc' = index
  /\ UNCHANGED <<index, fp, loop, left, pidKnown, watch, polledAt>>

(* One request, ours or another, and the process ends.                     *)
Serve ==
  /\ proc \in View /\ proc' = "none" /\ left' = FALSE
  /\ UNCHANGED <<index, fp, loop, pidKnown, watch, polledAt>>

(* The watcher wakes up.                                                   *)
Look ==
  /\ loop # "down" /\ watch = "sleep" /\ now = polledAt + Poll
  /\ watch' = IF fp \notin {None, index} THEN "kill" ELSE "sleep"
  /\ polledAt' = now
  /\ UNCHANGED <<index, fp, loop, proc, left, pidKnown>>

Kill ==
  /\ watch = "kill" /\ watch' = "sleep"
  /\ proc' = IF pidKnown /\ ~left THEN "none" ELSE proc
  /\ UNCHANGED <<index, fp, loop, left, pidKnown, polledAt>>

(* The script is started, or stopped with its watcher and the process that *)
(* the file names: one that was started but not yet written there is left  *)
(* behind.                                                                 *)
Boot ==
  /\ loop = "down" /\ loop' = "fp" /\ polledAt' = now
  /\ UNCHANGED <<index, fp, proc, left, pidKnown, watch>>

cleanup ==
  /\ loop # "down" /\ loop' = "down"
  /\ proc' = IF pidKnown /\ ~left THEN "none" ELSE proc
  /\ left' = (proc' # "none")
  /\ fp' = None /\ pidKnown' = FALSE /\ watch' = "sleep"
  /\ UNCHANGED <<index, polledAt>>

ResponderNext ==
  \/ Sign \/ Revoke
  \/ WriteFp \/ StartProcess \/ WritePid \/ ChildGone \/ Load \/ Serve
  \/ Look \/ Kill \/ Boot \/ cleanup

(* Nothing the script does at once is left to do.                          *)
Settled ==
  /\ proc # "starting"
  /\ loop = "down" \/ (loop = "wait" /\ proc \in View /\ watch = "sleep"
                       /\ now < polledAt + Poll)

-----------------------------------------------------------------------------
ResponderTypeOK ==
  /\ index \in View /\ fp \in View \cup {None}
  /\ loop \in {"down", "fp", "start", "pid", "wait"}
  /\ proc \in View \cup {"none", "starting"} /\ {left, pidKnown} \subseteq BOOLEAN
  /\ watch \in {"sleep", "kill"} /\ polledAt \in Nat

(* A process of the loop that has read an old database does not go unseen: *)
(* the fingerprint the watcher compares is at least as old, whenever the   *)
(* database changes while the loop is at work                              *)
(* (run_ocsp_responder.sh:50-55, 83).                                      *)
StaleProcessIsSeen == proc \in View \ {index} /\ ~left => fp # index
=============================================================================
