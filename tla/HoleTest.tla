----------------------------- MODULE HoleTest -----------------------------
(***************************************************************************)
(* holetest.c: two threads or processes write their markers into every     *)
(* page of a mapped file at the same time, and main checks afterwards that *)
(* all markers are there.  It does so for a file of zeros and for two      *)
(* files of holes.                                                         *)
(*                                                                         *)
(* What the program tests is the kernel, which is external: a page that is *)
(* absent is allocated by a fault, in two steps, between which another     *)
(* thread's fault may come.  A sound kernel looks again before it installs *)
(* the page; a racy one does not, and throws away what was written to the  *)
(* page meanwhile; a lossy one drops single writes.                        *)
(***************************************************************************)
EXTENDS Integers, FiniteSets

CONSTANTS
    THREADS,
    PAGES,      \* npages
    Options,    \* the command lines: sets of the letters f, w, r, F and p
    Kernels     \* the kernels: "sound", "racy" and "lossy"

ASSUME HoleTestAssumption ==
    /\ THREADS \in Nat \ {0}
    /\ PAGES \in Nat \ {0}
    /\ \A opt \in Options : ~{"w", "p"} \subseteq opt       \* main refuses these

Threads == 0 .. THREADS - 1
Pages == 0 .. PAGES - 1

(* The places with pages of their own: the file, and the private mappings  *)
(* of the children, by their numbers, and of the parent.                   *)
FILE == THREADS
PARENT == THREADS + 1
Views == 0 .. PARENT

(* A page holds a marker at the offset of each thread: 0 or a thread's id. *)
Id(t) == t + 1
Contents == [Threads -> 0 .. THREADS]
Zeros == [t \in Threads |-> 0]
ABSENT == [t \in {} |-> 0]

VARIABLES
    opt, kernel,
    test,       \* 1 zero-filled, 2 posix_fallocated, 3 ftruncated
    exists,     \* whether FILENAME exists
    pages,      \* pages[v][p]: page p in view v
    mpc, mi,
    errcnt, toterr, status,
    failed,     \* the children that fork could not make: tid is -1
    pc,         \* where each thread or process is, and
    at,         \* at which page
    errors,     \* what each returns or exits with
    lost,       \* history: the kernel has lost a marker,
    missing,    \* fork has failed,
    detected    \* and a check of markers has found an error

program == <<opt, kernel, test, exists, status>>
results == <<errcnt, toterr, errors, detected>>
forks == <<failed, missing>>
vars == <<program, pages, mpc, mi, results, forks, pc, at, lost>>

use_wr(t) == "w" \in opt /\ t = 0
use_fork == "F" \in opt
use_private == "p" \in opt

Init ==
    /\ opt \in Options
    /\ kernel \in Kernels
    /\ test = 1
    /\ exists = FALSE
    /\ pages = [v \in Views |-> [p \in Pages |-> ABSENT]]
    /\ mpc = "create" /\ mi = 0
    /\ errcnt = 0 /\ toterr = 0 /\ status = -1
    /\ pc = [t \in Threads |-> "none"]
    /\ at = [t \in Threads |-> 0]
    /\ errors = [t \in Threads |-> 0]
    /\ failed = {} /\ missing = FALSE
    /\ lost = FALSE /\ detected = FALSE

-----------------------------------------------------------------------------
(* The memory *)

Filled(view) == [p \in Pages |-> IF view[p] = ABSENT THEN Zeros ELSE view[p]]

(* What is read from page p in view v: its own copy, the file's, or zeros. *)
Seen(v, p) == IF pages[v][p] # ABSENT THEN pages[v][p] ELSE Filled(pages[FILE])[p]

(* The view that thread or process t writes its markers to. *)
Target(t) ==
    IF use_wr(t) \/ ~use_private THEN FILE ELSE IF use_fork THEN t ELSE PARENT

ParentView == IF use_private THEN PARENT ELSE FILE

(* Mutant: stops before the last page. *)
VerifyButLast(v, expect) ==
    Cardinality({w \in (Pages \ {PAGES - 1}) \X Threads : Seen(v, w[1])[w[2]] # expect[w[2]]})

(* verify_mapping: how many markers of view v are not as expected. *)
verify_mapping(v, expect) ==
    Cardinality({w \in Pages \X Threads : Seen(v, w[1])[w[2]] # expect[w[2]]})

-----------------------------------------------------------------------------
(* main and test_this *)

At(here, there) == mpc = here /\ mpc' = there

(* The file is new; the first test fills it with zeros. *)
CreateFile ==
    /\ At("create", "mmap") /\ ~exists
    /\ exists' = TRUE
    /\ pages' = [v \in Views |->
                   [p \in Pages |-> IF v = FILE /\ test = 1 THEN Zeros ELSE ABSENT]]
    /\ UNCHANGED <<opt, kernel, test, status, mi, results, forks, pc, at, lost>>

Mmap ==
    /\ At("mmap", "start")
    /\ pages' = IF "r" \in opt /\ ~use_fork THEN [pages EXCEPT ![FILE] = Filled(@)] ELSE pages
    /\ errcnt' = 0
    /\ errors' = [t \in Threads |-> 0]
    /\ failed' = {}
    /\ UNCHANGED <<program, mi, toterr, detected, missing, pc, at, lost>>

(* A step of main's loops over the threads. *)
ForEach(here, there) ==
    /\ mpc = here
    /\ mi' = IF mi + 1 = THREADS THEN 0 ELSE mi + 1
    /\ mpc' = IF mi + 1 = THREADS THEN there ELSE here

(* Mutant: the first thread is started twice, the last one never. *)
StartFirst ==
    /\ ForEach("start", "wait")
    /\ pc' = [pc EXCEPT ![0] = IF "r" \in opt /\ use_fork /\ ~use_wr(0) THEN "prefault" ELSE "mark"]
    /\ UNCHANGED <<program, pages, results, forks, at, lost>>

StartThread ==
    /\ ForEach("start", "wait")
    /\ pc' = [pc EXCEPT ![mi] =
                IF "r" \in opt /\ use_fork /\ ~use_wr(mi) THEN "prefault" ELSE "mark"]
    /\ UNCHANGED <<program, pages, results, forks, at, lost>>

(* tid is unsigned, so the test of tid[i] < 0 does not see this.           *)
ForkFails ==
    /\ use_fork /\ ForEach("start", "wait")
    /\ failed' = failed \cup {mi}
    /\ missing' = TRUE
    /\ UNCHANGED <<program, pages, results, pc, at, lost>>

(* Mutant: does not wait. *)
WaitForNobody ==
    /\ ForEach("wait", "verify")
    /\ errcnt' = IF errors[mi] > 0 THEN errcnt + 1 ELSE errcnt
    /\ pc' = [pc EXCEPT ![mi] = IF @ = "done" THEN "none" ELSE @]
    /\ UNCHANGED <<program, pages, toterr, errors, detected, forks, at, lost>>

Reaped(t) ==
    /\ pc[t] = "done" /\ pc' = [pc EXCEPT ![t] = "none"]
    /\ errcnt' = IF errors[t] > 0 THEN errcnt + 1 ELSE errcnt

(* There is no such child, and what status holds is undefined.             *)
NoChild == UNCHANGED pc /\ errcnt' \in {errcnt, errcnt + 1}

(* pthread_join or waitpid, which for -1 waits for any child               *)
Wait ==
    /\ ForEach("wait", "verify")
    /\ \/ mi \notin failed /\ Reaped(mi)
       \/ use_fork /\ mi \notin failed /\ pc[mi] = "none" /\ NoChild
       \/ mi \in failed /\ \E t \in Threads : Reaped(t)
       \/ mi \in failed /\ (\A t \in Threads : pc[t] = "none") /\ NoChild
    /\ UNCHANGED <<program, pages, toterr, errors, detected, forks, at, lost>>

(* The markers that main looks for in its own mapping. *)
tid(t) == IF use_private /\ use_fork THEN 0 ELSE IF t \in failed THEN -1 ELSE Id(t)

Verify ==
    /\ At("verify", "verify file")
    /\ errcnt' = verify_mapping(ParentView, [t \in Threads |-> tid(t)])
    /\ detected' = (detected \/ errcnt' > 0)
    /\ UNCHANGED <<program, pages, mi, toterr, errors, forks, pc, at, lost>>

(* With private mappings no marker may have come to the file. *)
VerifyFile ==
    /\ At("verify file", "result")
    /\ errcnt' = errcnt + IF use_private THEN verify_mapping(FILE, Zeros) ELSE 0
    /\ detected' = (detected \/ errcnt' > 0)
    /\ UNCHANGED <<program, pages, mi, toterr, errors, forks, pc, at, lost>>

(* exit(5), exit(9) or exit(17), *)
StopOnError ==
    /\ At("result", "exited")
    /\ errcnt > 0 /\ "f" \notin opt
    /\ toterr' = toterr + errcnt
    /\ status' = CASE test = 1 -> 5 [] test = 2 -> 9 [] test = 3 -> 17
    /\ UNCHANGED <<opt, kernel, test, exists, pages, mi, errcnt, errors, detected, forks,
                   pc, at, lost>>

(* or unlink, and the next test or the end. *)
GoOn ==
    /\ mpc = "result"
    /\ errcnt = 0 \/ "f" \in opt
    /\ toterr' = toterr + errcnt
    /\ exists' = FALSE
    /\ IF test = 3
       THEN mpc' = "exited" /\ status' = (IF toterr' > 0 THEN 19 ELSE 0) /\ UNCHANGED test
       ELSE mpc' = "create" /\ test' = test + 1 /\ UNCHANGED status
    /\ UNCHANGED <<opt, kernel, pages, mi, errcnt, errors, detected, forks, pc, at, lost>>

Main ==
    \/ CreateFile \/ Mmap \/ StartThread \/ ForkFails \/ Wait \/ Verify \/ VerifyFile
    \/ StopOnError \/ GoOn

-----------------------------------------------------------------------------
(* pt_page_marker and pt_write_marker *)

(* Thread t is done with a page and goes on to the next one, or to there. *)
NextPage(t, there) ==
    /\ at' = [at EXCEPT ![t] = IF @ + 1 = PAGES THEN 0 ELSE @ + 1]
    /\ pc' = [pc EXCEPT ![t] = IF at[t] + 1 = PAGES THEN there ELSE @]

(* prefault_mapping reads, which brings the page into the file's cache. *)
PrefaultPage(t) ==
    /\ pc[t] = "prefault" /\ pages[FILE][at[t]] # ABSENT
    /\ NextPage(t, "mark")
    /\ UNCHANGED <<program, pages, mpc, mi, results, forks, lost>>

AfterMarking == IF use_private /\ use_fork THEN "verify" ELSE "done"

MarkPage(t) ==
    /\ pc[t] = "mark" /\ pages[Target(t)][at[t]] # ABSENT
    /\ pages' = [pages EXCEPT ![Target(t)][at[t]][t] = Id(t)]
    /\ NextPage(t, AfterMarking)
    /\ UNCHANGED <<program, mpc, mi, results, forks, lost>>

(* A child with a private mapping sees its own markers and no others. *)
VerifyOwn(t) ==
    /\ pc[t] = "verify"
    /\ errors' = [errors EXCEPT ![t] =
                    verify_mapping(t, [u \in Threads |-> IF u = t THEN Id(t) ELSE 0])]
    /\ detected' = (detected \/ errors'[t] > 0)
    /\ pc' = [pc EXCEPT ![t] = "done"]
    /\ UNCHANGED <<program, pages, mpc, mi, errcnt, toterr, forks, at, lost>>

-----------------------------------------------------------------------------
(* The kernel *)

Faulting(t) == IF pc[t] \in {"prefault", "reading"} THEN FILE ELSE Target(t)

(* A page that is absent is looked for, *)
Fault(t) ==
    /\ pc[t] \in {"prefault", "mark"} /\ pages[Faulting(t)][at[t]] = ABSENT
    /\ pc' = [pc EXCEPT ![t] = IF @ = "prefault" THEN "reading" ELSE "writing"]
    /\ UNCHANGED <<program, pages, mpc, mi, results, forks, at, lost>>

(* and a new one installed, with what the file has there. *)
Install(t) ==
    LET old == pages[Faulting(t)][at[t]]
        new == Seen(FILE, at[t])
    IN
    /\ pc[t] \in {"reading", "writing"}
    /\ pc' = [pc EXCEPT ![t] = IF @ = "reading" THEN "prefault" ELSE "mark"]
    /\ IF old = ABSENT THEN pages' = [pages EXCEPT ![Faulting(t)][at[t]] = new] /\ lost' = lost
       ELSE IF kernel = "racy"
       THEN /\ pages' = [pages EXCEPT ![Faulting(t)][at[t]] = Zeros]
            /\ lost' = (lost \/ old # Zeros)
       ELSE UNCHANGED <<pages, lost>>
    /\ UNCHANGED <<program, mpc, mi, results, forks, at>>

LoseMarker(t) ==
    /\ kernel = "lossy"
    /\ pc[t] = "mark" /\ pages[Target(t)][at[t]] # ABSENT
    /\ lost' = TRUE
    /\ NextPage(t, AfterMarking)
    /\ UNCHANGED <<program, pages, mpc, mi, results, forks>>

Marker(t) ==
    PrefaultPage(t) \/ MarkPage(t) \/ VerifyOwn(t) \/ Fault(t) \/ Install(t) \/ LoseMarker(t)

Next ==
    \/ Main
    \/ \E t \in Threads : Marker(t)
    \/ mpc = "exited" /\ UNCHANGED vars

Spec == Init /\ [][Next]_vars

(* main, the threads and the processes are scheduled. *)
FairSpec ==
    /\ Spec
    /\ WF_vars(Main)
    /\ \A t \in Threads : WF_vars(Marker(t))

-----------------------------------------------------------------------------

(* The test blames no sound kernel: however the faults of the two threads, *)
(* or processes, come together, and whatever was prefaulted, every check   *)
(* finds the markers it expects; only a child that was never made leaves   *)
(* errors behind (holetest.c:94-140,208,231-264).                          *)
NoFalseAlarm == kernel = "sound" /\ ~missing => ~detected

(* A kernel that has lost a marker, in any of the three tests, does not    *)
(* get away with it, and neither does a fork that has failed: the program  *)
(* exits with an error.  Processes with private mappings (-F -p) are       *)
(* another matter, see ErrorsAreReported                                   *)
(* (holetest.c:208,242-264,382-383,455-456).                               *)
LossReported == status = 0 /\ (lost \/ missing) => use_fork /\ use_private

(* The program comes to its end, without waiting for a thread for ever.    *)
Ends == <>(mpc = "exited")

(* "if the test detects an error in the page markers, then the test exits  *)
(* immediately", and with -f "will still exit with a non-0 status": also   *)
(* when a child detects it (holetest.c:48-51,134-139,231-252).             *)
ErrorsAreReported == mpc = "exited" /\ detected => status # 0
============================================================================
