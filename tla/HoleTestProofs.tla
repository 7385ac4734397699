-------------------------- MODULE HoleTestProofs --------------------------
(***************************************************************************)
(* The hole test for any number of threads and pages, and any kernels.     *)
(* The invariant says where a marker can be at all, and on which pages it  *)
(* must be: those that its thread has been at and is past.  What main and  *)
(* the children count as errors is the cardinality of a set of markers, so *)
(* it is 0 exactly when none is wrong.                                     *)
(***************************************************************************)
EXTENDS HoleTest, FiniteSetTheorems, TLAPS

(* Thread t of this test has been at page p and is past it.                *)
Passed(t, p) ==
    \/ pc[t] \in {"mark", "writing"} /\ p < at[t]
    \/ pc[t] \in {"verify", "done"}
    \/ pc[t] = "none" /\ t \notin failed /\ mpc \in {"wait", "verify", "verify file"}

TypeInv ==
    /\ opt \in Options /\ kernel \in Kernels
    /\ test \in 1 .. 3 /\ exists \in BOOLEAN
    /\ pages \in [Views -> [Pages -> Contents \cup {ABSENT}]]
    /\ mpc \in {"create", "mmap", "start", "wait", "verify", "verify file", "result", "exited"}
    /\ mi \in Threads
    /\ errcnt \in Nat /\ toterr \in Nat /\ status \in {-1, 0, 5, 9, 17, 19}
    /\ failed \subseteq Threads
    /\ pc \in [Threads -> {"none", "prefault", "reading", "mark", "writing", "verify", "done"}]
    /\ at \in [Threads -> Pages]
    /\ errors \in [Threads -> Nat]
    /\ lost \in BOOLEAN /\ missing \in BOOLEAN /\ detected \in BOOLEAN

(* Which threads or processes there are while main is where it is.         *)
StageInv ==
    /\ mpc \notin {"start", "wait"} => mi = 0 /\ \A t \in Threads : pc[t] = "none"
    /\ mpc = "start" => \A t \in Threads :
           IF t < mi THEN pc[t] = "none" <=> t \in failed
           ELSE pc[t] = "none" /\ t \notin failed
    /\ mpc = "wait" => \A t \in Threads : t < mi => pc[t] = "none"
    /\ \A t \in failed : pc[t] = "none"
    /\ failed # {} => missing
    /\ \A t \in Threads : pc[t] \in {"none", "verify", "done"} => at[t] = 0
    /\ \A t \in Threads : pc[t] = "verify" => use_fork /\ use_private
    /\ status = 0 => mpc = "exited" /\ toterr = 0

(* A marker is nowhere but where its thread writes it, on pages that its   *)
(* thread is past; and under a sound kernel it is on all of those.         *)
Testing == mpc \in {"mmap", "start", "wait", "verify", "verify file"}

PageInv ==
    Testing =>
        /\ \A v \in Views, p \in Pages, t \in Threads :
               pages[v][p] # ABSENT =>
                   \/ pages[v][p][t] = 0
                   \/ pages[v][p][t] = Id(t) /\ v = Target(t) /\ Passed(t, p)
        /\ \A t \in Threads, p \in Pages :
               Passed(t, p) =>
                   /\ pages[Target(t)][p] # ABSENT
                   /\ kernel = "sound" => pages[Target(t)][p][t] = Id(t)

(* Under a sound kernel with all markers started, nothing is wrong.        *)
AlarmInv ==
    kernel = "sound" /\ ~missing => ~detected /\ (mpc = "verify file" => errcnt = 0)

(* Something that Verify will find.                                        *)
Trouble ==
    \/ failed # {}
    \/ \E t \in Threads, p \in Pages : Passed(t, p) /\ pages[ParentView][p][t] # Id(t)

LossInv ==
    ~(use_fork /\ use_private) /\ (lost \/ missing) =>
        \/ toterr > 0
        \/ mpc \in {"start", "wait", "verify"} /\ Trouble
        \/ mpc \in {"verify file", "result"} /\ errcnt > 0

IInv == TypeInv /\ StageInv /\ PageInv /\ AlarmInv /\ LossInv

-----------------------------------------------------------------------------
(* Markers and views *)

(* The threads, the views and the markers are told apart by their numbers. *)
LEMMA Numbers ==
    /\ THREADS \in Nat /\ THREADS > 0 /\ PAGES \in Nat /\ PAGES > 0
    /\ 0 \in Threads /\ 0 \in Pages
    /\ Threads \subseteq Nat /\ Pages \subseteq Nat
    /\ FILE \in Views /\ PARENT \in Views /\ FILE # PARENT
    /\ \A t \in Threads : /\ t \in Views /\ t # FILE /\ t # PARENT
                          /\ Id(t) \in 0 .. THREADS /\ Id(t) # 0 /\ Id(t) # -1
                          /\ Zeros[t] = 0
    /\ Zeros \in Contents /\ ABSENT \notin Contents /\ Zeros # ABSENT
<1>1. THREADS \in Nat /\ THREADS > 0 /\ PAGES \in Nat /\ PAGES > 0
  BY HoleTestAssumption
<1>2. 0 \in Threads /\ 0 \in Pages /\ Threads \subseteq Nat /\ Pages \subseteq Nat
  BY <1>1 DEF Threads, Pages
<1>3. FILE \in Views /\ PARENT \in Views /\ FILE # PARENT
  BY <1>1 DEF FILE, PARENT, Views
<1>4. \A t \in Threads : /\ t \in Views /\ t # FILE /\ t # PARENT
                         /\ Id(t) \in 0 .. THREADS /\ Id(t) # 0 /\ Id(t) # -1
                         /\ Zeros[t] = 0
  BY <1>1 DEF FILE, PARENT, Views, Threads, Id, Zeros
<1>5. Zeros \in Contents
  BY <1>1 DEF Zeros, Contents
<1>6. ABSENT \notin Contents
  BY <1>2 DEF ABSENT, Contents
<1> QED
  BY <1>1, <1>2, <1>3, <1>4, <1>5, <1>6

(* Only children with private mappings write to views that main does not   *)
(* look at, and nobody with a private mapping writes to the file.          *)
LEMMA Targets ==
    ASSUME opt \in Options, NEW t \in Threads
    PROVE  /\ Target(t) \in Views /\ ParentView \in Views
           /\ use_private => Target(t) # FILE
           /\ ~(use_fork /\ use_private) => Target(t) = ParentView
           /\ use_fork /\ use_private => Target(t) = t /\ ParentView = PARENT
           /\ ~use_private => ParentView = FILE
<1>1. use_private => ~use_wr(t)
  BY HoleTestAssumption DEF use_private, use_wr
<1> QED
  BY <1>1, Numbers DEF Target, ParentView

(* What is seen of page p in view v. *)
LEMMA SeenIs ==
    ASSUME NEW v \in Views, NEW p \in Pages,
           pages \in [Views -> [Pages -> Contents \cup {ABSENT}]]
    PROVE  /\ Seen(v, p) \in Contents
           /\ pages[v][p] # ABSENT => Seen(v, p) = pages[v][p]
           /\ pages[v][p] = ABSENT => Seen(v, p) =
                  IF pages[FILE][p] = ABSENT THEN Zeros ELSE pages[FILE][p]
BY Numbers DEF Seen, Filled

(* verify_mapping counts, and finds nothing only if nothing is wrong. *)
LEMMA VerifyFinds ==
    ASSUME NEW v, NEW expect
    PROVE  /\ verify_mapping(v, expect) \in Nat
           /\ verify_mapping(v, expect) = 0 <=>
                  \A p \in Pages, t \in Threads : Seen(v, p)[t] = expect[t]
<1> DEFINE Wrong == {w \in Pages \X Threads : Seen(v, w[1])[w[2]] # expect[w[2]]}
<1>1. IsFiniteSet(Pages) /\ IsFiniteSet(Threads)
  BY Numbers, FS_Interval DEF Pages, Threads
<1>2. IsFiniteSet(Pages \X Threads)
  BY <1>1, FS_Product
<1>3. IsFiniteSet(Wrong)
  BY <1>2, FS_Subset
<1>4. Cardinality(Wrong) \in Nat /\ (Cardinality(Wrong) = 0 <=> Wrong = {})
  BY <1>3, FS_CardinalityType, FS_EmptySet
<1>5. Wrong = {} <=> \A p \in Pages, t \in Threads : Seen(v, p)[t] = expect[t]
  <2>1. ASSUME NEW p \in Pages, NEW t \in Threads, Seen(v, p)[t] # expect[t]
        PROVE  Wrong # {}
    <3>1. <<p, t>> \in Wrong
      BY <2>1
    <3> QED
      BY <3>1
  <2> QED
    BY <2>1
<1> QED
  BY <1>4, <1>5 DEF verify_mapping

(* Going on to the next page leaves the other threads alone. *)
LEMMA NextPageIs ==
    ASSUME TypeInv, NEW t \in Threads, NEW there, NextPage(t, there),
           there \in {"mark", "verify", "done"}
    PROVE  /\ at' \in [Threads -> Pages]
           /\ pc' \in [Threads -> {"none", "prefault", "reading", "mark", "writing", "verify", "done"}]
           /\ \A u \in Threads : u # t => pc'[u] = pc[u] /\ at'[u] = at[u]
           /\ at[t] + 1 = PAGES => at'[t] = 0 /\ pc'[t] = there
           /\ at[t] + 1 # PAGES => at'[t] = at[t] + 1 /\ pc'[t] = pc[t]
<1>1. at[t] + 1 # PAGES => at[t] + 1 \in Pages
  <2>1. at[t] \in Pages
    BY DEF TypeInv
  <2> QED
    BY <2>1, Numbers DEF Pages
<1> QED
  BY <1>1, Numbers DEF TypeInv, NextPage

(* A thread that has marked a page is past it. *)
LEMMA MarkedIsPassed ==
    ASSUME TypeInv, NEW t \in Threads, pc[t] = "mark", NextPage(t, AfterMarking),
           UNCHANGED <<opt, mpc, failed>>
    PROVE  \A u \in Threads, p \in Pages :
               Passed(u, p)' <=> Passed(u, p) \/ (u = t /\ p = at[t])
<1>1. AfterMarking \in {"verify", "done"}
  BY DEF AfterMarking
<1>2. \A p \in Pages : p < PAGES /\ p \in Nat
  BY Numbers DEF Pages
<1> SUFFICES ASSUME NEW u \in Threads, NEW p \in Pages
             PROVE  Passed(u, p)' <=> Passed(u, p) \/ (u = t /\ p = at[t])
  OBVIOUS
<1>3. CASE u # t
  BY <1>1, <1>3, NextPageIs DEF Passed
<1>4. CASE u = t /\ at[t] + 1 = PAGES
  <2>1. at[t] \in Nat
    BY <1>2 DEF TypeInv
  <2>2. p < at[t] \/ p = at[t]
    BY <1>2, <1>4, <2>1
  <2> QED
    BY <1>1, <1>4, <2>2, NextPageIs DEF Passed
<1>5. CASE u = t /\ at[t] + 1 # PAGES
  <2>1. at[t] \in Nat
    BY <1>2 DEF TypeInv
  <2>2. at'[t] = at[t] + 1 /\ pc'[t] = "mark"
    BY <1>1, <1>5, NextPageIs
  <2>3. p < at[t] + 1 <=> p < at[t] \/ p = at[t]
    BY <1>2, <2>1
  <2> QED
    BY <1>5, <2>2, <2>3 DEF Passed
<1> QED
  BY <1>3, <1>4, <1>5

-----------------------------------------------------------------------------
(* Types *)

(* The loops of main stay among the threads. *)
LEMMA ForEachIs ==
    ASSUME mi \in Threads, NEW here, NEW there, ForEach(here, there)
    PROVE  /\ mpc = here /\ mi' \in Threads
           /\ mi + 1 = THREADS => mi' = 0 /\ mpc' = there /\ \A t \in Threads : t < mi \/ t = mi
           /\ mi + 1 # THREADS => mi' = mi + 1 /\ mpc' = here
<1>1. \A t \in Threads : t \in Nat /\ t < THREADS
  BY Numbers DEF Threads
<1>2. mi + 1 # THREADS => mi + 1 \in Threads
  BY Numbers DEF Threads
<1> QED
  BY <1>1, <1>2, Numbers DEF ForEach

(* Who is waited for, and what becomes of it. *)
LEMMA WaitIs ==
    ASSUME TypeInv, Wait
    PROVE  /\ ForEach("wait", "verify")
           /\ errcnt' \in Nat
           /\ UNCHANGED <<program, pages, toterr, errors, detected, forks, at, lost>>
           /\ \/ mi \notin failed /\ pc[mi] = "done" /\ pc' = [pc EXCEPT ![mi] = "none"]
              \/ mi \in failed /\ \E t \in Threads :
                     pc[t] = "done" /\ pc' = [pc EXCEPT ![t] = "none"]
              \/ UNCHANGED pc /\ pc[mi] = "none"
<1>1. errcnt \in Nat /\ errcnt' \in {errcnt, errcnt + 1}
  BY DEF TypeInv, Wait, Reaped, NoChild
<1>2. errcnt' \in Nat
  BY <1>1
<1> QED
  BY <1>2 DEF TypeInv, Wait, Reaped, NoChild

(* What main does keeps the types, *)
LEMMA TypeMain ==
    ASSUME TypeInv, Main
    PROVE  TypeInv'
<1>1. CASE CreateFile
  <2>1. pages' \in [Views -> [Pages -> Contents \cup {ABSENT}]]
    BY <1>1, Numbers DEF CreateFile
  <2> QED
    BY <1>1, <2>1 DEF TypeInv, CreateFile, At, results, forks
<1>2. CASE Mmap
  <2>1. Filled(pages[FILE]) \in [Pages -> Contents \cup {ABSENT}]
    <3>1. FILE \in Views /\ Zeros \in Contents
      BY Numbers
    <3>2. pages[FILE] \in [Pages -> Contents \cup {ABSENT}]
      BY <3>1 DEF TypeInv
    <3>3. \A p \in Pages : pages[FILE][p] \in Contents \cup {ABSENT}
      BY <3>2
    <3> QED
      BY <3>1, <3>3 DEF Filled
  <2>2. pages' \in [Views -> [Pages -> Contents \cup {ABSENT}]]
    BY <1>2, <2>1 DEF TypeInv, Mmap
  <2>3. mpc' = "start" /\ errcnt' = 0 /\ failed' = {} /\ errors' = [t \in Threads |-> 0]
    BY <1>2 DEF Mmap, At
  <2>4. UNCHANGED <<program, mi, toterr, detected, missing, pc, at, lost>>
    BY <1>2 DEF Mmap
  <2>5. errcnt' \in Nat /\ errors' \in [Threads -> Nat] /\ failed' \subseteq Threads
    BY <2>3
  <2> QED
    BY <2>2, <2>3, <2>4, <2>5 DEF TypeInv, program
<1>3. CASE StartThread
  <2>1. mi' \in Threads /\ mpc' \in {"start", "wait"}
    BY <1>3, ForEachIs DEF TypeInv, StartThread
  <2>2. pc' \in [Threads -> {"none", "prefault", "reading", "mark", "writing", "verify", "done"}]
    BY <1>3 DEF TypeInv, StartThread
  <2>3. UNCHANGED <<program, pages, results, forks, at, lost>>
    BY <1>3 DEF StartThread
  <2> QED
    BY <2>1, <2>2, <2>3 DEF TypeInv, program, results, forks
<1>4. CASE ForkFails
  <2>1. mi' \in Threads /\ mpc' \in {"start", "wait"}
    BY <1>4, ForEachIs DEF TypeInv, ForkFails
  <2>2. failed' \subseteq Threads /\ missing' = TRUE
    BY <1>4 DEF TypeInv, ForkFails
  <2>3. UNCHANGED <<program, pages, results, pc, at, lost>>
    BY <1>4 DEF ForkFails
  <2> QED
    BY <2>1, <2>2, <2>3 DEF TypeInv, program, results
<1>5. CASE Wait
  <2>1. ForEach("wait", "verify")
    BY <1>5, WaitIs
  <2>2. mi' \in Threads /\ mpc' \in {"wait", "verify"}
    BY <2>1, ForEachIs DEF TypeInv
  <2>3. pc' \in [Threads -> {"none", "prefault", "reading", "mark", "writing", "verify", "done"}]
    <3>1. \E t \in Threads : pc' = [pc EXCEPT ![t] = "none"] \/ pc' = pc
      <4>1. mi \in Threads
        BY DEF TypeInv
      <4> QED
        BY <1>5, <4>1, WaitIs
    <3> QED
      BY <3>1 DEF TypeInv
  <2>4. errcnt' \in Nat /\ UNCHANGED <<program, pages, toterr, errors, detected, forks, at, lost>>
    BY <1>5, WaitIs
  <2> QED
    BY <2>2, <2>3, <2>4 DEF TypeInv, program, forks
<1>6. CASE Verify
  <2>1. errcnt' \in Nat
    BY <1>6, VerifyFinds DEF Verify
  <2>2. detected' \in BOOLEAN
    BY <1>6 DEF Verify, TypeInv
  <2> QED
    BY <1>6, <2>1, <2>2 DEF TypeInv, Verify, At, program, forks
<1>7. CASE VerifyFile
  <2>0. verify_mapping(FILE, Zeros) \in Nat /\ errcnt \in Nat
    BY VerifyFinds DEF TypeInv
  <2>3. errcnt' = errcnt + 0 \/ errcnt' = errcnt + verify_mapping(FILE, Zeros)
    BY <1>7 DEF VerifyFile
  <2>1. errcnt' \in Nat
    BY <2>0, <2>3
  <2>2. detected' \in BOOLEAN
    BY <1>7 DEF VerifyFile, TypeInv
  <2> QED
    BY <1>7, <2>1, <2>2 DEF TypeInv, VerifyFile, At, program, forks
<1>8. CASE StopOnError
  <2>1. toterr' \in Nat /\ mpc' = "exited"
    BY <1>8 DEF TypeInv, StopOnError, At
  <2>2. status' \in {5, 9, 17}
    <3>1. test \in 1 .. 3
      BY DEF TypeInv
    <3>2. test = 1 \/ test = 2 \/ test = 3
      BY <3>1
    <3> QED
      BY <1>8, <3>2 DEF StopOnError
  <2> QED
    BY <1>8, <2>1, <2>2 DEF TypeInv, StopOnError, forks
<1>9. CASE GoOn
  <2>1. toterr' \in Nat /\ exists' = FALSE
    BY <1>9 DEF TypeInv, GoOn
  <2>2. test' \in 1 .. 3
    <3>1. test \in 1 .. 3 /\ (test' = test \/ (test # 3 /\ test' = test + 1))
      BY <1>9 DEF TypeInv, GoOn
    <3> QED
      BY <3>1
  <2>3. status' \in {-1, 0, 5, 9, 17, 19} /\ mpc' \in {"create", "exited"}
    BY <1>9 DEF TypeInv, GoOn
  <2> QED
    BY <1>9, <2>1, <2>2, <2>3 DEF TypeInv, GoOn, forks
<1> QED
  BY <1>1, <1>2, <1>3, <1>4, <1>5, <1>6, <1>7, <1>8, <1>9 DEF Main

(* and so does what the markers do. *)
LEMMA TypeMarker ==
    ASSUME TypeInv, NEW t \in Threads, Marker(t)
    PROVE  TypeInv'
<1>1. CASE PrefaultPage(t)
  <2>1. NextPage(t, "mark")
        /\ UNCHANGED <<opt, kernel, test, exists, status, pages, mpc, mi, errcnt, toterr,
                       errors, detected, failed, missing, lost>>
    BY <1>1 DEF PrefaultPage, program, results, forks
  <2>2. /\ at' \in [Threads -> Pages]
        /\ pc' \in [Threads -> {"none", "prefault", "reading", "mark", "writing",
                               "verify", "done"}]
    BY <2>1, NextPageIs
  <2> QED
    BY <2>1, <2>2 DEF TypeInv
<1>2. CASE MarkPage(t)
  <2>0. Target(t) \in Views /\ at[t] \in Pages
    BY Targets DEF TypeInv
  <2>1. pages[Target(t)][at[t]] \in Contents
    <3>1. pages[Target(t)][at[t]] \in Contents \cup {ABSENT}
      BY <2>0 DEF TypeInv
    <3> QED
      BY <1>2, <3>1 DEF MarkPage
  <2>2. [pages[Target(t)][at[t]] EXCEPT ![t] = Id(t)] \in Contents
    BY <2>1, Numbers DEF Contents
  <2>3. pages' \in [Views -> [Pages -> Contents \cup {ABSENT}]]
    BY <1>2, <2>0, <2>2 DEF TypeInv, MarkPage
  <2>4. AfterMarking \in {"mark", "verify", "done"}
    BY DEF AfterMarking
  <2>5. NextPage(t, AfterMarking)
        /\ UNCHANGED <<opt, kernel, test, exists, status, mpc, mi, errcnt, toterr,
                       errors, detected, failed, missing, lost>>
    BY <1>2 DEF MarkPage, program, results, forks
  <2>6. /\ at' \in [Threads -> Pages]
        /\ pc' \in [Threads -> {"none", "prefault", "reading", "mark", "writing",
                               "verify", "done"}]
    BY <2>4, <2>5, NextPageIs
  <2> QED
    BY <2>3, <2>5, <2>6 DEF TypeInv
<1>3. CASE VerifyOwn(t)
  <2>1. errors' \in [Threads -> Nat]
    BY <1>3, VerifyFinds DEF VerifyOwn, TypeInv
  <2>2. detected' \in BOOLEAN
    BY <1>3 DEF VerifyOwn, TypeInv
  <2>3. pc' \in [Threads -> {"none", "prefault", "reading", "mark", "writing", "verify", "done"}]
    BY <1>3 DEF TypeInv, VerifyOwn
  <2>4. UNCHANGED <<program, pages, mpc, mi, errcnt, toterr, forks, at, lost>>
    BY <1>3 DEF VerifyOwn
  <2> QED
    BY <2>1, <2>2, <2>3, <2>4 DEF TypeInv, program, forks
<1>4. CASE Fault(t)
  <2>1. pc' \in [Threads -> {"none", "prefault", "reading", "mark", "writing", "verify", "done"}]
    BY <1>4 DEF TypeInv, Fault
  <2>2. UNCHANGED <<program, pages, mpc, mi, results, forks, at, lost>>
    BY <1>4 DEF Fault
  <2> QED
    BY <2>1, <2>2 DEF TypeInv, program, results, forks
<1>5. CASE Install(t)
  <2>1. Faulting(t) \in Views /\ at[t] \in Pages
    BY Targets, Numbers DEF TypeInv, Faulting
  <2>2. pages' \in [Views -> [Pages -> Contents \cup {ABSENT}]]
    <3>1. Seen(FILE, at[t]) \in Contents
      BY <2>1, SeenIs, Numbers DEF TypeInv
    <3>2. ASSUME NEW x \in Contents,
                 pages' = [pages EXCEPT ![Faulting(t)] = [@ EXCEPT ![at[t]] = x]]
          PROVE  pages' \in [Views -> [Pages -> Contents \cup {ABSENT}]]
      BY <2>1, <3>2 DEF TypeInv
    <3> QED
      BY <1>5, <3>1, <3>2, Numbers DEF TypeInv, Install
  <2>3. lost' \in BOOLEAN
    BY <1>5 DEF TypeInv, Install
  <2>4. pc' \in [Threads -> {"none", "prefault", "reading", "mark", "writing", "verify", "done"}]
    BY <1>5 DEF TypeInv, Install
  <2>5. UNCHANGED <<program, mpc, mi, results, forks, at>>
    BY <1>5 DEF Install
  <2> QED
    BY <2>2, <2>3, <2>4, <2>5 DEF TypeInv, program, results, forks
<1>6. CASE LoseMarker(t)
  <2>1. AfterMarking \in {"mark", "verify", "done"}
    BY DEF AfterMarking
  <2> QED
    BY <1>6, <2>1, NextPageIs DEF TypeInv, LoseMarker, program, results, forks
<1> QED
  BY <1>1, <1>2, <1>3, <1>4, <1>5, <1>6 DEF Marker

-----------------------------------------------------------------------------
(* Where main and the threads are *)

(* Markers exist, and have passed pages, just when main's place says so:   *)
(* main keeps to that (holetest.c:322-558),                                *)
LEMMA StageMain ==
    ASSUME TypeInv, StageInv, Main
    PROVE  StageInv'
<1>1. CASE CreateFile
  BY <1>1 DEF StageInv, CreateFile, At, results, forks, use_fork, use_private
<1>2. CASE Mmap
  <2>1. \A t \in Threads : ~(t < 0)
    BY Numbers
  <2> QED
    BY <1>2, <2>1 DEF StageInv, Mmap, At, program, use_fork, use_private
<1>3. CASE StartThread
  <2>0. ForEach("start", "wait") /\ mi \in Threads
    BY <1>3 DEF TypeInv, StartThread
  <2>1. mpc = "start" /\ mpc' \in {"start", "wait"}
    BY <2>0, ForEachIs
  <2>2. pc' = [pc EXCEPT ![mi] = pc'[mi]] /\ pc'[mi] \in {"prefault", "mark"}
    BY <1>3 DEF TypeInv, StartThread
  <2>3. \A t \in Threads : t \in Nat /\ mi \in Nat
    BY Numbers DEF TypeInv
  <2>4. mpc' = "start" => mi' = mi + 1
    BY <2>0, ForEachIs
  <2>5. mpc' = "wait" => mi' = 0
    BY <2>0, <2>1, ForEachIs
  <2>6. mpc' = "wait" => \A t \in Threads : ~(t < mi')
    BY <2>3, <2>5
  <2> QED
    BY <1>3, <2>1, <2>2, <2>3, <2>4, <2>6
    DEF TypeInv, StageInv, StartThread, program, results, forks, use_fork, use_private
<1>4. CASE ForkFails
  <2>0. ForEach("start", "wait") /\ mi \in Threads
    BY <1>4 DEF TypeInv, ForkFails
  <2>1. mpc = "start" /\ mpc' \in {"start", "wait"}
    BY <2>0, ForEachIs
  <2>2. \A t \in Threads : t \in Nat /\ mi \in Nat
    BY Numbers DEF TypeInv
  <2>3. mpc' = "start" => mi' = mi + 1
    BY <2>0, ForEachIs
  <2>4. mpc' = "wait" => \A t \in Threads : ~(t < mi')
    BY <2>0, <2>1, <2>2, ForEachIs
  <2> QED
    BY <1>4, <2>1, <2>2, <2>3, <2>4
    DEF TypeInv, StageInv, ForkFails, program, results, use_fork, use_private
<1>5. CASE Wait
  <2>0. ForEach("wait", "verify") /\ mi \in Threads
    BY <1>5, WaitIs DEF TypeInv
  <2>1. mpc = "wait" /\ mpc' \in {"wait", "verify"}
    BY <2>0, ForEachIs
  <2>2. \A t \in Threads : pc'[t] = pc[t] \/ (pc[t] = "done" /\ pc'[t] = "none")
    BY <1>5, WaitIs DEF TypeInv
  <2>3. pc'[mi] = "none"
    BY <1>5, <2>2, WaitIs DEF TypeInv, StageInv
  <2>4. \A t \in Threads : t \in Nat /\ mi \in Nat
    BY Numbers DEF TypeInv
  <2>5. \A t \in Threads : t < mi \/ t = mi => pc'[t] = "none"
    BY <2>1, <2>2, <2>3 DEF StageInv
  <2>6. mpc' = "wait" => mi' = mi + 1
    BY <2>0, ForEachIs
  <2>7. mpc' = "verify" => mi' = 0 /\ \A t \in Threads : pc'[t] = "none"
    BY <2>0, <2>5, ForEachIs
  <2>8. UNCHANGED <<program, toterr, forks, at>>
    BY <1>5, WaitIs
  <2>9. mpc' = "wait" => \A t \in Threads : t < mi' => pc'[t] = "none"
    BY <2>4, <2>5, <2>6
  <2>10. \A t \in Threads : pc'[t] \in {"none", "verify", "done"} => at'[t] = 0
    BY <2>2, <2>8 DEF StageInv
  <2>11. \A t \in failed' : pc'[t] = "none"
    BY <2>2, <2>8 DEF StageInv, TypeInv, forks
  <2> QED
    BY <2>1, <2>2, <2>7, <2>8, <2>9, <2>10, <2>11
    DEF StageInv, program, forks, use_fork, use_private
<1>6. CASE Verify
  BY <1>6 DEF StageInv, Verify, At, program, forks, use_fork, use_private
<1>7. CASE VerifyFile
  BY <1>7 DEF StageInv, VerifyFile, At, program, forks, use_fork, use_private
<1>8. CASE StopOnError
  BY <1>8 DEF TypeInv, StageInv, StopOnError, At, forks, use_fork, use_private
<1>9. CASE GoOn
  <2>1. status' = 0 => test = 3 /\ ~(toterr' > 0)
    BY <1>9 DEF GoOn, StageInv
  <2>2. toterr' \in Nat
    BY <1>9 DEF GoOn, TypeInv
  <2>3. status' = 0 => mpc' = "exited" /\ toterr' = 0
    BY <1>9, <2>1, <2>2 DEF GoOn
  <2> QED
    BY <1>9, <2>3 DEF StageInv, GoOn, forks, use_fork, use_private
<1> QED
  BY <1>1, <1>2, <1>3, <1>4, <1>5, <1>6, <1>7, <1>8, <1>9 DEF Main

(* and so do the markers. *)
LEMMA StageMarker ==
    ASSUME TypeInv, StageInv, NEW t \in Threads, Marker(t)
    PROVE  StageInv'
<1>1. /\ pc[t] # "none" /\ pc'[t] # "none"
      /\ \A u \in Threads : u # t => pc'[u] = pc[u] /\ at'[u] = at[u]
      /\ pc'[t] \in {"verify", "done"} => at'[t] = 0
      /\ pc'[t] = "verify" => use_fork /\ use_private
  <2>1. CASE PrefaultPage(t)
    BY <2>1, NextPageIs DEF PrefaultPage
  <2>2. CASE MarkPage(t) \/ LoseMarker(t)
    <3>1. AfterMarking \in {"verify", "done"} /\ (AfterMarking = "verify" => use_fork /\ use_private)
      BY DEF AfterMarking
    <3>2. pc[t] = "mark" /\ NextPage(t, AfterMarking)
      BY <2>2 DEF MarkPage, LoseMarker
    <3> QED
      BY <3>1, <3>2, NextPageIs
  <2>3. CASE VerifyOwn(t)
    BY <2>3 DEF TypeInv, StageInv, VerifyOwn
  <2>4. CASE Fault(t)
    BY <2>4 DEF TypeInv, Fault
  <2>5. CASE Install(t)
    BY <2>5 DEF TypeInv, Install
  <2> QED
    BY <2>1, <2>2, <2>3, <2>4, <2>5 DEF Marker
<1>2. UNCHANGED <<program, mpc, mi, toterr, forks>>
  BY DEF Marker, PrefaultPage, MarkPage, VerifyOwn, Fault, Install, LoseMarker, results
<1> QED
  BY <1>1, <1>2
  DEF TypeInv, StageInv, program, forks, use_fork, use_private

-----------------------------------------------------------------------------
(* Pages and markers *)

(* Main lets no thread be past a page that it was not past before. *)
LEMMA PassedMain ==
    ASSUME TypeInv, StageInv, StartThread \/ ForkFails \/ Wait \/ Verify
    PROVE  \A t \in Threads, p \in Pages : Passed(t, p)' <=> Passed(t, p)
<1> SUFFICES ASSUME NEW t \in Threads, NEW p \in Pages
             PROVE  Passed(t, p)' <=> Passed(t, p)
  OBVIOUS
<1>1. CASE StartThread \/ ForkFails
  <2>1. ForEach("start", "wait") /\ mi \in Threads /\ UNCHANGED at
    BY <1>1 DEF TypeInv, StartThread, ForkFails, results
  <2>2. mpc = "start" /\ mpc' \in {"start", "wait"}
    BY <2>1, ForEachIs
  <2>3. mi + 1 # THREADS => mpc' = "start"
    BY <2>1, ForEachIs
  <2>4. mi + 1 = THREADS => t < mi \/ t = mi
    BY <2>1, ForEachIs
  <2>5. t \in Nat /\ mi \in Nat /\ p \in Nat
    BY Numbers DEF TypeInv
  <2>6. IF t < mi THEN pc[t] = "none" <=> t \in failed ELSE pc[t] = "none" /\ t \notin failed
    BY <2>2 DEF StageInv
  <2>7. ~(p < 0)
    BY <2>5
  <2>8. CASE t = mi
    <3>1. pc[t] = "none" /\ t \notin failed /\ at[t] = 0
      BY <2>5, <2>6, <2>8 DEF StageInv
    <3>2. CASE StartThread
      <4>1. pc'[t] \in {"prefault", "mark"}
        BY <2>8, <3>2 DEF StartThread, TypeInv
      <4> QED
        BY <2>1, <2>2, <2>7, <3>1, <4>1 DEF Passed
    <3>3. CASE ForkFails
      <4>1. t \in failed' /\ pc' = pc
        BY <2>8, <3>3 DEF ForkFails
      <4> QED
        BY <2>1, <2>2, <3>1, <4>1 DEF Passed
    <3> QED
      BY <1>1, <3>2, <3>3
  <2>9. CASE t # mi
    <3>1. pc'[t] = pc[t] /\ at'[t] = at[t] /\ (t \in failed' <=> t \in failed)
      BY <1>1, <2>1, <2>9 DEF StartThread, ForkFails, TypeInv, forks
    <3>2. pc[t] = "none" /\ mpc' = "wait" => t \in failed
      BY <2>3, <2>4, <2>6, <2>9, <2>2
    <3> QED
      BY <2>2, <3>1, <3>2 DEF Passed
  <2> QED
    BY <2>8, <2>9
<1>2. CASE Wait
  <2>1. ForEach("wait", "verify") /\ mi \in Threads /\ UNCHANGED <<at, failed>>
    BY <1>2, WaitIs DEF TypeInv, forks
  <2>2. mpc = "wait" /\ mpc' \in {"wait", "verify"}
    BY <2>1, ForEachIs
  <2>3. pc'[t] = pc[t] \/ (pc[t] = "done" /\ pc'[t] = "none")
    BY <1>2, WaitIs DEF TypeInv
  <2>4. pc[t] = "done" => t \notin failed
    BY DEF StageInv
  <2> QED
    BY <2>1, <2>2, <2>3, <2>4 DEF Passed
<1>3. CASE Verify
  BY <1>3 DEF Passed, Verify, At, forks
<1> QED
  BY <1>1, <1>2, <1>3

(* Nor do a thread's steps, unless they are past the page that it marks. *)
LEMMA PassedMarker ==
    ASSUME TypeInv, NEW t \in Threads,
           PrefaultPage(t) \/ VerifyOwn(t) \/ Fault(t) \/ Install(t)
    PROVE  \A u \in Threads, p \in Pages : Passed(u, p)' <=> Passed(u, p)
<1> SUFFICES ASSUME NEW u \in Threads, NEW p \in Pages
             PROVE  Passed(u, p)' <=> Passed(u, p)
  OBVIOUS
<1>1. CASE PrefaultPage(t)
  <2>1. pc[t] = "prefault" /\ NextPage(t, "mark") /\ UNCHANGED <<mpc, failed>>
    BY <1>1 DEF PrefaultPage, forks
  <2>2. ~(p < 0)
    BY Numbers
  <2> QED
    BY <2>1, <2>2, NextPageIs DEF Passed
<1>2. CASE VerifyOwn(t)
  BY <1>2 DEF Passed, VerifyOwn, TypeInv, forks
<1>3. CASE Fault(t)
  BY <1>3 DEF Passed, Fault, TypeInv, forks
<1>4. CASE Install(t)
  BY <1>4 DEF Passed, Install, TypeInv, forks
<1> QED
  BY <1>1, <1>2, <1>3, <1>4

(* What MarkPage writes. *)
LEMMA MarkPageIs ==
    ASSUME TypeInv, NEW t \in Threads, MarkPage(t),
           NEW v \in Views, NEW p \in Pages, NEW u \in Threads
    PROVE  /\ pages'[v][p] # ABSENT <=> pages[v][p] # ABSENT
           /\ pages[v][p] # ABSENT =>
                  pages'[v][p][u] = IF v = Target(t) /\ p = at[t] /\ u = t
                                    THEN Id(t) ELSE pages[v][p][u]
<1>1. Target(t) \in Views /\ at[t] \in Pages
  BY Targets DEF TypeInv
<1>2. pages[Target(t)][at[t]] \in Contents
  <2>1. pages[Target(t)][at[t]] \in Contents \cup {ABSENT}
    BY <1>1 DEF TypeInv
  <2> QED
    BY <2>1 DEF MarkPage
<1>3. [pages[Target(t)][at[t]] EXCEPT ![t] = Id(t)] \in Contents
  BY <1>2, Numbers DEF Contents
<1>4. pages' = [pages EXCEPT ![Target(t)] =
                  [@ EXCEPT ![at[t]] = [pages[Target(t)][at[t]] EXCEPT ![t] = Id(t)]]]
  BY DEF MarkPage
<1>5. CASE v = Target(t) /\ p = at[t]
  <2>1. pages'[v][p] = [pages[Target(t)][at[t]] EXCEPT ![t] = Id(t)]
    BY <1>1, <1>4, <1>5 DEF TypeInv
  <2> QED
    BY <1>2, <1>3, <1>5, <2>1, Numbers DEF Contents
<1>6. CASE ~(v = Target(t) /\ p = at[t])
  <2>1. pages'[v][p] = pages[v][p]
    BY <1>1, <1>4, <1>6 DEF TypeInv
  <2> QED
    BY <1>6, <2>1
<1> QED
  BY <1>5, <1>6

(* A page that a fault installs is new, and it replaces another only in a  *)
(* racy kernel.                                                            *)
LEMMA InstallIs ==
    ASSUME TypeInv, NEW t \in Threads, Install(t)
    PROVE  /\ Faulting(t) \in Views /\ at[t] \in Pages
           /\ \A v \in Views, p \in Pages :
                  ~(v = Faulting(t) /\ p = at[t]) => pages'[v][p] = pages[v][p]
           /\ pages'[Faulting(t)][at[t]] # ABSENT
           /\ IF pages[Faulting(t)][at[t]] = ABSENT
              THEN pages'[Faulting(t)][at[t]] = Seen(FILE, at[t]) /\ lost' = lost
              ELSE IF kernel = "racy"
              THEN /\ pages'[Faulting(t)][at[t]] = Zeros
                   /\ lost' = (lost \/ pages[Faulting(t)][at[t]] # Zeros)
              ELSE pages'[Faulting(t)][at[t]] = pages[Faulting(t)][at[t]] /\ lost' = lost
<1>1. Faulting(t) \in Views /\ at[t] \in Pages
  BY Targets, Numbers DEF TypeInv, Faulting
<1>2. Seen(FILE, at[t]) # ABSENT
  <2>1. FILE \in Views /\ at[t] \in Pages
    BY <1>1, Numbers
  <2>2. pages \in [Views -> [Pages -> Contents \cup {ABSENT}]]
    BY DEF TypeInv
  <2>3. Seen(FILE, at[t]) \in Contents
    BY <2>1, <2>2, SeenIs
  <2> QED
    BY <2>3, Numbers
<1>3. CASE pages[Faulting(t)][at[t]] = ABSENT
  <2>1. pages' = [pages EXCEPT ![Faulting(t)] = [@ EXCEPT ![at[t]] = Seen(FILE, at[t])]]
        /\ lost' = lost
    BY <1>3 DEF Install
  <2> QED
    BY <1>1, <1>2, <1>3, <2>1 DEF TypeInv
<1>4. CASE pages[Faulting(t)][at[t]] # ABSENT /\ kernel = "racy"
  <2>1. pages' = [pages EXCEPT ![Faulting(t)] = [@ EXCEPT ![at[t]] = Zeros]]
    BY <1>4 DEF Install
  <2>2. lost' = (lost \/ pages[Faulting(t)][at[t]] # Zeros)
    BY <1>4 DEF Install
  <2> QED
    BY <1>1, <1>4, <2>1, <2>2, Numbers DEF TypeInv
<1>5. CASE pages[Faulting(t)][at[t]] # ABSENT /\ kernel # "racy"
  BY <1>1, <1>5 DEF Install
<1> QED
  BY <1>3, <1>4, <1>5

(* A page holds the markers of the threads that have passed it and no      *)
(* others: main keeps it so,                                               *)
LEMMA PageMain ==
    ASSUME TypeInv, StageInv, PageInv, Main
    PROVE  PageInv'
<1>1. CASE CreateFile
  <2>1. mpc' = "mmap" /\ \A t \in Threads : pc'[t] = "none"
    BY <1>1 DEF StageInv, CreateFile, At
  <2>2. \A v \in Views, p \in Pages : pages'[v][p] \in {ABSENT, Zeros}
    BY <1>1 DEF CreateFile
  <2> QED
    BY <2>1, <2>2, Numbers DEF PageInv, Passed
<1>2. CASE Mmap
  <2>1. mpc = "mmap" /\ mpc' = "start" /\ \A t \in Threads : pc[t] = "none" /\ pc'[t] = "none"
    BY <1>2 DEF StageInv, Mmap, At
  <2>2. \A v \in Views, p \in Pages : pages'[v][p] \in {pages[v][p], Zeros}
    BY <1>2, Numbers DEF TypeInv, Mmap, Filled
  <2>3. \A v \in Views, p \in Pages, t \in Threads : pages[v][p] # ABSENT => pages[v][p][t] = 0
    BY <2>1 DEF PageInv, Testing, Passed
  <2> QED
    BY <2>1, <2>2, <2>3, Numbers DEF PageInv, Passed
<1>3. CASE StartThread \/ ForkFails \/ Wait \/ Verify
  <2>1. Testing /\ UNCHANGED <<opt, kernel, pages>>
    <3>1. UNCHANGED <<opt, kernel, pages>>
      BY <1>3, WaitIs DEF StartThread, ForkFails, Verify, program
    <3>2. StartThread \/ ForkFails => ForEach("start", "wait")
      BY DEF StartThread, ForkFails
    <3>3. Wait => ForEach("wait", "verify")
      BY WaitIs
    <3> QED
      BY <1>3, <3>1, <3>2, <3>3 DEF Testing, ForEach, Verify, At
  <2>2. \A t \in Threads : Target(t)' = Target(t)
    BY <2>1 DEF Target, use_wr, use_private, use_fork
  <2> HIDE DEF Passed, Target
  <2>3. \A t \in Threads, p \in Pages : Passed(t, p)' <=> Passed(t, p)
    BY <1>3, PassedMain
  <2> QED
    BY <2>1, <2>2, <2>3 DEF PageInv
<1>4. CASE VerifyFile \/ StopOnError \/ GoOn
  BY <1>4 DEF PageInv, Testing, VerifyFile, StopOnError, GoOn, At
<1> QED
  BY <1>1, <1>2, <1>3, <1>4 DEF Main

(* and so does every marker. *)
LEMMA PageMarker ==
    ASSUME TypeInv, StageInv, PageInv, NEW t \in Threads, Marker(t)
    PROVE  PageInv'
<1>1. UNCHANGED <<opt, kernel, mpc>>
  BY DEF Marker, PrefaultPage, MarkPage, VerifyOwn, Fault, Install, LoseMarker, program
<1>2. Testing
  <2>1. pc[t] # "none"
    BY DEF Marker, PrefaultPage, MarkPage, VerifyOwn, Fault, Install, LoseMarker
  <2> QED
    BY <2>1 DEF StageInv, Testing
<1>3. \A u \in Threads : Target(u)' = Target(u) /\ Target(u) \in Views
  BY <1>1, Targets DEF TypeInv, Target, use_wr, use_private, use_fork
<1>4. CASE PrefaultPage(t) \/ VerifyOwn(t) \/ Fault(t)
  <2>1. \A u \in Threads, p \in Pages : Passed(u, p)' <=> Passed(u, p)
    BY <1>4, PassedMarker
  <2>2. pages' = pages
    BY <1>4 DEF PrefaultPage, VerifyOwn, Fault
  <2> QED
    BY <1>1, <1>2, <1>3, <2>1, <2>2 DEF PageInv
<1>5. CASE MarkPage(t)
  <2>1. \A u \in Threads, p \in Pages :
            Passed(u, p)' <=> Passed(u, p) \/ (u = t /\ p = at[t])
    BY <1>5, MarkedIsPassed DEF MarkPage, program, forks
  <2>2. \A v \in Views, p \in Pages, u \in Threads :
            /\ pages'[v][p] # ABSENT <=> pages[v][p] # ABSENT
            /\ pages[v][p] # ABSENT =>
                  pages'[v][p][u] = IF v = Target(t) /\ p = at[t] /\ u = t
                                    THEN Id(t) ELSE pages[v][p][u]
    BY <1>5, MarkPageIs
  <2>3. pages[Target(t)][at[t]] # ABSENT
    BY <1>5 DEF MarkPage
  <2> QED
    BY <1>1, <1>2, <1>3, <2>1, <2>2, <2>3 DEF PageInv
<1>6. CASE LoseMarker(t)
  <2>1. \A u \in Threads, p \in Pages :
            Passed(u, p)' <=> Passed(u, p) \/ (u = t /\ p = at[t])
    BY <1>6, MarkedIsPassed DEF LoseMarker, program, forks
  <2>2. pages' = pages /\ kernel = "lossy" /\ pages[Target(t)][at[t]] # ABSENT
    BY <1>6 DEF LoseMarker
  <2> QED
    BY <1>1, <1>2, <1>3, <2>1, <2>2 DEF PageInv
<1>7. CASE Install(t)
  <2>1. \A u \in Threads, p \in Pages : Passed(u, p)' <=> Passed(u, p)
    BY <1>7, PassedMarker
  <2> DEFINE v0 == Faulting(t)
             p0 == at[t]
  <2>2. /\ v0 \in Views /\ p0 \in Pages
        /\ \A v \in Views, p \in Pages : ~(v = v0 /\ p = p0) => pages'[v][p] = pages[v][p]
        /\ pages'[v0][p0] # ABSENT
    BY <1>7, InstallIs
  <2>3. \/ pages[v0][p0] = ABSENT /\ pages'[v0][p0] = Zeros
        \/ pages[v0][p0] # ABSENT /\ pages'[v0][p0] = Zeros /\ kernel # "sound"
        \/ pages[v0][p0] # ABSENT /\ pages'[v0][p0] = pages[v0][p0]
    <3>1. CASE pages[v0][p0] = ABSENT
      <4>1. pages'[v0][p0] = Seen(FILE, p0)
        BY <1>7, <3>1, InstallIs
      <4>2. Seen(FILE, p0) = Zeros
        <5>1. v0 = FILE => pages[FILE][p0] = ABSENT
          BY <3>1
        <5>2. v0 # FILE => use_private
          BY DEF Faulting, Target
        <5>3. use_private /\ pages[FILE][p0] # ABSENT => pages[FILE][p0] = Zeros
          <6>1. SUFFICES ASSUME use_private, pages[FILE][p0] # ABSENT
                         PROVE  pages[FILE][p0] = Zeros
            OBVIOUS
          <6>2. FILE \in Views /\ p0 \in Pages /\ \A u \in Threads : Target(u) # FILE
            BY <2>2, <6>1, Targets, Numbers DEF TypeInv
          <6> HIDE DEF v0, p0
          <6>3. \A u \in Threads : pages[FILE][p0][u] = 0
            BY <1>2, <6>1, <6>2 DEF PageInv
          <6>4. pages[FILE][p0] \in Contents
            <7>1. pages[FILE][p0] \in Contents \cup {ABSENT}
              BY <6>2 DEF TypeInv
            <7> QED
              BY <6>1, <7>1
          <6> QED
            BY <6>3, <6>4 DEF Contents, Zeros
        <5> QED
          <6>1. FILE \in Views /\ p0 \in Pages
            BY <2>2, Numbers
          <6>2. pages \in [Views -> [Pages -> Contents \cup {ABSENT}]]
            BY DEF TypeInv
          <6> HIDE DEF v0, p0
          <6>3. /\ pages[FILE][p0] # ABSENT => Seen(FILE, p0) = pages[FILE][p0]
                /\ pages[FILE][p0] = ABSENT => Seen(FILE, p0) = Zeros
            BY <6>1, <6>2, SeenIs
          <6> QED
            BY <5>1, <5>2, <5>3, <6>3
      <4> QED
        BY <3>1, <4>1, <4>2
    <3>2. CASE pages[v0][p0] # ABSENT
      BY <1>7, <3>2, InstallIs
    <3> QED
      BY <3>1, <3>2
  <2> HIDE DEF v0, p0
  <2>4. \A u \in Threads : Zeros[u] = 0
    BY Numbers
  <2>5. ASSUME NEW v \in Views, NEW p \in Pages, NEW u \in Threads, pages'[v][p] # ABSENT
        PROVE  \/ pages'[v][p][u] = 0
               \/ pages'[v][p][u] = Id(u) /\ v = Target(u) /\ Passed(u, p)
    <3>1. CASE v = v0 /\ p = p0
      BY <1>2, <2>3, <2>4, <2>5, <3>1 DEF PageInv
    <3>2. CASE ~(v = v0 /\ p = p0)
      BY <1>2, <2>2, <2>5, <3>2 DEF PageInv
    <3> QED
      BY <3>1, <3>2
  <2>6. ASSUME NEW u \in Threads, NEW p \in Pages, Passed(u, p)
        PROVE  /\ pages'[Target(u)][p] # ABSENT
               /\ kernel = "sound" => pages'[Target(u)][p][u] = Id(u)
    <3>1. pages[Target(u)][p] # ABSENT /\ (kernel = "sound" => pages[Target(u)][p][u] = Id(u))
      BY <1>2, <2>6 DEF PageInv
    <3>2. CASE Target(u) = v0 /\ p = p0
      BY <2>2, <2>3, <3>1, <3>2
    <3>3. CASE ~(Target(u) = v0 /\ p = p0)
      BY <1>3, <2>2, <3>1, <3>3
    <3> QED
      BY <3>2, <3>3
  <2> QED
    BY <1>1, <1>3, <2>1, <2>5, <2>6 DEF PageInv
<1> QED
  BY <1>4, <1>5, <1>6, <1>7 DEF Marker

-----------------------------------------------------------------------------
(* No false alarms *)

(* What main and the children find under a sound kernel. *)
LEMMA AllAsExpected ==
    ASSUME TypeInv, StageInv, PageInv, kernel = "sound", ~missing,
           mpc \in {"verify", "verify file"}
    PROVE  /\ verify_mapping(ParentView, [t \in Threads |-> tid(t)]) = 0
           /\ use_private => verify_mapping(FILE, Zeros) = 0
<1>1. Testing /\ failed = {} /\ \A t \in Threads, p \in Pages : Passed(t, p)
  BY DEF StageInv, Testing, Passed
<1>2. FILE \in Views /\ PARENT \in Views /\ FILE # PARENT
      /\ \A t \in Threads : Zeros[t] = 0 /\ t # PARENT
  BY Numbers
<1>3. \A t \in Threads :
          /\ Target(t) \in Views /\ ParentView \in Views
          /\ use_private => Target(t) # FILE
          /\ ~(use_fork /\ use_private) => Target(t) = ParentView
          /\ use_fork /\ use_private => Target(t) = t /\ ParentView = PARENT
  BY Targets DEF TypeInv
<1>4. \A v \in Views, p \in Pages :
          /\ pages[v][p] # ABSENT => Seen(v, p) = pages[v][p]
          /\ pages[v][p] = ABSENT => Seen(v, p) =
                 IF pages[FILE][p] = ABSENT THEN Zeros ELSE pages[FILE][p]
  BY SeenIs DEF TypeInv
<1>5. ASSUME use_private, NEW p \in Pages, NEW t \in Threads
      PROVE  pages[FILE][p] # ABSENT => pages[FILE][p][t] = 0
  <2>1. Target(t) # FILE /\ FILE \in Views
    BY <1>2, <1>3, <1>5
  <2>2. Testing
    BY <1>1
  <2> QED
    BY <2>1, <2>2 DEF PageInv
<1>6. ASSUME NEW p \in Pages, NEW t \in Threads
      PROVE  Seen(ParentView, p)[t] = tid(t)
  <2>1. CASE use_fork /\ use_private
    <3>1. tid(t) = 0 /\ ParentView = PARENT /\ Target(t) # PARENT
      BY <1>2, <1>3, <2>1 DEF tid
    <3>2. pages[PARENT][p] # ABSENT => pages[PARENT][p][t] = 0
      BY <1>1, <1>2, <3>1 DEF PageInv
    <3> QED
      BY <1>2, <1>4, <1>5, <2>1, <3>1, <3>2
  <2>2. CASE ~(use_fork /\ use_private)
    <3>1. tid(t) = Id(t) /\ Target(t) = ParentView
      BY <1>1, <1>3, <2>2 DEF tid
    <3>2. pages[Target(t)][p] # ABSENT /\ pages[Target(t)][p][t] = Id(t)
      BY <1>1 DEF PageInv
    <3> QED
      BY <1>3, <1>4, <3>1, <3>2
  <2> QED
    BY <2>1, <2>2
<1>7. ASSUME use_private, NEW p \in Pages, NEW t \in Threads
      PROVE  Seen(FILE, p)[t] = Zeros[t]
  <2>1. FILE \in Views /\ Zeros[t] = 0
    BY <1>2
  <2>2. /\ pages[FILE][p] # ABSENT => Seen(FILE, p) = pages[FILE][p]
        /\ pages[FILE][p] = ABSENT => Seen(FILE, p) = Zeros
    BY <1>4, <2>1
  <2>3. pages[FILE][p] # ABSENT => pages[FILE][p][t] = 0
    BY <1>5, <1>7
  <2> QED
    BY <2>1, <2>2, <2>3
<1> QED
  BY <1>6, <1>7, VerifyFinds

(* What a child with a private mapping finds under a sound kernel. *)
LEMMA OwnAsExpected ==
    ASSUME TypeInv, StageInv, PageInv, kernel = "sound", NEW t \in Threads, pc[t] = "verify"
    PROVE  verify_mapping(t, [u \in Threads |-> IF u = t THEN Id(t) ELSE 0]) = 0
<1>1. Testing /\ use_fork /\ use_private /\ \A p \in Pages : Passed(t, p)
  BY DEF StageInv, Testing, Passed
<1>2. t \in Views /\ \A u \in Threads : Target(u) = u
  BY <1>1, Targets, Numbers DEF TypeInv
<1>3. ASSUME NEW p \in Pages, NEW u \in Threads
      PROVE  Seen(t, p)[u] = IF u = t THEN Id(t) ELSE 0
  <2>1. pages[t][p] # ABSENT /\ pages[t][p][t] = Id(t)
    BY <1>1, <1>2 DEF PageInv
  <2>2. Seen(t, p) = pages[t][p]
    BY <1>2, <2>1, SeenIs DEF TypeInv
  <2>3. u # t => pages[t][p][u] = 0
    BY <1>1, <1>2, <2>1 DEF PageInv
  <2> QED
    BY <2>1, <2>2, <2>3
<1> QED
  BY <1>3, VerifyFinds

(* With a sound kernel and every marker started, main finds nothing wrong. *)
LEMMA AlarmStep ==
    ASSUME TypeInv, StageInv, PageInv, AlarmInv, Main \/ \E t \in Threads : Marker(t)
    PROVE  AlarmInv'
<1> SUFFICES ASSUME kernel' = "sound", ~missing'
             PROVE  ~detected' /\ (mpc' = "verify file" => errcnt' = 0)
  BY DEF AlarmInv
<1>1. kernel = "sound" /\ ~missing /\ ~detected /\ (mpc = "verify file" => errcnt = 0)
  <2>1. kernel' = kernel
    BY WaitIs DEF Main, CreateFile, Mmap, StartThread, ForkFails, Verify, VerifyFile,
       StopOnError, GoOn, Marker, PrefaultPage, MarkPage, VerifyOwn, Fault, Install, LoseMarker,
       program
  <2>2. missing' = missing \/ missing'
    BY WaitIs DEF Main, CreateFile, Mmap, StartThread, ForkFails, Verify, VerifyFile,
       StopOnError, GoOn, Marker, PrefaultPage, MarkPage, VerifyOwn, Fault, Install, LoseMarker,
       forks
  <2>3. kernel = "sound"
    BY <2>1
  <2>4. ~missing
    BY <2>2, Zenon
  <2> QED
    BY <2>3, <2>4, Zenon DEF AlarmInv
<1>2. CASE Verify
  <2>1. mpc = "verify" /\ errcnt' = verify_mapping(ParentView, [t \in Threads |-> tid(t)])
        /\ detected' = (detected \/ errcnt' > 0)
    BY <1>2 DEF Verify, At
  <2>2. verify_mapping(ParentView, [t \in Threads |-> tid(t)]) = 0
    BY <1>1, <2>1, AllAsExpected, Zenon
  <2>3. errcnt' = 0 /\ ~(0 > 0)
    BY <2>1, <2>2
  <2> QED
    BY <1>1, <2>1, <2>3, Zenon
<1>3. CASE VerifyFile
  <2>1. mpc = "verify file" /\ detected' = (detected \/ errcnt' > 0)
    BY <1>3 DEF VerifyFile, At
  <2>2. use_private => verify_mapping(FILE, Zeros) = 0
    BY <1>1, <2>1, AllAsExpected, Zenon
  <2>3. errcnt' = 0 /\ ~(0 > 0)
    <3>1. errcnt = 0
      BY <1>1, <2>1, Zenon
    <3>2. errcnt' = errcnt + IF use_private THEN verify_mapping(FILE, Zeros) ELSE 0
      BY <1>3 DEF VerifyFile
    <3> QED
      BY <2>2, <3>1, <3>2
  <2>4. mpc' # "verify file"
    BY <1>3 DEF VerifyFile, At
  <2> QED
    BY <1>1, <2>1, <2>3, <2>4, Zenon
<1>4. ASSUME NEW t \in Threads, VerifyOwn(t)
      PROVE  ~detected' /\ (mpc' = "verify file" => errcnt' = 0)
  <2>1. pc[t] = "verify" /\ UNCHANGED <<mpc, errcnt>> /\ detected' = (detected \/ errors'[t] > 0)
    BY <1>4 DEF VerifyOwn
  <2>2. verify_mapping(t, [u \in Threads |-> IF u = t THEN Id(t) ELSE 0]) = 0
    BY <1>1, <2>1, OwnAsExpected, Zenon
  <2>3. errors'[t] = 0 /\ ~(0 > 0)
    <3>1. errors' = [errors EXCEPT ![t] =
              verify_mapping(t, [u \in Threads |-> IF u = t THEN Id(t) ELSE 0])]
      BY <1>4 DEF VerifyOwn
    <3>2. errors \in [Threads -> Nat]
      BY DEF TypeInv
    <3>3. errors'[t] = 0
      BY <2>2, <3>1, <3>2
    <3> QED
      BY <3>3
  <2> QED
    BY <1>1, <2>1, <2>3, Zenon
<1>5. CASE CreateFile \/ Mmap \/ StopOnError \/ GoOn
  <2>1. detected' = detected
    BY <1>5 DEF CreateFile, Mmap, StopOnError, GoOn, results
  <2>2. mpc' # "verify file"
    BY <1>5 DEF CreateFile, Mmap, StopOnError, GoOn, At
  <2> QED
    BY <1>1, <2>1, <2>2, Zenon
<1>6. CASE StartThread \/ ForkFails
  <2>1. ForEach("start", "wait") /\ detected' = detected
    BY <1>6 DEF StartThread, ForkFails, results
  <2>2. mpc' # "verify file"
    BY <2>1 DEF ForEach
  <2> QED
    BY <1>1, <2>1, <2>2, Zenon
<1>7. CASE Wait
  <2>1. ForEach("wait", "verify") /\ detected' = detected
    BY <1>7, WaitIs
  <2>2. mpc' # "verify file"
    BY <2>1 DEF ForEach
  <2> QED
    BY <1>1, <2>1, <2>2, Zenon
<1>8. ASSUME NEW t \in Threads,
             PrefaultPage(t) \/ MarkPage(t) \/ Fault(t) \/ Install(t) \/ LoseMarker(t)
      PROVE  ~detected' /\ (mpc' = "verify file" => errcnt' = 0)
  <2>1. UNCHANGED <<mpc, errcnt, detected>>
    BY <1>8 DEF PrefaultPage, MarkPage, Fault, Install, LoseMarker, results
  <2> QED
    BY <1>1, <2>1, Zenon
<1> QED
  BY <1>2, <1>3, <1>4, <1>5, <1>6, <1>7, <1>8 DEF Main, Marker

-----------------------------------------------------------------------------
(* No loss unnoticed *)

(* Verify finds what there is to find. *)
LEMMA TroubleIsFound ==
    ASSUME TypeInv, StageInv, PageInv, mpc = "verify", ~(use_fork /\ use_private), Trouble
    PROVE  verify_mapping(ParentView, [t \in Threads |-> tid(t)]) > 0
<1>1. \A t \in Threads : ParentView \in Views /\ Target(t) = ParentView
  BY Targets DEF TypeInv
<1>2. \A t \in Threads : Passed(t, 0) \/ t \in failed
  BY DEF StageInv, Passed
<1>3. Testing
  BY DEF Testing
<1>4. \E p \in Pages, t \in Threads : Seen(ParentView, p)[t] # tid(t)
  <2>1. CASE failed # {}
    <3>1. PICK t \in Threads : t \in failed
      BY <2>1 DEF TypeInv
    <3>2. tid(t) = -1
      BY <3>1 DEF tid
    <3>3. Seen(ParentView, 0) \in Contents
      BY <1>1, <3>1, Numbers, SeenIs DEF TypeInv
    <3>4. Seen(ParentView, 0)[t] \in 0 .. THREADS /\ THREADS \in Nat
      BY <3>3, Numbers DEF Contents
    <3> QED
      BY <3>2, <3>4, Numbers
  <2>2. CASE failed = {}
    <3>1. PICK t \in Threads, p \in Pages : Passed(t, p) /\ pages[ParentView][p][t] # Id(t)
      BY <2>2 DEF Trouble
    <3>2. pages[ParentView][p] # ABSENT
      BY <1>1, <1>3, <3>1 DEF PageInv
    <3>3. Seen(ParentView, p) = pages[ParentView][p]
      BY <1>1, <3>2, SeenIs DEF TypeInv
    <3>4. tid(t) = Id(t)
      BY <2>2 DEF tid
    <3> QED
      BY <3>1, <3>3, <3>4
  <2> QED
    BY <2>1, <2>2
<1>5. verify_mapping(ParentView, [t \in Threads |-> tid(t)]) \in Nat
      /\ verify_mapping(ParentView, [t \in Threads |-> tid(t)]) # 0
  BY <1>4, VerifyFinds
<1> QED
  BY <1>5

(* What is wrong stays wrong until main looks for it, *)
LEMMA TroubleStays ==
    ASSUME TypeInv, StageInv, PageInv, ~(use_fork /\ use_private), Trouble,
           \/ StartThread \/ ForkFails \/ Wait
           \/ mpc \in {"start", "wait"} /\ \E t \in Threads : Marker(t)
    PROVE  Trouble'
<1>1. ParentView' = ParentView /\ failed \subseteq failed'
  BY WaitIs DEF ParentView, use_private, StartThread, ForkFails, Marker, PrefaultPage, MarkPage,
     VerifyOwn, Fault, Install, LoseMarker, program, forks
<1>2. CASE failed # {}
  BY <1>1, <1>2 DEF Trouble
<1>3. CASE failed = {}
  <2>1. PICK u \in Threads, p \in Pages : Passed(u, p) /\ pages[ParentView][p][u] # Id(u)
    BY <1>3 DEF Trouble
  <2>2. CASE StartThread \/ ForkFails \/ Wait
    <3>1. Passed(u, p)'
      BY <2>1, <2>2, PassedMain
    <3>2. pages' = pages
      BY <2>2, WaitIs DEF StartThread, ForkFails
    <3> QED
      BY <1>1, <2>1, <3>1, <3>2 DEF Trouble, Id
  <2>3. ASSUME NEW t \in Threads, Marker(t), mpc \in {"start", "wait"} PROVE Trouble'
    <3>1. Testing
      BY <2>3 DEF Testing
    <3>2. Target(u) = ParentView /\ ParentView \in Views
      BY Targets DEF TypeInv
    <3>3. pages[ParentView][p] # ABSENT
      BY <2>1, <3>1, <3>2 DEF PageInv
    <3>4. Passed(u, p)' /\ pages'[ParentView][p][u] # Id(u)
      <4>1. CASE PrefaultPage(t) \/ VerifyOwn(t) \/ Fault(t)
        <5>1. pages' = pages
          BY <4>1 DEF PrefaultPage, VerifyOwn, Fault
        <5> QED
          BY <2>1, <4>1, <5>1, PassedMarker
      <4>2. CASE MarkPage(t)
        <5>1. Passed(u, p)'
          BY <2>1, <4>2, MarkedIsPassed DEF MarkPage, program, forks
        <5>2. ~(u = t /\ p = at[t])
          <6>1. pc[t] = "mark" /\ at[t] \in Nat
            BY <4>2, Numbers DEF MarkPage, TypeInv
          <6>2. u = t => p < at[t]
            BY <2>1, <6>1 DEF Passed
          <6> QED
            BY <6>1, <6>2
        <5> QED
          BY <2>1, <3>2, <3>3, <4>2, <5>1, <5>2, MarkPageIs
      <4>3. CASE LoseMarker(t)
        <5>1. Passed(u, p)'
          BY <2>1, <4>3, MarkedIsPassed DEF LoseMarker, program, forks
        <5>2. pages' = pages
          BY <4>3 DEF LoseMarker
        <5> QED
          BY <2>1, <5>1, <5>2
      <4>4. CASE Install(t)
        <5>1. Passed(u, p)'
          BY <2>1, <4>4, PassedMarker
        <5>2. \/ pages'[ParentView][p] = pages[ParentView][p]
              \/ pages'[ParentView][p] = Zeros
          BY <3>2, <3>3, <4>4, InstallIs
        <5> QED
          BY <2>1, <5>1, <5>2, Numbers
      <4> QED
        BY <2>3, <4>1, <4>2, <4>3, <4>4 DEF Marker
    <3> QED
      BY <1>1, <3>4 DEF Trouble, Id
  <2> QED
    BY <2>2, <2>3
<1> QED
  BY <1>2, <1>3

(* and a marker that gets lost is wrong.                                   *)
LEMMA LossIsTrouble ==
    ASSUME TypeInv, StageInv, PageInv, ~(use_fork /\ use_private), NEW t \in Threads,
           Install(t) \/ LoseMarker(t), lost' # lost
    PROVE  Trouble'
<1>1. Testing
  <2>1. pc[t] # "none"
    BY DEF Install, LoseMarker
  <2> QED
    BY <2>1 DEF StageInv, Testing
<1>2. ParentView' = ParentView /\ \A u \in Threads : Target(u) = ParentView /\ ParentView \in Views
  BY Targets DEF TypeInv, ParentView, use_private, Install, LoseMarker, program
<1>3. PICK p \in Pages : p = at[t]
  BY DEF TypeInv
<1>4. CASE LoseMarker(t)
  <2>1. Passed(t, p)'
    BY <1>4, <1>3, MarkedIsPassed DEF LoseMarker, program, forks
  <2>2. pages' = pages /\ pages[ParentView][p] # ABSENT
    BY <1>2, <1>4, <1>3 DEF LoseMarker
  <2>3. ~Passed(t, p)
    <3>1. pc[t] = "mark" /\ p \in Nat
      BY <1>4, Numbers DEF LoseMarker
    <3> QED
      BY <1>3, <3>1 DEF Passed
  <2>4. pages[ParentView][p][t] = 0
    BY <1>1, <1>2, <2>1, <2>2, <2>3 DEF PageInv
  <2>5. pages'[ParentView'][p][t] # Id(t)
    BY <1>2, <2>2, <2>4, Numbers
  <2> QED
    BY <2>1, <2>5 DEF Trouble, Id
<1>5. CASE Install(t)
  <2>0. /\ Faulting(t) \in Views
        /\ IF pages[Faulting(t)][p] = ABSENT
           THEN pages'[Faulting(t)][p] = Seen(FILE, p) /\ lost' = lost
           ELSE IF kernel = "racy"
           THEN /\ pages'[Faulting(t)][p] = Zeros
                /\ lost' = (lost \/ pages[Faulting(t)][p] # Zeros)
           ELSE pages'[Faulting(t)][p] = pages[Faulting(t)][p] /\ lost' = lost
    BY <1>5, <1>3, InstallIs
  <2>1. /\ pages[Faulting(t)][p] # ABSENT /\ pages[Faulting(t)][p] # Zeros
        /\ pages'[Faulting(t)][p] = Zeros
    <3>1. lost \in BOOLEAN
      BY DEF TypeInv
    <3> QED
      BY <2>0, <3>1, Zenon
  <2>2. pages[Faulting(t)][p] \in Contents
    <3>1. pages[Faulting(t)][p] \in Contents \cup {ABSENT}
      BY <2>0 DEF TypeInv
    <3> QED
      BY <2>1, <3>1
  <2>3. PICK u \in Threads : pages[Faulting(t)][p][u] # 0
    BY <2>1, <2>2 DEF Contents, Zeros
  <2>4. Faulting(t) = Target(u) /\ Passed(u, p)
    BY <1>1, <2>0, <2>1, <2>3 DEF PageInv
  <2>5. Passed(u, p)'
    BY <1>5, <2>4, PassedMarker
  <2>6. pages'[ParentView'][p][u] # Id(u)
    BY <1>2, <2>1, <2>4, Numbers
  <2> QED
    BY <2>1, <2>5, <2>6 DEF Trouble, Id
<1> QED
  BY <1>4, <1>5

(* A lost or missing marker stays trouble to be found until it is counted. *)
LEMMA LossStep ==
    ASSUME TypeInv, StageInv, PageInv, LossInv, Main \/ \E t \in Threads : Marker(t)
    PROVE  LossInv'
<1> SUFFICES ASSUME ~(use_fork /\ use_private)', lost' \/ missing', ~(toterr' > 0)
             PROVE  \/ mpc' \in {"start", "wait", "verify"} /\ Trouble'
                    \/ mpc' \in {"verify file", "result"} /\ errcnt' > 0
  BY DEF LossInv
<1>1. ~(use_fork /\ use_private)
  <2>1. opt' = opt
    BY WaitIs DEF Main, CreateFile, Mmap, StartThread, ForkFails, Verify, VerifyFile,
       StopOnError, GoOn, Marker, PrefaultPage, MarkPage, VerifyOwn, Fault, Install, LoseMarker,
       program
  <2> QED
    BY <2>1 DEF use_fork, use_private
<1>2. toterr \in Nat /\ errcnt \in Nat
  BY DEF TypeInv
<1>3. CASE CreateFile \/ Mmap \/ Verify \/ VerifyFile \/ StopOnError \/ GoOn
  <2>1. lost \/ missing
    BY <1>3 DEF CreateFile, Mmap, Verify, VerifyFile, StopOnError, GoOn, forks
  <2>2. toterr' = toterr \/ toterr' = toterr + errcnt
    BY <1>3 DEF CreateFile, Mmap, Verify, VerifyFile, StopOnError, GoOn, results
  <2>3. ~(toterr > 0)
    BY <1>2, <2>2
  <2>4. \/ mpc \in {"start", "wait", "verify"} /\ Trouble
        \/ mpc \in {"verify file", "result"} /\ errcnt > 0
    BY <1>1, <2>1, <2>3, Zenon DEF LossInv
  <2>5. CASE CreateFile \/ Mmap
    BY <2>4, <2>5 DEF CreateFile, Mmap, At
  <2>6. CASE Verify
    <3>1. mpc = "verify" /\ mpc' = "verify file"
          /\ errcnt' = verify_mapping(ParentView, [t \in Threads |-> tid(t)])
      BY <2>6 DEF Verify, At
    <3>2. Trouble
      BY <2>4, <3>1
    <3> QED
      BY <1>1, <3>1, <3>2, TroubleIsFound
  <2>7. CASE VerifyFile
    <3>1. mpc = "verify file" /\ mpc' = "result"
      BY <2>7 DEF VerifyFile, At
    <3>2. errcnt > 0
      BY <2>4, <3>1
    <3>3. errcnt' = errcnt + 0 \/ errcnt' = errcnt + verify_mapping(FILE, Zeros)
      BY <2>7 DEF VerifyFile
    <3>4. errcnt' > 0
      BY <1>2, <3>2, <3>3, VerifyFinds
    <3> QED
      BY <3>1, <3>4
  <2>8. CASE StopOnError \/ GoOn
    <3>1. mpc = "result" /\ toterr' = toterr + errcnt
      BY <2>8 DEF StopOnError, GoOn, At
    <3>2. errcnt > 0
      BY <2>4, <3>1
    <3>3. toterr' > 0
      BY <1>2, <3>1, <3>2
    <3> QED
      BY <3>3
  <2> QED
    BY <1>3, <2>5, <2>6, <2>7, <2>8
<1>4. CASE StartThread \/ ForkFails \/ Wait
  <2>1. mpc \in {"start", "wait"} /\ mpc' \in {"start", "wait", "verify"}
        /\ toterr' = toterr /\ lost' = lost
    <3>1. ForEach("start", "wait") \/ ForEach("wait", "verify")
      BY <1>4, WaitIs DEF StartThread, ForkFails
    <3>2. mpc \in {"start", "wait"} /\ mpc' \in {"start", "wait", "verify"}
      BY <3>1 DEF ForEach
    <3> QED
      BY <1>4, <3>2, WaitIs DEF StartThread, ForkFails, results
  <2>2. CASE ForkFails
    <3>1. failed' # {}
      BY <2>2 DEF ForkFails
    <3> QED
      BY <2>1, <3>1 DEF Trouble
  <2>3. CASE StartThread \/ Wait
    <3>1. missing' = missing
      BY <2>3, WaitIs DEF StartThread, forks
    <3>2. lost \/ missing
      BY <2>1, <3>1
    <3>3. Trouble
      <4>1. ~(toterr > 0) /\ mpc \notin {"verify file", "result"}
        BY <2>1
      <4> QED
        BY <1>1, <3>2, <4>1, Zenon DEF LossInv
    <3>4. Trouble'
      BY <1>1, <2>3, <3>3, TroubleStays
    <3> QED
      BY <2>1, <3>4
  <2> QED
    BY <1>4, <2>2, <2>3
<1>5. ASSUME NEW t \in Threads, Marker(t)
      PROVE  mpc' \in {"start", "wait", "verify"} /\ Trouble'
  <2>1. pc[t] # "none" /\ UNCHANGED <<mpc, toterr, missing>>
    BY <1>5 DEF Marker, PrefaultPage, MarkPage, VerifyOwn, Fault, Install, LoseMarker, results, forks
  <2>2. mpc \in {"start", "wait"}
    BY <2>1 DEF StageInv
  <2>3. CASE lost \/ missing
    <3>1. Trouble
      BY <1>1, <2>1, <2>2, <2>3 DEF LossInv
    <3> QED
      BY <1>1, <1>5, <2>1, <2>2, <3>1, TroubleStays
  <2>4. CASE ~(lost \/ missing)
    <3>1. lost' # lost
      BY <2>1, <2>4
    <3>2. Install(t) \/ LoseMarker(t)
      BY <1>5, <3>1 DEF Marker, PrefaultPage, MarkPage, VerifyOwn, Fault
    <3> QED
      BY <1>1, <2>1, <2>2, <3>1, <3>2, LossIsTrouble
  <2> QED
    BY <2>3, <2>4
<1> QED
  BY <1>3, <1>4, <1>5 DEF Main

-----------------------------------------------------------------------------

(* The test starts with an empty file and no markers. *)
LEMMA Initially == Init => IInv
<1> SUFFICES ASSUME Init PROVE IInv
  OBVIOUS
<1>1. TypeInv
  <2>1. pages \in [Views -> [Pages -> Contents \cup {ABSENT}]]
    BY DEF Init
  <2>2. mi \in Threads /\ at \in [Threads -> Pages]
    BY Numbers DEF Init
  <2>3. pc \in [Threads -> {"none", "prefault", "reading", "mark", "writing", "verify", "done"}]
        /\ errors \in [Threads -> Nat]
    BY DEF Init
  <2>4. /\ opt \in Options /\ kernel \in Kernels
        /\ test = 1 /\ mpc = "create" /\ errcnt = 0 /\ toterr = 0 /\ status = -1 /\ failed = {}
    BY DEF Init
  <2>5. exists \in BOOLEAN /\ lost \in BOOLEAN /\ missing \in BOOLEAN /\ detected \in BOOLEAN
    BY DEF Init
  <2> QED
    BY <2>1, <2>2, <2>3, <2>4, <2>5 DEF TypeInv
<1>2. StageInv
  BY DEF Init, StageInv
<1>3. PageInv /\ AlarmInv /\ LossInv
  BY DEF Init, PageInv, Testing, AlarmInv, LossInv
<1> QED
  BY <1>1, <1>2, <1>3 DEF IInv

(* Every step keeps the invariant. *)
LEMMA Step == IInv /\ [Next]_vars => IInv'
<1> SUFFICES ASSUME IInv, [Next]_vars PROVE IInv'
  OBVIOUS
<1>1. TypeInv /\ StageInv /\ PageInv /\ AlarmInv /\ LossInv
  BY DEF IInv
<1>2. CASE Main
  BY <1>1, <1>2, TypeMain, StageMain, PageMain, AlarmStep, LossStep DEF IInv
<1>3. ASSUME NEW t \in Threads, Marker(t) PROVE IInv'
  BY <1>1, <1>3, TypeMarker, StageMarker, PageMarker, AlarmStep, LossStep DEF IInv
<1>4. CASE UNCHANGED vars
  <2> USE DEF vars, program, results, forks
  <2>1. TypeInv'
    BY <1>1, <1>4 DEF TypeInv
  <2>2. StageInv'
    BY <1>1, <1>4 DEF StageInv, use_fork, use_private
  <2>3. PageInv'
    <3>1. \A t \in Threads : Target(t)' = Target(t)
      BY <1>4 DEF Target, use_wr, use_fork, use_private
    <3>2. \A t \in Threads, p \in Pages : Passed(t, p)' <=> Passed(t, p)
      BY <1>4 DEF Passed
    <3>3. UNCHANGED <<kernel, pages>> /\ (Testing' <=> Testing)
      BY <1>4 DEF Testing
    <3>4. CASE Testing
      BY <1>1, <3>1, <3>2, <3>3, <3>4 DEF PageInv
    <3>5. CASE ~Testing
      BY <3>3, <3>5 DEF PageInv
    <3> QED
      BY <3>4, <3>5
  <2>4. AlarmInv'
    BY <1>1, <1>4 DEF AlarmInv
  <2>5. LossInv'
    BY <1>1, <1>4 DEF LossInv, Trouble, Passed, ParentView, use_fork, use_private, Id
  <2> QED
    BY <2>1, <2>2, <2>3, <2>4, <2>5 DEF IInv
<1> QED
  BY <1>2, <1>3, <1>4 DEF Next

(* Everything the test does keeps to the invariant: in particular a marker *)
(* is only ever in the view that its thread or process writes to, on pages *)
(* that the thread is past (holetest.c:94-140,200-270).                    *)
THEOREM Invariance == Spec => []IInv
BY Initially, Step, PTL DEF Spec

(* For any number of threads and pages, no sound kernel is blamed as long  *)
(* as every fork succeeds (holetest.c:94-140,208,231-264).                 *)
THEOREM SoundKernelsPass == Spec => []NoFalseAlarm
<1>1. IInv => NoFalseAlarm
  BY DEF IInv, AlarmInv, NoFalseAlarm
<1> QED
  BY <1>1, Invariance, PTL

(* For any number of threads and pages, a run that ends in success has     *)
(* lost no marker and made every thread, but for processes with private    *)
(* mappings (holetest.c:208,242-264,382-383,455-456).                      *)
THEOREM LossesAreReported == Spec => []LossReported
<1>1. IInv => LossReported
  BY DEF IInv, TypeInv, StageInv, LossInv, LossReported
<1> QED
  BY <1>1, Invariance, PTL
=============================================================================
