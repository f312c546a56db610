--------------------------- MODULE CatalogueProofs ---------------------------
(***************************************************************************)
(* The schedule, for any number of movies, theatres, showtimes and         *)
(* requests in flight, and seat grids of any size.                         *)
(***************************************************************************)
EXTENDS Catalogue, TLAPS

-----------------------------------------------------------------------------
(* The invariant.                                                           *)

\* A task that writes a showtime.
SlotTask == [pc : {"check", "save"}, id : Showtimes, row : Showtime,
             duration : Durations, checked : BOOLEAN, raced : BOOLEAN]

Writes(t) == t.pc \in {"check", "save"}

\* The movie of a task that was not overtaken is as long as the task thinks.
LengthKept(t, M) == Writes(t) /\ ~t.raced => M[t.row.movie] \in {None, t.duration}

\* The slot of row, of a movie that takes duration, meets the one of showtime u,
\* when the tables are M and S.
Meets(row, duration, u, M, S) ==
  /\ S[u] # None /\ S[u].theater = row.theater
  /\ overlaps(row.startsAt, endOf(row.startsAt, duration),
              S[u].startsAt, endOf(S[u].startsAt, M[S[u].movie]))

\* What a task that was checked in time will write meets suspects only.
Vouched(t, M, S, X) ==
  t.pc = "save" /\ t.checked /\ ~t.raced =>
    \A u \in Showtimes \ {t.id} : Meets(t.row, t.duration, u, M, S) => u \in X

TasksSound ==
  \A w \in Workers : LengthKept(task[w], movies) /\ Vouched(task[w], movies, showtimes, suspect)

Inv == TypeOK /\ ShowtimesComplete /\ TasksSound /\ ScheduleSound

-----------------------------------------------------------------------------
(* Tasks.                                                                   *)

\* A task that is overtaken stays what it is but for that.
LEMMA RacedTask ==
  ASSUME NEW t \in SlotTask
  PROVE  LET r == [t EXCEPT !.raced = TRUE] IN r \in SlotTask /\ r.raced /\ r.pc = t.pc
BY DEF SlotTask

\* A task that passed its check stays what it is but for that.
LEMMA PassedTask ==
  ASSUME NEW t \in SlotTask
  PROVE  LET r == [t EXCEPT !.pc = "save"] IN
         /\ r \in SlotTask /\ r.pc = "save" /\ r.raced = t.raced /\ r.checked = t.checked
         /\ r.row = t.row /\ r.id = t.id /\ r.duration = t.duration
BY DEF SlotTask

\* The kinds of tasks are told apart by their pc.
LEMMA TaskKinds ==
  ASSUME NEW t \in Task \cup {Idle}
  PROVE  /\ Writes(t) => t \in SlotTask
         /\ t.pc \in {"saveMovie", "removeMovie"} => t.movie \in Movies /\ t.duration \in Durations
         /\ t.pc \in {"saveSeats", "saveTheater"} => t.theater \in Theaters /\ t.layout \in Layout
         /\ ~Writes(Idle)
BY DEF Task, Idle, SlotTask, Writes

\* What is idle or writes no showtime promises nothing.
LEMMA NothingPromised ==
  ASSUME NEW t, ~Writes(t), NEW M, NEW S, NEW X
  PROVE  LengthKept(t, M) /\ Vouched(t, M, S, X)
BY DEF Writes, LengthKept, Vouched

\* An overtaken task promises nothing either.
LEMMA RacedPromisesNothing ==
  ASSUME NEW t, t.raced, NEW M, NEW S, NEW X
  PROVE  LengthKept(t, M) /\ Vouched(t, M, S, X)
BY DEF LengthKept, Vouched

-----------------------------------------------------------------------------
(* The overlap rule.                                                        *)

\* The window loses nothing: a check that finds no overlap among the candidates
\* tells that there is none (assertNoOverlap).
LEMMA WindowSound ==
  ASSUME TimeAssumption, TypeOK, ShowtimesComplete,
         NEW id \in Showtimes, NEW row \in Showtime, NEW duration \in Durations,
         NoOverlapFound(id, row, duration),
         NEW u \in Showtimes \ {id}
  PROVE  ~Meets(row, duration, u, movies, showtimes)
<1> SUFFICES ASSUME Meets(row, duration, u, movies, showtimes) PROVE FALSE
  OBVIOUS
<1>1. u \in Booked /\ showtimes[u] \in Showtime /\ showtimes[u].theater = row.theater
  BY DEF Meets, Booked, TypeOK
<1>2. movies[showtimes[u].movie] \in Durations
  BY <1>1 DEF ShowtimesComplete, TypeOK, Showtime
<1>3. /\ row.startsAt \in Int /\ showtimes[u].startsAt \in Int
      /\ movies[showtimes[u].movie] \in 0 .. OVERLAP_WINDOW_MIN
      /\ duration \in 0 .. OVERLAP_WINDOW_MIN
      /\ OVERLAP_WINDOW_MIN \in Nat
  BY <1>1, <1>2 DEF TimeAssumption, Showtime
<1>4. overlaps(row.startsAt, endOf(row.startsAt, duration), showtimes[u].startsAt,
               endOf(showtimes[u].startsAt, movies[showtimes[u].movie]))
  BY DEF Meets
<1>5. u \in Candidates(row.theater, row.startsAt, duration)
  BY <1>1, <1>3, <1>4 DEF Candidates, overlaps, endOf
<1> QED BY <1>4, <1>5 DEF NoOverlapFound

\* Two showtimes overlap as the slots of the one meets the other, either way.
LEMMA OverlappingMeets ==
  ASSUME NEW s \in Booked, NEW u \in Booked, Overlapping(s, u)
  PROVE  /\ Meets(showtimes[s], movies[showtimes[s].movie], u, movies, showtimes)
         /\ Meets(showtimes[u], movies[showtimes[u].movie], s, movies, showtimes)
BY DEF Overlapping, Meets, Booked, overlaps

-----------------------------------------------------------------------------
(* Every step keeps the invariant.                                          *)

\* A step of one task that leaves the tables alone.
LEMMA TaskInv ==
  ASSUME Inv, NEW w \in Workers, NEW t \in Task \cup {Idle}, task' = [task EXCEPT ![w] = t],
         LengthKept(t, movies), Vouched(t, movies, showtimes, suspect),
         UNCHANGED <<movies, theaters, showtimes, suspect>>
  PROVE  Inv'
<1>1. /\ task' \in [Workers -> Task \cup {Idle}]
      /\ task'[w] = t /\ \A v \in Workers \ {w} : task'[v] = task[v]
  BY DEF Inv, TypeOK
<1>2. TypeOK'
  BY <1>1 DEF Inv, TypeOK
<1>3. TasksSound'
  <2>1. ASSUME NEW v \in Workers
        PROVE  LengthKept(task'[v], movies) /\ Vouched(task'[v], movies, showtimes, suspect)
    BY <1>1 DEF Inv, TasksSound
  <2> QED BY <2>1 DEF TasksSound
<1>4. ShowtimesComplete' /\ ScheduleSound'
  BY DEF Inv, ShowtimesComplete, ScheduleSound, Booked, Overlapping
<1> QED BY <1>2, <1>3, <1>4 DEF Inv

\* A task that writes no showtime, or none any more.
LEMMA OtherTaskInv ==
  ASSUME Inv, NEW w \in Workers, NEW t \in Task \cup {Idle}, ~Writes(t),
         task' = [task EXCEPT ![w] = t], UNCHANGED <<movies, theaters, showtimes, suspect>>
  PROVE  Inv'
BY NothingPromised, TaskInv

\* A task that is about to write a showtime, or to have it checked (create, update).
LEMMA SlotTaskInv ==
  ASSUME Inv, NEW w \in Workers, NEW s \in Showtimes, NEW row \in Showtime,
         movies[row.movie] # None, NEW pc \in {"check", "save"}, NEW checked \in BOOLEAN,
         pc = "save" => ~checked,
         Begin(w, [pc |-> pc, id |-> s, row |-> row, duration |-> movies[row.movie],
                   checked |-> checked, raced |-> FALSE])
  PROVE  Inv'
<1> DEFINE t == [pc |-> pc, id |-> s, row |-> row, duration |-> movies[row.movie],
                 checked |-> checked, raced |-> FALSE]
<1>1. movies[row.movie] \in Durations
  BY DEF Inv, TypeOK, Showtime
<1>2. t \in Task
  BY <1>1 DEF Task
<1>3. LengthKept(t, movies) /\ Vouched(t, movies, showtimes, suspect)
  BY DEF LengthKept, Vouched
<1>4. task' = [task EXCEPT ![w] = t] /\ UNCHANGED <<movies, theaters, showtimes, suspect>>
  BY DEF Begin
<1> HIDE DEF t
<1> QED BY <1>2, <1>3, <1>4, TaskInv

\* Requests about showtimes.
LEMMA ShowtimeRequestInv ==
  ASSUME Inv, NEW w \in Workers, ShowtimeRequest(w)
  PROVE  Inv'
<1>1. ASSUME NEW s \in Showtimes, TouchShowtime(w, s) PROVE Inv'
  <2>1. showtimes[s] \in Showtime /\ movies[showtimes[s].movie] # None
    BY <1>1 DEF TouchShowtime, Booked, Inv, TypeOK, ShowtimesComplete
  <2> QED BY <1>1, <2>1, SlotTaskInv DEF TouchShowtime
<1>2. ASSUME NEW s \in Showtimes, NEW row \in Showtime, CreateShowtime(w, s, row) PROVE Inv'
  BY <1>2, SlotTaskInv DEF CreateShowtime
<1>3. ASSUME NEW s \in Showtimes, NEW row \in Showtime, UpdateShowtime(w, s, row) PROVE Inv'
  <2> DEFINE checked == row.movie # showtimes[s].movie \/ row.startsAt # showtimes[s].startsAt
             pc == IF checked THEN "check" ELSE "save"
  <2>1. /\ Begin(w, [pc |-> pc, id |-> s, row |-> row, duration |-> movies[row.movie],
                     checked |-> checked, raced |-> FALSE])
        /\ movies[row.movie] # None
    BY <1>3 DEF UpdateShowtime
  <2>2. pc \in {"check", "save"} /\ checked \in BOOLEAN /\ (pc = "save" => ~checked)
    OBVIOUS
  <2> HIDE DEF pc, checked
  <2> QED BY <2>1, <2>2, SlotTaskInv
<1> QED BY <1>1, <1>2, <1>3 DEF ShowtimeRequest

\* assertNoOverlap.
LEMMA CheckSlotInv ==
  ASSUME TimeAssumption, Inv, NEW w \in Workers, CheckSlot(w)
  PROVE  Inv'
<1> DEFINE t == task[w]
           passed == [t EXCEPT !.pc = "save"]
<1>1. t \in SlotTask /\ LengthKept(t, movies) /\ t.pc = "check"
  BY TaskKinds DEF CheckSlot, Inv, TypeOK, TasksSound, Writes
<1>2. CASE NoOverlapFound(t.id, t.row, t.duration)
  <2>1. /\ task' = [task EXCEPT ![w] = passed]
        /\ UNCHANGED <<movies, theaters, showtimes, suspect>>
    BY <1>2 DEF CheckSlot
  <2>2. /\ passed \in SlotTask /\ passed.pc = "save" /\ passed.raced = t.raced
        /\ passed.row = t.row /\ passed.id = t.id /\ passed.duration = t.duration
    BY <1>1, PassedTask
  <2>3. t.id \in Showtimes /\ t.row \in Showtime /\ t.duration \in Durations
    BY <1>1 DEF SlotTask
  <2> HIDE DEF passed
  <2>4. LengthKept(passed, movies)
    BY <1>1, <2>2 DEF LengthKept, Writes
  <2>5. \A u \in Showtimes \ {t.id} : ~Meets(t.row, t.duration, u, movies, showtimes)
    BY <1>2, <2>3, WindowSound DEF Inv
  <2>6. Vouched(passed, movies, showtimes, suspect)
    BY <2>2, <2>5 DEF Vouched
  <2>7. passed \in Task
    BY <2>2 DEF SlotTask, Task
  <2> QED BY <2>1, <2>4, <2>6, <2>7, TaskInv
<1>3. CASE ~NoOverlapFound(t.id, t.row, t.duration)
  BY <1>3, TaskKinds, OtherTaskInv DEF CheckSlot
<1> QED BY <1>2, <1>3

\* A worker is done, and the tasks in O, all of which write a showtime, are overtaken.
LEMMA OvertakenTasks ==
  ASSUME Inv, NEW w \in Workers, NEW O \in SUBSET Workers, \A v \in O : Writes(task[v]),
         task' = [v \in Workers |-> IF v = w THEN Idle
                                    ELSE IF v \in O THEN [task[v] EXCEPT !.raced = TRUE]
                                    ELSE task[v]]
  PROVE  /\ task' \in [Workers -> Task \cup {Idle}]
         /\ ~Writes(task'[w])
         /\ \A v \in O \ {w} : task'[v].raced
         /\ \A v \in Workers \ (O \cup {w}) : task'[v] = task[v]
<1>1. ASSUME NEW v \in O \ {w} PROVE task'[v] \in Task /\ task'[v].raced
  <2>1. task[v] \in SlotTask /\ task'[v] = [task[v] EXCEPT !.raced = TRUE]
    BY TaskKinds DEF Inv, TypeOK
  <2>2. task'[v] \in SlotTask /\ task'[v].raced
    BY <2>1, RacedTask
  <2> QED BY <2>2 DEF Task, SlotTask
<1>2. task'[w] = Idle /\ \A v \in Workers \ (O \cup {w}) : task'[v] = task[v]
  OBVIOUS
<1>3. \A v \in Workers : task'[v] \in Task \cup {Idle}
  BY <1>1, <1>2 DEF Inv, TypeOK
<1>4. task' \in [Workers -> Task \cup {Idle}]
  BY <1>3
<1> QED BY <1>1, <1>2, <1>4, TaskKinds

\* A showtime is written (create, update): the tasks in its theatre that were
\* checked before are overtaken, and it meets suspects only, or is one.
LEMMA SaveShowtimeInv ==
  ASSUME Inv, NEW w \in Workers, SaveShowtime(w)
  PROVE  Inv'
<1> DEFINE t == task[w]
           valid == movies[t.row.movie] # None /\ theaters[t.row.theater] # None
           O == {v \in Workers : task[v].pc = "save" /\ task[v].row.theater = t.row.theater}
<1>1. /\ t \in SlotTask /\ t.pc = "save"
      /\ LengthKept(t, movies) /\ Vouched(t, movies, showtimes, suspect)
  BY TaskKinds DEF SaveShowtime, Inv, TypeOK, TasksSound, Writes
<1>2. CASE ~valid
  BY <1>2, TaskKinds, OtherTaskInv DEF SaveShowtime
<1>3. CASE valid
  <2>1. /\ showtimes' = [showtimes EXCEPT ![t.id] = t.row]
        /\ suspect' = Written(t)
        /\ task' = [v \in Workers |->
                      IF v = w THEN Idle
                      ELSE IF task[v].pc = "save" /\ task[v].row.theater = t.row.theater
                           THEN [task[v] EXCEPT !.raced = TRUE] ELSE task[v]]
        /\ UNCHANGED <<movies, theaters>>
    BY <1>3 DEF SaveShowtime
  <2>2. /\ t.id \in Showtimes /\ t.row \in Showtime /\ t.row # None
        /\ t.row.movie \in Movies /\ t.row.theater \in Theaters
        /\ t.checked \in BOOLEAN /\ t.raced \in BOOLEAN
    BY <1>1, NoneAssumption DEF SlotTask, Showtime
  <2>3. /\ showtimes' \in [Showtimes -> Showtime \cup {None}]
        /\ showtimes'[t.id] = t.row
        /\ \A u \in Showtimes \ {t.id} : showtimes'[u] = showtimes[u]
    BY <2>1, <2>2 DEF Inv, TypeOK
  <2>4. /\ suspect' \subseteq Showtimes
        /\ \A u \in Showtimes \ {t.id} : u \in suspect' <=> u \in suspect
    BY <2>1, <2>2 DEF Written, Inv, TypeOK
  <2>5. task' = [v \in Workers |-> IF v = w THEN Idle
                                   ELSE IF v \in O THEN [task[v] EXCEPT !.raced = TRUE]
                                   ELSE task[v]]
    BY <2>1
  <2>6. O \in SUBSET Workers /\ \A v \in O : Writes(task[v])
    BY DEF Writes
  <2>7. /\ task' \in [Workers -> Task \cup {Idle}]
        /\ ~Writes(task'[w])
        /\ \A v \in O \ {w} : task'[v].raced
        /\ \A v \in Workers \ (O \cup {w}) : task'[v] = task[v]
    <3> HIDE DEF O
    <3> QED BY <2>5, <2>6, OvertakenTasks
  <2>8. TypeOK'
    BY <2>1, <2>3, <2>4, <2>7 DEF Inv, TypeOK
  <2>9. ShowtimesComplete'
    BY <1>3, <2>1, <2>2, <2>3 DEF Inv, ShowtimesComplete, Booked
  <2>10. TasksSound'
    <3>1. ASSUME NEW v \in Workers \ (O \cup {w})
          PROVE  LengthKept(task[v], movies) /\ Vouched(task[v], movies, showtimes', suspect')
      <4>1. LengthKept(task[v], movies) /\ Vouched(task[v], movies, showtimes, suspect)
        BY DEF Inv, TasksSound
      <4>2. ASSUME task[v].pc = "save", NEW u \in Showtimes \ {task[v].id},
                   Meets(task[v].row, task[v].duration, u, movies, showtimes')
            PROVE  /\ u # t.id
                   /\ Meets(task[v].row, task[v].duration, u, movies, showtimes)
        BY <2>3, <4>2 DEF Meets
      <4> QED BY <2>4, <4>1, <4>2 DEF Vouched
    <3>2. ASSUME NEW v \in Workers
          PROVE  LengthKept(task'[v], movies) /\ Vouched(task'[v], movies, showtimes', suspect')
      <4> HIDE DEF O
      <4> QED BY <2>7, <3>1, NothingPromised, RacedPromisesNothing
    <3> QED BY <2>1, <3>2 DEF TasksSound
  <2>11. ASSUME NEW x \in Showtimes \ {t.id},
                Meets(t.row, movies[t.row.movie], x, movies, showtimes), t.row # showtimes[t.id]
         PROVE  {t.id, x} \cap suspect' # {}
    <3>1. CASE t.checked /\ ~t.raced
      <4>1. movies[t.row.movie] = t.duration
        BY <1>1, <1>3, <3>1 DEF LengthKept, Writes
      <4>2. x \in suspect
        BY <1>1, <2>11, <3>1, <4>1 DEF Vouched
      <4> QED BY <2>4, <4>2
    <3>2. CASE ~(t.checked /\ ~t.raced)
      BY <2>1, <2>11, <3>2 DEF Written
    <3> QED BY <3>1, <3>2
  <2>12. ScheduleSound'
    <3> SUFFICES ASSUME NEW s \in Booked', NEW u \in Booked', s # u, Overlapping(s, u)'
                 PROVE  {s, u} \cap suspect' # {}
      BY DEF ScheduleSound
    <3>1. /\ s \in Showtimes /\ showtimes'[s] # None
          /\ u \in Showtimes /\ showtimes'[u] # None
      BY DEF Booked
    <3>2. CASE t.row = showtimes[t.id]
      <4>1. showtimes' = showtimes /\ suspect' = suspect
        BY <2>1, <2>2, <3>2 DEF Written, Inv, TypeOK
      <4> QED BY <2>1, <4>1 DEF Inv, ScheduleSound, Booked, Overlapping
    <3>3. CASE s # t.id /\ u # t.id
      <4>1. s \in Booked /\ u \in Booked /\ Overlapping(s, u)
        BY <2>1, <2>3, <3>1, <3>3 DEF Booked, Overlapping
      <4> QED BY <2>4, <3>1, <3>3, <4>1 DEF Inv, ScheduleSound
    <3>4. CASE s = t.id /\ t.row # showtimes[t.id]
      <4>1. Meets(t.row, movies[t.row.movie], u, movies, showtimes)
        BY <2>1, <2>3, <3>1, <3>4 DEF Overlapping, Meets
      <4> QED BY <2>11, <3>1, <3>4, <4>1
    <3>5. CASE u = t.id /\ t.row # showtimes[t.id]
      <4>1. Meets(t.row, movies[t.row.movie], s, movies, showtimes)
        BY <2>1, <2>3, <3>1, <3>5 DEF Overlapping, Meets, overlaps
      <4> QED BY <2>11, <3>1, <3>5, <4>1
    <3> QED BY <3>2, <3>3, <3>4, <3>5
  <2> QED BY <2>8, <2>9, <2>10, <2>12 DEF Inv
<1> QED BY <1>2, <1>3

\* A showtime is deleted.
LEMMA RemoveShowtimeInv ==
  ASSUME Inv, NEW s \in Showtimes, RemoveShowtime(s)
  PROVE  Inv'
<1>1. /\ showtimes' \in [Showtimes -> Showtime \cup {None}]
      /\ showtimes'[s] = None /\ \A u \in Showtimes \ {s} : showtimes'[u] = showtimes[u]
      /\ suspect' = suspect \ {s} /\ UNCHANGED <<movies, theaters, task>>
  BY DEF RemoveShowtime, Inv, TypeOK
<1>2. TypeOK'
  BY <1>1 DEF Inv, TypeOK
<1>3. ShowtimesComplete'
  BY <1>1 DEF Inv, ShowtimesComplete, Booked
<1>4. TasksSound'
  <2> SUFFICES ASSUME NEW w \in Workers
               PROVE  /\ LengthKept(task[w], movies)
                      /\ Vouched(task[w], movies, showtimes', suspect')
    BY <1>1 DEF TasksSound
  <2>1. LengthKept(task[w], movies) /\ Vouched(task[w], movies, showtimes, suspect)
    BY DEF Inv, TasksSound
  <2>2. ASSUME NEW u \in Showtimes, NEW row, NEW duration,
               Meets(row, duration, u, movies, showtimes')
        PROVE  u # s /\ Meets(row, duration, u, movies, showtimes)
    BY <1>1, <2>2 DEF Meets
  <2> QED BY <1>1, <2>1, <2>2 DEF Vouched
<1>5. ScheduleSound'
  BY <1>1 DEF Inv, ScheduleSound, Booked, Overlapping
<1> QED BY <1>2, <1>3, <1>4, <1>5 DEF Inv

\* Movies and theatres come, change and go.  No showtime loses what it needs, one
\* whose movie changes its length is a suspect, and so does no task that still
\* counts on its check.
LEMMA TablesInv ==
  ASSUME Inv, UNCHANGED showtimes,
         movies' \in [Movies -> Durations \cup {None}],
         theaters' \in [Theaters -> Theater \cup {None}],
         task' \in [Workers -> Task \cup {Idle}],
         suspect \subseteq suspect', suspect' \subseteq Showtimes,
         \A s \in Booked : /\ theaters'[showtimes[s].theater] # None
                           /\ movies'[showtimes[s].movie] # None
                           /\ \/ movies'[showtimes[s].movie] = movies[showtimes[s].movie]
                              \/ s \in suspect',
         \A v \in Workers : \/ ~Writes(task'[v])
                            \/ task'[v].raced
                            \/ task'[v] = task[v] /\ LengthKept(task[v], movies')
  PROVE  Inv'
<1>1. TypeOK'
  BY DEF Inv, TypeOK
<1>2. ShowtimesComplete'
  BY DEF ShowtimesComplete, Booked
<1>3. TasksSound'
  <2> SUFFICES ASSUME NEW v \in Workers
               PROVE  /\ LengthKept(task'[v], movies')
                      /\ Vouched(task'[v], movies', showtimes, suspect')
    BY DEF TasksSound
  <2>1. CASE ~Writes(task'[v]) \/ task'[v].raced
    BY <2>1, NothingPromised, RacedPromisesNothing
  <2>2. CASE task'[v] = task[v] /\ LengthKept(task[v], movies')
    <3>1. Vouched(task[v], movies, showtimes, suspect)
      BY DEF Inv, TasksSound
    <3>2. ASSUME NEW u \in Showtimes, NEW row, NEW duration,
                 Meets(row, duration, u, movies', showtimes)
          PROVE  u \in suspect' \/ Meets(row, duration, u, movies, showtimes)
      BY <3>2 DEF Meets, Booked
    <3> QED BY <2>2, <3>1, <3>2 DEF Vouched
  <2> QED BY <2>1, <2>2
<1>4. ScheduleSound'
  <2> SUFFICES ASSUME NEW s \in Booked, NEW u \in Booked, s # u, Overlapping(s, u)',
                      s \notin suspect', u \notin suspect'
               PROVE  FALSE
    BY DEF ScheduleSound, Booked
  <2>1. Overlapping(s, u)
    BY DEF Overlapping
  <2> QED BY <2>1 DEF Inv, ScheduleSound
<1> QED BY <1>1, <1>2, <1>3, <1>4 DEF Inv

\* Movies: created, saved whole, deleted if the foreign key allows it.
LEMMA MovieInv ==
  ASSUME TimeAssumption, Inv
  PROVE  /\ \A m \in Movies, d \in Durations : CreateMovie(m, d) => Inv'
         /\ \A w \in Workers : SaveMovie(w) \/ DeleteMovie(w) => Inv'
<1> USE DEF Inv
<1>1. ASSUME NEW m \in Movies, NEW d \in Durations, CreateMovie(m, d) PROVE Inv'
  <2>1. /\ movies' \in [Movies -> Durations \cup {None}]
        /\ \A n \in Movies \ {m} : movies'[n] = movies[n]
        /\ movies[m] = None /\ UNCHANGED <<theaters, showtimes, task, suspect>>
    BY <1>1 DEF CreateMovie, TypeOK
  <2>2. \A s \in Booked : showtimes[s].movie \in Movies \ {m}
    BY <2>1 DEF ShowtimesComplete, Booked, TypeOK, Showtime
  <2>3. ASSUME NEW v \in Workers, Writes(task[v]) PROVE LengthKept(task[v], movies')
    <3>1. task[v] \in SlotTask /\ LengthKept(task[v], movies)
      BY <2>3, TaskKinds DEF TypeOK, TasksSound
    <3>2. task[v].row.movie \in Movies \ {m}
      BY <1>1, <2>3, <3>1 DEF CreateMovie, Unnamed, Names, Writes, SlotTask, Showtime
    <3> QED BY <2>1, <3>1, <3>2 DEF LengthKept
  <2> QED BY <2>1, <2>2, <2>3, TablesInv DEF ShowtimesComplete, TypeOK
<1>2. ASSUME NEW w \in Workers, SaveMovie(w) PROVE Inv'
  <2> DEFINE m == task[w].movie
             O == {v \in Workers : Writes(task[v]) /\ task[v].row.movie = m}
  <2>1. m \in Movies /\ task[w].duration \in Durations /\ task[w].duration # None
    BY <1>2, TaskKinds DEF SaveMovie, TypeOK, TimeAssumption
  <2>2. /\ movies' \in [Movies -> Durations \cup {None}]
        /\ movies'[m] = task[w].duration
        /\ \A n \in Movies \ {m} : movies'[n] = movies[n]
        /\ UNCHANGED <<theaters, showtimes>>
    BY <1>2, <2>1 DEF SaveMovie, TypeOK
  <2>3. /\ suspect \subseteq suspect' /\ suspect' \subseteq Showtimes
        /\ \A s \in Booked : showtimes[s].movie = m /\ movies'[m] # movies[m] => s \in suspect'
    BY <1>2, <2>2 DEF SaveMovie, TypeOK, Booked
  <2>4. /\ task' \in [Workers -> Task \cup {Idle}]
        /\ ~Writes(task'[w])
        /\ \A v \in O \ {w} : task'[v].raced
        /\ \A v \in Workers \ (O \cup {w}) : task'[v] = task[v]
    <3>1. task' = [v \in Workers |-> IF v = w THEN Idle
                                     ELSE IF v \in O THEN [task[v] EXCEPT !.raced = TRUE]
                                     ELSE task[v]]
      BY <1>2 DEF SaveMovie, Writes
    <3>2. O \in SUBSET Workers /\ \A v \in O : Writes(task[v])
      OBVIOUS
    <3> HIDE DEF O
    <3> QED BY <3>1, <3>2, OvertakenTasks
  <2>5. ASSUME NEW v \in Workers \ (O \cup {w}), Writes(task[v])
        PROVE  LengthKept(task[v], movies')
    <3>1. task[v] \in SlotTask /\ LengthKept(task[v], movies)
      BY <2>5, TaskKinds DEF TypeOK, TasksSound
    <3>2. task[v].row.movie \in Movies \ {m}
      BY <2>5, <3>1 DEF SlotTask, Showtime
    <3> QED BY <2>2, <3>1, <3>2 DEF LengthKept
  <2>6. \A s \in Booked : showtimes[s].movie \in Movies
    BY DEF Booked, TypeOK, Showtime
  <2>7. \A s \in Booked : /\ theaters'[showtimes[s].theater] # None
                          /\ movies'[showtimes[s].movie] # None
                          /\ \/ movies'[showtimes[s].movie] = movies[showtimes[s].movie]
                             \/ s \in suspect'
    BY <2>1, <2>2, <2>3, <2>6 DEF ShowtimesComplete
  <2>8. \A v \in Workers : \/ ~Writes(task'[v])
                           \/ task'[v].raced
                           \/ task'[v] = task[v] /\ LengthKept(task[v], movies')
    <3> HIDE DEF O
    <3> QED BY <2>4, <2>5
  <2> HIDE DEF m, O
  <2> QED BY <2>2, <2>3, <2>4, <2>7, <2>8, TablesInv DEF TypeOK
<1>3. ASSUME NEW w \in Workers, DeleteMovie(w) PROVE Inv'
  <2> DEFINE m == task[w].movie
  <2>1. m \in Movies
    BY <1>3, TaskKinds DEF DeleteMovie, TypeOK
  <2>2. /\ task' \in [Workers -> Task \cup {Idle}]
        /\ task'[w] = Idle /\ \A v \in Workers \ {w} : task'[v] = task[v]
        /\ UNCHANGED <<theaters, showtimes, suspect>>
    BY <1>3 DEF DeleteMovie, TypeOK
  <2>3. /\ movies' \in [Movies -> Durations \cup {None}]
        /\ \A n \in Movies : movies'[n] \in {movies[n], None}
        /\ \A s \in Booked : movies'[showtimes[s].movie] = movies[showtimes[s].movie]
    <3>1. CASE movies' = movies
      BY <3>1 DEF TypeOK
    <3>2. CASE (\A s \in Booked : showtimes[s].movie # m) /\ movies' = [movies EXCEPT ![m] = None]
      BY <2>1, <3>2 DEF TypeOK, Booked, Showtime
    <3> QED BY <1>3, <3>1, <3>2 DEF DeleteMovie
  <2>4. ASSUME NEW v \in Workers, Writes(task[v]) PROVE LengthKept(task[v], movies')
    <3>1. task[v] \in SlotTask /\ LengthKept(task[v], movies)
      BY <2>4, TaskKinds DEF TypeOK, TasksSound
    <3> QED BY <2>3, <3>1 DEF LengthKept, SlotTask, Showtime
  <2> QED BY <2>2, <2>3, <2>4, TaskKinds, TablesInv DEF ShowtimesComplete, TypeOK
<1> QED BY <1>1, <1>2, <1>3

\* Theatres: created and seated in two transactions, saved whole, deleted if the
\* foreign key allows it.
LEMMA TheaterInv ==
  ASSUME Inv
  PROVE  /\ \A w \in Workers, t \in Theaters, layout \in Layout :
              CreateTheater(w, t, layout) => Inv'
         /\ \A w \in Workers : SaveSeats(w) \/ SaveTheater(w) => Inv'
         /\ \A t \in Theaters : RemoveTheater(t) => Inv'
<1> USE DEF Inv
<1>1. \A s \in Booked : /\ showtimes[s].theater \in Theaters
                        /\ theaters[showtimes[s].theater] # None
                        /\ movies[showtimes[s].movie] # None
  BY DEF ShowtimesComplete, Booked, TypeOK, Showtime
<1>2. \A v \in Workers : LengthKept(task[v], movies)
  BY DEF TasksSound
<1>3. ASSUME NEW w \in Workers, NEW k \in Task \cup {Idle}, ~Writes(k),
             task' = [task EXCEPT ![w] = k], UNCHANGED <<movies, showtimes, suspect>>,
             theaters' \in [Theaters -> Theater \cup {None}],
             \A t \in Theaters : theaters[t] # None => theaters'[t] # None
      PROVE  Inv'
  <2>1. /\ task' \in [Workers -> Task \cup {Idle}]
        /\ \A v \in Workers : ~Writes(task'[v]) \/ task'[v] = task[v]
    BY <1>3 DEF TypeOK
  <2> QED BY <1>1, <1>2, <1>3, <2>1, TablesInv DEF TypeOK
<1>4. ASSUME NEW t \in Theaters, NEW x \in Theater, theaters' = [theaters EXCEPT ![t] = x]
      PROVE  /\ theaters' \in [Theaters -> Theater \cup {None}]
             /\ \A u \in Theaters : theaters[u] # None => theaters'[u] # None
  <2>1. x # None
    BY NoneAssumption
  <2> QED BY <1>4, <2>1 DEF TypeOK
<1>5. ASSUME NEW w \in Workers, NEW t \in Theaters, NEW layout \in Layout,
             CreateTheater(w, t, layout)
      PROVE  Inv'
  <2>1. LET k == [pc |-> "saveSeats", theater |-> t, layout |-> layout] IN
        k \in Task \cup {Idle} /\ ~Writes(k) /\ task' = [task EXCEPT ![w] = k]
    BY <1>5 DEF CreateTheater, Task, Writes
  <2>2. [layout |-> layout, seated |-> FALSE] \in Theater
    BY DEF Theater
  <2> QED BY <1>3, <1>4, <1>5, <2>1, <2>2 DEF CreateTheater
<1>6. ASSUME NEW w \in Workers, SaveSeats(w) PROVE Inv'
  <2> DEFINE t == task[w].theater
  <2>1. t \in Theaters
    BY <1>6, TaskKinds DEF SaveSeats, TypeOK
  <2>2. CASE theaters[t] = None
    BY <1>3, <1>6, <2>2, TaskKinds DEF SaveSeats, TypeOK
  <2>3. CASE theaters[t] # None
    <3>1. \A x \in Theater : [x EXCEPT !.seated = TRUE] \in Theater
      BY DEF Theater
    <3>2. theaters[t] \in Theater
      BY <2>1, <2>3 DEF TypeOK
    <3>3. theaters' = [theaters EXCEPT ![t] = [theaters[t] EXCEPT !.seated = TRUE]]
      BY <1>6, <2>3 DEF SaveSeats
    <3> QED BY <1>3, <1>4, <1>6, <2>1, <3>1, <3>2, <3>3, TaskKinds DEF SaveSeats
  <2> QED BY <2>2, <2>3
<1>7. ASSUME NEW w \in Workers, SaveTheater(w) PROVE Inv'
  <2> DEFINE t == task[w].theater
  <2>1. t \in Theaters /\ task[w].layout \in Layout
    BY <1>7, TaskKinds DEF SaveTheater, TypeOK
  <2>2. CASE theaters[t] # None
    BY <1>3, <1>7, <2>2, TaskKinds DEF SaveTheater, TypeOK
  <2>3. CASE theaters[t] = None
    <3>1. [layout |-> task[w].layout, seated |-> FALSE] \in Theater
      BY <2>1 DEF Theater
    <3> QED BY <1>3, <1>4, <1>7, <2>1, <2>3, <3>1, TaskKinds DEF SaveTheater
  <2> QED BY <2>2, <2>3
<1>8. ASSUME NEW t \in Theaters, RemoveTheater(t) PROVE Inv'
  <2>1. /\ theaters' \in [Theaters -> Theater \cup {None}]
        /\ \A s \in Booked : theaters'[showtimes[s].theater] # None
    BY <1>1, <1>8 DEF RemoveTheater, TypeOK
  <2> QED BY <1>1, <1>2, <1>8, <2>1, TablesInv DEF RemoveTheater, TypeOK
<1> QED BY <1>5, <1>6, <1>7, <1>8

\* Requests about movies and theatres only begin a task.
LEMMA OtherRequestInv ==
  ASSUME Inv, NEW w \in Workers, MovieRequest(w) \/ TheaterRequest(w)
  PROVE  Inv'
<1>1. ASSUME NEW k \in Task \cup {Idle}, ~Writes(k), Begin(w, k) PROVE Inv'
  BY <1>1, OtherTaskInv DEF Begin
<1>2. ASSUME NEW pc \in {"saveMovie", "removeMovie"}, NEW m \in Movies, NEW d \in Durations
      PROVE  LET k == [pc |-> pc, movie |-> m, duration |-> d] IN k \in Task /\ ~Writes(k)
  BY DEF Task, Writes
<1>3. ASSUME NEW m \in Movies, RemoveMovie(w, m) PROVE Inv'
  <2>1. movies[m] \in Durations
    BY <1>3 DEF RemoveMovie, Inv, TypeOK
  <2> QED BY <1>1, <1>2, <1>3, <2>1 DEF RemoveMovie
<1>4. ASSUME NEW m \in Movies, NEW d \in Durations, UpdateMovie(w, m, d) PROVE Inv'
  BY <1>1, <1>2, <1>4 DEF UpdateMovie
<1>5. ASSUME NEW t \in Theaters, UpdateTheater(w, t) PROVE Inv'
  <2>1. theaters[t].layout \in Layout
    BY <1>5 DEF UpdateTheater, Inv, TypeOK, Theater
  <2>2. LET k == [pc |-> "saveTheater", theater |-> t, layout |-> theaters[t].layout] IN
        k \in Task /\ ~Writes(k)
    BY <2>1 DEF Task, Writes
  <2> QED BY <1>1, <1>5, <2>2 DEF UpdateTheater
<1>6. ASSUME NEW t \in Theaters, NEW layout \in Layout, CreateTheater(w, t, layout) PROVE Inv'
  BY <1>6, TheaterInv
<1> QED BY <1>3, <1>4, <1>5, <1>6 DEF MovieRequest, TheaterRequest

-----------------------------------------------------------------------------

\* Every step of the service keeps the invariant.
LEMMA StepInv ==
  ASSUME TimeAssumption, Inv, [Next]_vars
  PROVE  Inv'
<1>1. CASE UNCHANGED vars
  BY <1>1 DEF vars, Inv, TypeOK, ShowtimesComplete, TasksSound, ScheduleSound, Booked, Overlapping
<1>2. ASSUME NEW w \in Workers, Proceed(w) PROVE Inv'
  <2>1. CASE HandlerLost(w)
    BY <2>1, TaskKinds, OtherTaskInv DEF HandlerLost
  <2> QED BY <1>2, <2>1, CheckSlotInv, SaveShowtimeInv, MovieInv, TheaterInv DEF Proceed
<1>3. ASSUME NEW w \in Workers, Request(w) PROVE Inv'
  BY <1>3, ShowtimeRequestInv, OtherRequestInv DEF Request
<1> QED BY <1>1, <1>2, <1>3, RemoveShowtimeInv, MovieInv, TheaterInv DEF Next

\* An empty catalogue is sound.
LEMMA InitInv == Init => Inv
<1> SUFFICES ASSUME Init PROVE Inv
  OBVIOUS
<1>1. Booked = {} /\ TypeOK
  BY DEF Init, Booked, TypeOK
<1>2. TasksSound
  BY NothingPromised, TaskKinds DEF Init, TasksSound
<1> QED BY <1>1, <1>2 DEF Inv, ShowtimesComplete, ScheduleSound

\* The invariant holds forever.
LEMMA AlwaysInv == Spec => []Inv
<1>1. Inv /\ [Next]_vars => Inv'
  BY TimeAssumption, StepInv
<1> QED BY <1>1, InitInv, PTL DEF Spec

\* Types.
THEOREM TypeCorrect == Spec => []TypeOK
<1>1. Inv => TypeOK
  BY DEF Inv
<1> QED BY <1>1, AlwaysInv, PTL

\* Every showtime has its movie and its theatre, however the deletes, the stale
\* saves and the re-inserts of admins interleave.
THEOREM ShowtimesAlwaysComplete == Spec => []ShowtimesComplete
<1>1. Inv => ShowtimesComplete
  BY DEF Inv
<1> QED BY <1>1, AlwaysInv, PTL

\* Two showtimes overlap only where no check was in time.
THEOREM ScheduleAlwaysSound == Spec => []ScheduleSound
<1>1. Inv => ScheduleSound
  BY DEF Inv
<1> QED BY <1>1, AlwaysInv, PTL

\* The seat grid of a theatre of any size is sound (categoryForRowCol).
THEOREM GridAlwaysSound == Spec => []GridSound
<1>1. ASSUME TypeOK PROVE GridSound
  <2> SUFFICES ASSUME NEW t \in Theaters, theaters[t] # None,
                      NEW layout, layout = theaters[t].layout
               PROVE  /\ \A row \in 1 .. layout.rows - 1, col \in 0 .. layout.cols - 1 :
                           Rank[SeatGrid(layout)[row - 1][col]] <= Rank[SeatGrid(layout)[row][col]]
                      /\ layout.rows >= 5 /\ layout.cols >= 3 =>
                           \E row \in DOMAIN SeatGrid(layout) : SeatGrid(layout)[row][0] = "VIP"
    BY DEF GridSound
  <2> DEFINE rows == layout.rows
             cols == layout.cols
             At(row, col) == Category(row, col, rows, cols)
  <2>1. rows \in Nat /\ cols \in Nat /\ rows > 0 /\ cols > 0
    <3>1. layout \in Layout
      BY <1>1 DEF TypeOK, Theater
    <3>2. rows \in LayoutRows /\ cols \in LayoutCols
      BY <3>1 DEF Layout
    <3> HIDE DEF rows, cols
    <3>3. rows \in Nat \ {0} /\ cols \in Nat \ {0}
      BY <3>2, TimeAssumption
    <3> QED BY <3>3
  <2>2. \A row \in 0 .. rows - 1, col \in 0 .. cols - 1 : SeatGrid(layout)[row][col] = At(row, col)
    BY DEF SeatGrid
  <2>3. DOMAIN SeatGrid(layout) = 0 .. rows - 1
    BY DEF SeatGrid
  <2>4. (rows * 3) \div 4 \in Int /\ (rows >= 5 => (rows * 3) \div 4 <= rows - 2)
    BY <2>1
  <2> HIDE DEF rows, cols
  <2>5. ASSUME NEW row \in 1 .. rows - 1, NEW col \in 0 .. cols - 1
        PROVE  Rank[At(row - 1, col)] <= Rank[At(row, col)]
    BY <2>1, <2>4 DEF Category, Rank
  <2>6. ASSUME rows >= 5, cols >= 3
        PROVE  rows - 2 \in 0 .. rows - 1 /\ 0 \in 0 .. cols - 1 /\ At(rows - 2, 0) = "VIP"
    BY <2>1, <2>4, <2>6 DEF Category
  <2>7. \A row \in 1 .. rows - 1, col \in 0 .. cols - 1 :
          Rank[SeatGrid(layout)[row - 1][col]] <= Rank[SeatGrid(layout)[row][col]]
    <3>1. \A row \in 1 .. rows - 1 : row \in 0 .. rows - 1 /\ row - 1 \in 0 .. rows - 1
      BY <2>1
    <3> HIDE DEF At
    <3> QED BY <2>2, <2>5, <3>1
  <2>8. rows >= 5 /\ cols >= 3 =>
          \E row \in DOMAIN SeatGrid(layout) : SeatGrid(layout)[row][0] = "VIP"
    <3> HIDE DEF At
    <3> QED BY <2>2, <2>3, <2>6
  <2> QED BY <2>7, <2>8 DEF rows, cols
<1> QED BY <1>1, TypeCorrect, PTL

=============================================================================
