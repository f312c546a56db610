----------------------------- MODULE Catalogue -----------------------------
(***************************************************************************)
(* cinema-service: movies, theatres with their seats, and the schedule.    *)
(*                                                                         *)
(* An admin's request runs as a task of a worker; it gives way to others   *)
(* at every await of the database.  Foreign keys and unique indexes are    *)
(* the only things the database checks by itself.  save() of an entity     *)
(* that was loaded before writes the whole copy, and inserts it again if   *)
(* the row was deleted meanwhile (TypeORM).                                *)
(***************************************************************************)
EXTENDS Integers

CONSTANTS Movies, Theaters, Showtimes,  \* bounds: ids in use
          Workers,              \* requests that may be in flight together
          Times,                \* bound: starting times
          Durations,            \* of movies
          OVERLAP_WINDOW_MIN,
          LayoutRows, LayoutCols,  \* sizes of the theatres
          None                  \* no row

ASSUME TimeAssumption ==
  /\ Times \subseteq Int
  /\ OVERLAP_WINDOW_MIN \in Nat
  /\ Durations \subseteq 0 .. OVERLAP_WINDOW_MIN
  /\ None \notin Durations
  /\ LayoutRows \subseteq Nat \ {0} /\ LayoutCols \subseteq Nat \ {0}

VARIABLES movies,       \* durationMinutes of each movie
          theaters,     \* layout of each theatre; seated once its seats are saved
          showtimes,    \* table showtimes
          task,         \* what each worker is doing
          suspect       \* showtimes whose slot nobody vouches for, see Written

vars == <<movies, theaters, showtimes, task, suspect>>

Showtime == [movie : Movies, theater : Theaters, startsAt : Times]

Layout == [rows : LayoutRows, cols : LayoutCols]

Theater == [layout : Layout, seated : BOOLEAN]

ASSUME NoneAssumption == None \notin Theater /\ None \notin Showtime

Booked == {s \in Showtimes : showtimes[s] # None}

\* A task is raced when its check no longer tells about the catalogue: another
\* showtime was written in its theatre since, or its movie since it was read.
Task == [pc : {"check", "save"}, id : Showtimes, row : Showtime,
         duration : Durations, checked : BOOLEAN, raced : BOOLEAN]
   \cup [pc : {"saveMovie", "removeMovie"}, movie : Movies, duration : Durations]
   \cup [pc : {"saveSeats", "saveTheater"}, theater : Theaters, layout : Layout]

Idle == [pc |-> "idle"]

Free(w) == task[w] = Idle

\* The ids a task goes on with.
Names(t) ==
  CASE t.pc \in {"check", "save"} -> {t.id, t.row.movie, t.row.theater}
    [] t.pc \in {"saveMovie", "removeMovie"} -> {t.movie}
    [] t.pc \in {"saveSeats", "saveTheater"} -> {t.theater}
    [] OTHER -> {}

\* Stands for the fresh uuid of an insert: no request in flight knows it.
Unnamed(id) == \A w \in Workers : id \notin Names(task[w])

Begin(w, t) ==
  /\ Free(w)
  /\ task' = [task EXCEPT ![w] = t]
  /\ UNCHANGED <<movies, theaters, showtimes, suspect>>

-----------------------------------------------------------------------------
(* The overlap rule.                                                        *)

endOf(start, duration) == start + duration

overlaps(aStart, aEnd, bStart, bEnd) == aStart < bEnd /\ bStart < aEnd

\* Only showtimes that start in the window are looked at.
Candidates(theater, startsAt, duration) ==
  {c \in Booked : /\ showtimes[c].theater = theater
                  /\ startsAt - OVERLAP_WINDOW_MIN <= showtimes[c].startsAt
                  /\ showtimes[c].startsAt <= endOf(startsAt, duration)}

\* Mutant of NoOverlapFound: showtimes that began earlier are not looked at.
NoOverlapAfter(id, row, duration) ==
  \A c \in Candidates(row.theater, row.startsAt, duration) \ {id} :
    showtimes[c].startsAt < row.startsAt
    \/ showtimes[c].startsAt >= endOf(row.startsAt, duration)

\* assertNoOverlap(): the showtime's own row is no obstacle to it.
NoOverlapFound(id, row, duration) ==
  \A c \in Candidates(row.theater, row.startsAt, duration) \ {id} :
    ~overlaps(row.startsAt, endOf(row.startsAt, duration), showtimes[c].startsAt,
              endOf(showtimes[c].startsAt, movies[showtimes[c].movie]))

-----------------------------------------------------------------------------
(* Showtimes.                                                               *)

\* create(): the movie must be found; the theatre is left to its foreign key.
CreateShowtime(w, s, row) ==
  /\ showtimes[s] = None /\ Unnamed(s)
  /\ movies[row.movie] # None
  /\ Begin(w, [pc |-> "check", id |-> s, row |-> row, duration |-> movies[row.movie],
               checked |-> TRUE, raced |-> FALSE])

\* update(): the slot is checked if a time or a movie is given, with the new
\* theatre if there is one; a change of the theatre alone is not checked.
UpdateShowtime(w, s, row) ==
  /\ s \in Booked
  /\ LET old == showtimes[s]
         checked == row.movie # old.movie \/ row.startsAt # old.startsAt
     IN Begin(w, [pc |-> IF checked THEN "check" ELSE "save", id |-> s, row |-> row,
                  duration |-> movies[row.movie], checked |-> checked, raced |-> FALSE])
  /\ movies[row.movie] # None

\* The admin gives a time or movie that is the one it has: checked, unchanged.
TouchShowtime(w, s) ==
  /\ s \in Booked
  /\ Begin(w, [pc |-> "check", id |-> s, row |-> showtimes[s],
               duration |-> movies[showtimes[s].movie], checked |-> TRUE, raced |-> FALSE])

CheckSlot(w) ==
  /\ task[w].pc = "check"
  /\ task' = [task EXCEPT ![w] =
                IF NoOverlapFound(task[w].id, task[w].row, task[w].duration)
                THEN [task[w] EXCEPT !.pc = "save"] ELSE Idle]
  /\ UNCHANGED <<movies, theaters, showtimes, suspect>>

\* A slot that was checked, and nothing was written since, is vouched for; a
\* slot that was written otherwise is suspect until it is checked again.
Written(t) ==
  IF t.row = showtimes[t.id] THEN suspect
  ELSE IF t.checked /\ ~t.raced THEN suspect \ {t.id} ELSE suspect \cup {t.id}

\* The foreign keys refuse a movie or a theatre that is gone.
SaveShowtime(w) ==
  LET t == task[w]
      valid == movies[t.row.movie] # None /\ theaters[t.row.theater] # None
  IN
  /\ t.pc = "save"
  /\ \/ /\ valid
        /\ showtimes' = [showtimes EXCEPT ![t.id] = t.row]
        /\ suspect' = Written(t)
        /\ task' = [v \in Workers |->
                      IF v = w THEN Idle
                      ELSE IF task[v].pc = "save" /\ task[v].row.theater = t.row.theater
                           THEN [task[v] EXCEPT !.raced = TRUE] ELSE task[v]]
     \/ /\ ~valid
        /\ task' = [task EXCEPT ![w] = Idle]
        /\ UNCHANGED <<showtimes, suspect>>
  /\ UNCHANGED <<movies, theaters>>

RemoveShowtime(s) ==
  /\ s \in Booked
  /\ showtimes' = [showtimes EXCEPT ![s] = None]
  /\ suspect' = suspect \ {s}
  /\ UNCHANGED <<movies, theaters, task>>

-----------------------------------------------------------------------------
(* Movies.  Genres, titles and posters decide nothing here.                  *)

CreateMovie(m, d) ==
  /\ movies[m] = None /\ Unnamed(m)
  /\ movies' = [movies EXCEPT ![m] = d]
  /\ UNCHANGED <<theaters, showtimes, task, suspect>>

UpdateMovie(w, m, d) ==
  movies[m] # None /\ Begin(w, [pc |-> "saveMovie", movie |-> m, duration |-> d])

\* Mutant of SaveMovie: the minutes are stored in hours.
SaveMovieHours(w) ==
  /\ task[w].pc = "saveMovie"
  /\ movies' = [movies EXCEPT ![task[w].movie] = task[w].duration \div 60]
  /\ task' = [task EXCEPT ![w] = Idle]
  /\ UNCHANGED <<theaters, showtimes, suspect>>

\* A new duration is not checked against the schedule.
SaveMovie(w) ==
  /\ task[w].pc = "saveMovie"
  /\ LET m == task[w].movie IN
     /\ movies' = [movies EXCEPT ![m] = task[w].duration]
     /\ suspect' = IF movies[m] = task[w].duration THEN suspect
                   ELSE suspect \cup {s \in Booked : showtimes[s].movie = m}
  /\ task' = [v \in Workers |->
                IF v = w THEN Idle
                ELSE IF task[v].pc \in {"check", "save"} /\ task[v].row.movie = task[w].movie
                     THEN [task[v] EXCEPT !.raced = TRUE] ELSE task[v]]
  /\ UNCHANGED <<theaters, showtimes>>

\* remove(): refused while it has showtimes ...
RemoveMovie(w, m) ==
  /\ movies[m] # None /\ \A s \in Booked : showtimes[s].movie # m
  /\ Begin(w, [pc |-> "removeMovie", movie |-> m, duration |-> movies[m]])

\* Mutant of DeleteMovie: the foreign key does not restrict.
DeleteMovieAnyway(w) ==
  /\ task[w].pc = "removeMovie"
  /\ task' = [task EXCEPT ![w] = Idle]
  /\ movies' = [movies EXCEPT ![task[w].movie] = None]
  /\ UNCHANGED <<theaters, showtimes, suspect>>

\* ... and, if it got one since, by the foreign key.
DeleteMovie(w) ==
  /\ task[w].pc = "removeMovie"
  /\ task' = [task EXCEPT ![w] = Idle]
  /\ LET m == task[w].movie IN
     \/ /\ \A s \in Booked : showtimes[s].movie # m
        /\ movies' = [movies EXCEPT ![m] = None]
     \/ /\ \E s \in Booked : showtimes[s].movie = m
        /\ UNCHANGED movies
  /\ UNCHANGED <<theaters, showtimes, suspect>>

-----------------------------------------------------------------------------
(* Theatres.                                                                 *)

\* Mutant of Category: the quarter is rounded the other way.
CategoryCeil(row, col, rows, cols) ==
  IF row = rows - 1 \/ col >= cols - 2 THEN "COUPLE"
  ELSE IF row >= (rows * 3 + 3) \div 4 THEN "VIP" ELSE "REGULAR"

\* categoryForRowCol(): the last row and the two last columns are for couples,
\* the last quarter of the rows is VIP.
Category(row, col, rows, cols) ==
  IF row = rows - 1 \/ col >= cols - 2 THEN "COUPLE"
  ELSE IF row >= (rows * 3) \div 4 THEN "VIP" ELSE "REGULAR"

\* generateSeatGrid(): the categories of the seats that are saved.
SeatGrid(layout) ==
  [row \in 0 .. layout.rows - 1 |->
     [col \in 0 .. layout.cols - 1 |-> Category(row, col, layout.rows, layout.cols)]]

\* create(): the theatre is saved first, its seats in a second transaction.
CreateTheater(w, t, layout) ==
  /\ Free(w) /\ theaters[t] = None /\ Unnamed(t)
  /\ theaters' = [theaters EXCEPT ![t] = [layout |-> layout, seated |-> FALSE]]
  /\ task' = [task EXCEPT ![w] = [pc |-> "saveSeats", theater |-> t, layout |-> layout]]
  /\ UNCHANGED <<movies, showtimes, suspect>>

\* The seats of a theatre that is gone are refused by their foreign key.
SaveSeats(w) ==
  /\ task[w].pc = "saveSeats"
  /\ LET t == task[w].theater IN
     theaters' = IF theaters[t] = None THEN theaters
                 ELSE [theaters EXCEPT ![t].seated = TRUE]
  /\ task' = [task EXCEPT ![w] = Idle]
  /\ UNCHANGED <<movies, showtimes, suspect>>

\* update(): name and address; the copy has the layout it was loaded with.
UpdateTheater(w, t) ==
  /\ theaters[t] # None
  /\ Begin(w, [pc |-> "saveTheater", theater |-> t, layout |-> theaters[t].layout])

\* A theatre deleted meanwhile is inserted again, without its seats.
SaveTheater(w) ==
  /\ task[w].pc = "saveTheater"
  /\ LET t == task[w].theater IN
     theaters' = IF theaters[t] # None THEN theaters
                 ELSE [theaters EXCEPT ![t] = [layout |-> task[w].layout, seated |-> FALSE]]
  /\ task' = [task EXCEPT ![w] = Idle]
  /\ UNCHANGED <<movies, showtimes, suspect>>

\* The foreign keys keep a theatre with showtimes and delete the seats.
RemoveTheater(t) ==
  /\ theaters[t] # None /\ \A s \in Booked : showtimes[s].theater # t
  /\ theaters' = [theaters EXCEPT ![t] = None]
  /\ UNCHANGED <<movies, showtimes, task, suspect>>

-----------------------------------------------------------------------------

\* A call throws, or the process dies: what is left of a handler is lost.
HandlerLost(w) ==
  /\ ~Free(w)
  /\ task' = [task EXCEPT ![w] = Idle]
  /\ UNCHANGED <<movies, theaters, showtimes, suspect>>

Init ==
  /\ movies = [m \in Movies |-> None]
  /\ theaters = [t \in Theaters |-> None]
  /\ showtimes = [s \in Showtimes |-> None]
  /\ task = [w \in Workers |-> Idle]
  /\ suspect = {}

\* The forms of the console send any duration that is a whole number; Durations
\* supposes it is no more than the window.
MovieRequest(w) ==
  \E m \in Movies : RemoveMovie(w, m) \/ \E d \in Durations : UpdateMovie(w, m, d)

TheaterRequest(w) ==
  \E t \in Theaters : UpdateTheater(w, t) \/ \E layout \in Layout : CreateTheater(w, t, layout)

ShowtimeRequest(w) ==
  \E s \in Showtimes :
    TouchShowtime(w, s) \/ \E row \in Showtime : CreateShowtime(w, s, row) \/ UpdateShowtime(w, s, row)

\* What an admin may ask for; reading changes nothing.
Request(w) == MovieRequest(w) \/ TheaterRequest(w) \/ ShowtimeRequest(w)

Proceed(w) == \/ CheckSlot(w) \/ SaveShowtime(w) \/ SaveMovie(w) \/ DeleteMovie(w)
              \/ SaveSeats(w) \/ SaveTheater(w) \/ HandlerLost(w)

Next ==
  \/ \E w \in Workers : Request(w) \/ Proceed(w)
  \/ \E s \in Showtimes : RemoveShowtime(s)
  \/ \E m \in Movies, d \in Durations : CreateMovie(m, d)
  \/ \E t \in Theaters : RemoveTheater(t)

Spec == Init /\ [][Next]_vars

-----------------------------------------------------------------------------

TypeOK ==
  /\ movies \in [Movies -> Durations \cup {None}]
  /\ theaters \in [Theaters -> Theater \cup {None}]
  /\ showtimes \in [Showtimes -> Showtime \cup {None}]
  /\ task \in [Workers -> Task \cup {Idle}]
  /\ suspect \subseteq Showtimes

\* What every page that shows a showtime relies on: its movie and its theatre
\* are there, however deletes, stale saves and re-inserts interleave (remove,
\* update).
ShowtimesComplete ==
  \A s \in Booked : /\ movies[showtimes[s].movie] # None
                     /\ theaters[showtimes[s].theater] # None

Overlapping(s, u) ==
  /\ showtimes[s].theater = showtimes[u].theater
  /\ overlaps(showtimes[s].startsAt, endOf(showtimes[s].startsAt, movies[showtimes[s].movie]),
              showtimes[u].startsAt, endOf(showtimes[u].startsAt, movies[showtimes[u].movie]))

\* assertNoOverlap is right whenever it is in time: two showtimes overlap in
\* one theatre only if one of them was written without a check, its check was
\* overtaken by another write in the theatre, or a movie changed its length.
\* The window of 240 minutes, its bounds and the excluded id lose nothing.
ScheduleSound ==
  \A s, u \in Booked : s # u /\ Overlapping(s, u) => {s, u} \cap suspect # {}

Rank == [REGULAR |-> 1, VIP |-> 2, COUPLE |-> 3]

\* In a theatre with its seats none is of a lesser category than the one in front
\* of it, and five rows of three seats or more include VIP seats, whatever the
\* rounding of the last quarter (categoryForRowCol).
GridSound ==
  \A t \in Theaters : theaters[t] # None /\ theaters[t].seated =>
    LET layout == theaters[t].layout
        grid == SeatGrid(layout)
    IN /\ \A row \in 1 .. layout.rows - 1, col \in 0 .. layout.cols - 1 :
            Rank[grid[row - 1][col]] <= Rank[grid[row][col]]
       /\ layout.rows >= 5 /\ layout.cols >= 3 => \E row \in DOMAIN grid : grid[row][0] = "VIP"

=============================================================================
