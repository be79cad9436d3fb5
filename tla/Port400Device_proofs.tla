------------------------ MODULE Port400Device_proofs ------------------------
(***************************************************************************)
(* Proofs about module Port400Device, for every reader, every sequence of  *)
(* operations and any number of faults and openings.                       *)
(***************************************************************************)
EXTENDS Port400Device, TLAPS

-----------------------------------------------------------------------------
(* Programs over worlds                                                     *)

\* What the driver believes of session, update mode, framing and Type F speed holds.
Sound(w) ==
    /\ w.session_open <=> w.r.session
    /\ w.r.update => ~w.r.session
    /\ w.r.short => w.r.session /\ w.modified_bit_framing
    /\ ~w.r.cut
    /\ w.type_f # NoSpeed => w.type_f = w.r.speed["F"]

\* A program that may go from w to v: faults only add up, and without a new one a
\* sound world stays sound and the RF speeds are not touched.
Keeps(w, v) ==
    /\ v \in World /\ w.faults <= v.faults
    /\ v.faults = w.faults /\ Sound(w) =>
         /\ Sound(v)
         /\ v.original = w.original /\ v.r.speed = w.r.speed /\ v.r.update = w.r.update

LEMMA KeepsItself ==
    ASSUME NEW w \in World PROVE Keeps(w, w)
BY Port400Assumption DEF Keeps, World

\* Programs follow one another.
LEMMA KeepsOn ==
    ASSUME NEW w \in World, NEW u, Keeps(w, u), NEW v, Keeps(u, v)
    PROVE  Keeps(w, v)
<1>1. w.faults \in Int /\ u.faults \in Int /\ v.faults \in Int
  BY Port400Assumption DEF Keeps, World
<1> QED
  BY <1>1 DEF Keeps

\* The commands that leave the session and the speeds alone, and every command.
Neutral ==
    [op : {"switch", "get_data", "comm_speed"}] \cup [op : {"rf"}, on : BOOLEAN]
SpeedCommand ==
    [op : {"get_speed"}, p : Protocols] \cup [op : {"set_speed"}, p : Protocols, code : Codes]
AnyCommand ==
    Neutral \cup SpeedCommand \cup [op : {"start", "end", "reset"}]
        \cup [op : {"exchange"}, framing : {"short", "reset", "keep"}]

LEMMA DoesIsTyped ==
    ASSUME NEW c \in AnyCommand, NEW r \in Reader, Accepts(c, r)
    PROVE  Does(c, r) \in Reader
<1>1. Does(c, r) \in [session : BOOLEAN, speed : [Protocols -> Codes], rf : BOOLEAN,
                      short : BOOLEAN, cut : BOOLEAN, update : BOOLEAN]
  BY DEF AnyCommand, Neutral, SpeedCommand, Reader, Does
<1>2. Does(c, r).update = r.update
  BY DEF AnyCommand, Neutral, SpeedCommand, Reader, Does
<1>3. c.op \in {"start", "exchange"} => ~r.update
  BY DEF Accepts
<1>4. /\ c.op # "start" => Does(c, r).session \in {FALSE, r.session}
      /\ c.op # "exchange" => Does(c, r).short \in {FALSE, r.short}
  BY DEF AnyCommand, Neutral, SpeedCommand, Reader, Does
<1>5. r.update => ~r.session /\ ~r.short
  BY DEF Reader
<1>6. Does(c, r).update => ~Does(c, r).session /\ ~Does(c, r).short
  BY <1>2, <1>3, <1>4, <1>5
<1> QED
  BY <1>1, <1>6 DEF Reader

\* When the reader takes the commands of a session, and what they do.
LEMMA SessionCommands ==
    ASSUME NEW r \in Reader, NEW x \in BOOLEAN
    PROVE  /\ Accepts(Simple("start"), r) <=> ~r.update /\ ~r.session
           /\ Accepts(Simple("end"), r) <=> ~r.update /\ r.session
           /\ Accepts([op |-> "rf", on |-> x], r) <=> ~r.update /\ r.session
           /\ Does(Simple("start"), r) = [r EXCEPT !.session = TRUE, !.short = FALSE]
           /\ Does(Simple("end"), r) = [r EXCEPT !.session = FALSE, !.short = FALSE]
           /\ Does([op |-> "rf", on |-> x], r) = [r EXCEPT !.rf = x]
<1>1. r.session \in BOOLEAN /\ r.update \in BOOLEAN
  BY DEF Reader
<1>2. Accepts(Simple("start"), r) <=> ~r.update /\ ~r.session
  BY <1>1 DEF Accepts, Simple
<1>3. Accepts(Simple("end"), r) <=> ~r.update /\ r.session
  BY <1>1 DEF Accepts, Simple
<1>4. Accepts([op |-> "rf", on |-> x], r) <=> ~r.update /\ r.session
  BY <1>1 DEF Accepts
<1>5. /\ Does(Simple("start"), r) = [r EXCEPT !.session = TRUE, !.short = FALSE]
      /\ Does(Simple("end"), r) = [r EXCEPT !.session = FALSE, !.short = FALSE]
  BY DEF Does, Simple
<1>6. Does([op |-> "rf", on |-> x], r) = [r EXCEPT !.rf = x]
  BY DEF Does
<1> QED
  BY <1>2, <1>3, <1>4, <1>5, <1>6

\* A command without a fault has one outcome.
Expected(w, c) ==
    IF w.err THEN w
    ELSE IF Accepts(c, w.r) THEN [w EXCEPT !.r = Does(c, w.r)] ELSE [w EXCEPT !.err = TRUE]

\* What no command touches, fault or not.
SameDriver(w, v) ==
    /\ v.session_open = w.session_open /\ v.original = w.original /\ v.type_f = w.type_f
    /\ v.modified_bit_framing = w.modified_bit_framing

LEMMA CommandEnds ==
    ASSUME NEW w \in World, NEW c \in AnyCommand, NEW v \in Command(w, c)
    PROVE  /\ v \in World /\ w.faults <= v.faults
           /\ v.faults = w.faults => v = Expected(w, c)
           /\ ~v.err => v.faults = w.faults
           /\ SameDriver(w, v) /\ v.r \in {w.r, Does(c, w.r)}
<1>1. w.faults \in 0..MaxFaults /\ MaxFaults \in Nat /\ w.r \in Reader
  BY Port400Assumption DEF World
<1>2. CASE w.err
  BY <1>1, <1>2 DEF Command, Expected, SameDriver
<1> DEFINE refused == [w EXCEPT !.err = TRUE]
<1>3. /\ refused \in World /\ refused.faults = w.faults /\ SameDriver(w, refused)
      /\ refused.r = w.r /\ refused.err
  BY DEF World, SameDriver
<1>4. CASE ~w.err /\ ~Accepts(c, w.r)
  <2>1. v = refused /\ Expected(w, c) = refused
    BY <1>4 DEF Command, Expected
  <2> HIDE DEF refused
  <2> QED
    BY <1>1, <1>3, <2>1
<1>5. CASE ~w.err /\ Accepts(c, w.r)
  <2> DEFINE done == [w EXCEPT !.r = Does(c, w.r)]
  <2>1. Does(c, w.r) \in Reader
    BY <1>1, <1>5, DoesIsTyped
  <2>2. done \in World /\ done.faults = w.faults /\ done.r = Does(c, w.r) /\ SameDriver(w, done)
    BY <2>1 DEF World, SameDriver
  <2>3. ASSUME NEW x \in World, x.faults = w.faults, w.faults < MaxFaults, SameDriver(w, x)
        PROVE  /\ Fault(x) \in World /\ Fault(x).faults = w.faults + 1 /\ SameDriver(w, Fault(x))
               /\ Fault(x).err /\ Fault(x).r = x.r
    <3>1. x.faults + 1 \in 0..MaxFaults /\ x.faults + 1 = w.faults + 1
      BY <1>1, <2>3
    <3>2. PICK n : n = x.faults + 1
      OBVIOUS
    <3>3. Fault(x) = [x EXCEPT !.err = TRUE, !.faults = n]
      BY <3>2 DEF Fault
    <3> QED
      BY <2>3, <3>1, <3>2, <3>3 DEF World, SameDriver
  <2>4. \/ v = done
        \/ w.faults < MaxFaults /\ v \in {Fault(w), Fault(done)}
    BY <1>5 DEF Command
  <2>5. Expected(w, c) = done
    BY <1>5 DEF Expected
  <2>6. SameDriver(w, w)
    BY DEF SameDriver
  <2> HIDE DEF done
  <2>7. CASE v = done
    BY <1>1, <2>2, <2>5, <2>7
  <2>8. CASE w.faults < MaxFaults /\ v = Fault(w)
    BY <1>1, <2>3, <2>6, <2>8
  <2>9. CASE w.faults < MaxFaults /\ v = Fault(done)
    BY <1>1, <2>2, <2>3, <2>9
  <2> QED
    BY <2>4, <2>7, <2>8, <2>9
<1> QED
  BY <1>2, <1>4, <1>5

LEMMA NeutralKeeps ==
    ASSUME NEW w \in World, NEW c \in Neutral, NEW v \in Command(w, c)
    PROVE  Keeps(w, v)
<1>1. /\ v \in World /\ w.faults <= v.faults
      /\ v.faults = w.faults => v = Expected(w, c)
  BY CommandEnds DEF AnyCommand
<1>2. ASSUME Sound(w) PROVE Sound(Expected(w, c)) /\ Expected(w, c).original = w.original
        /\ Expected(w, c).r.speed = w.r.speed /\ Expected(w, c).r.update = w.r.update
  BY <1>2 DEF Expected, Sound, Neutral, Does, World, Reader
<1> QED
  BY <1>1, <1>2 DEF Keeps

\* pcsc: switch_protocol.
LEMMA SwitchKeeps ==
    ASSUME NEW w \in World, NEW v \in switch_protocol(w)
    PROVE  /\ Keeps(w, v)
           /\ v.faults = w.faults /\ ~w.err /\ w.r.session /\ ~w.r.update =>
                v = [w EXCEPT !.r.short = FALSE, !.modified_bit_framing = FALSE]
<1>1. PICK a \in Command(w, Simple("switch")) :
          v = IF a.err THEN a ELSE [a EXCEPT !.modified_bit_framing = FALSE]
  BY DEF switch_protocol, Then
<1>2. Simple("switch") \in Neutral /\ Simple("switch") \in AnyCommand
  BY DEF Simple, Neutral, AnyCommand
<1>3. /\ Keeps(w, a)
      /\ a.faults = w.faults => a = Expected(w, Simple("switch"))
  BY <1>1, <1>2, NeutralKeeps, CommandEnds
<1>4. a \in World
  BY <1>3 DEF Keeps
<1>5. v \in World /\ v.faults = a.faults
  BY <1>1, <1>4 DEF World
<1>6. ASSUME ~w.err, Sound(w), a = Expected(w, Simple("switch")), ~a.err
      PROVE  /\ Sound(v)
             /\ v.original = w.original /\ v.r.speed = w.r.speed /\ v.r.update = w.r.update
  BY <1>1, <1>6 DEF Expected, Simple, Sound, Does, World, Reader
<1>7. ASSUME ~w.err, w.r.session, ~w.r.update, a = Expected(w, Simple("switch"))
      PROVE  v = [w EXCEPT !.r.short = FALSE, !.modified_bit_framing = FALSE]
  <2>1. a = [w EXCEPT !.r = [w.r EXCEPT !.short = FALSE]]
    BY <1>7 DEF Expected, Simple, Accepts, Does
  <2>2. ~a.err
    BY <1>7, <2>1 DEF World
  <2> QED
    BY <1>1, <2>1, <2>2 DEF World, Reader
<1>8. w.err => v = w
  BY <1>1 DEF Command
<1> QED
  BY <1>1, <1>3, <1>5, <1>6, <1>7, <1>8, KeepsItself DEF Keeps

\* pcsc: transparent_exchange.  A command of whole bytes resets the framing exactly when
\* it has to.
LEMMA ExchangeKeeps ==
    ASSUME NEW w \in World, NEW short \in BOOLEAN, NEW v \in transparent_exchange(w, short)
    PROVE  Keeps(w, v)
<1>1. CASE w.err
  BY <1>1, KeepsItself DEF transparent_exchange
<1>2. CASE ~w.err
  <2> DEFINE framing == IF short THEN "short" ELSE IF w.modified_bit_framing THEN "reset" ELSE "keep"
             c == [op |-> "exchange", framing |-> framing]
             u == [w EXCEPT !.modified_bit_framing = short]
  <2>1. u \in World /\ c \in AnyCommand /\ u.faults = w.faults
    BY DEF World, AnyCommand
  <2>2. v \in Command(u, c)
    BY <1>2 DEF transparent_exchange
  <2> HIDE DEF u, c
  <2>3. /\ v \in World /\ w.faults <= v.faults
        /\ v.faults = w.faults => v = Expected(u, c)
    BY <2>1, <2>2, CommandEnds
  <2>4. ASSUME Sound(w), v = Expected(u, c)
        PROVE  /\ Sound(v)
               /\ v.original = w.original /\ v.r.speed = w.r.speed /\ v.r.update = w.r.update
    <3>1. CASE ~Accepts(c, u.r)
      <4>1. v = [u EXCEPT !.err = TRUE]
        BY <1>2, <2>4, <3>1 DEF Expected, u, World
      <4>2. ~w.r.session
        BY <2>1, <2>4, <3>1 DEF Accepts, Sound, c, u, World, Reader
      <4> QED
        BY <2>1, <2>4, <4>1, <4>2 DEF Sound, u, World, Reader
    <3>2. CASE Accepts(c, u.r)
      <4>1. v = [u EXCEPT !.r = Does(c, u.r)]
        BY <1>2, <2>4, <3>2 DEF Expected, u, World
      <4>2. Does(c, u.r) = [w.r EXCEPT !.short = (framing = "short") \/ (framing = "keep" /\ w.r.short),
                                       !.cut = framing = "keep" /\ w.r.short]
        BY DEF Does, c, u, World
      <4>3. framing = "keep" => ~w.r.short
        BY <2>4 DEF Sound
      <4>4. w.r.session /\ (framing = "short" => short)
        BY <3>2 DEF Accepts, c, u, World
      <4>5. PICK r \in Reader : r = [w.r EXCEPT !.short = short, !.cut = FALSE]
        BY <4>4 DEF World, Reader
      <4>6. Does(c, u.r) = r
        BY <4>2, <4>3, <4>5 DEF World, Reader
      <4>7. v.r = r /\ v.modified_bit_framing = short /\ v.original = w.original
            /\ v.type_f = w.type_f /\ v.session_open = w.session_open
        BY <4>1, <4>6 DEF u, World
      <4> QED
        BY <2>4, <4>4, <4>5, <4>7 DEF Sound, World, Reader
    <3> QED
      BY <3>1, <3>2
  <2> QED
    BY <2>3, <2>4 DEF Keeps
<1> QED
  BY <1>1, <1>2

\* pcsc: end_transparent_session.
Ended(w) == [w EXCEPT !.r = [w.r EXCEPT !.session = FALSE, !.short = FALSE, !.rf = FALSE],
                      !.modified_bit_framing = FALSE]
LEMMA EndEnds ==
    ASSUME NEW w \in World, ~w.err, NEW v \in end_transparent_session(w)
    PROVE  /\ v \in World /\ w.faults <= v.faults
           /\ v.faults = w.faults =>
                v = IF w.r.session /\ ~w.r.update THEN Ended(w) ELSE [w EXCEPT !.err = TRUE]
<1> DEFINE off == [op |-> "rf", on |-> FALSE]
<1>0. PICK e \in Ignore(Command(w, off)) : \E b \in Command(e, Simple("end")) :
          v = IF b.err THEN b ELSE [b EXCEPT !.modified_bit_framing = FALSE]
  BY DEF end_transparent_session, Then
<1>1. PICK a0 \in Command(w, off) : e = [a0 EXCEPT !.err = FALSE]
  BY DEF Ignore
<1>2. off \in AnyCommand /\ Simple("end") \in AnyCommand
  BY DEF Simple, Neutral, AnyCommand
<1>3. a0 \in World /\ w.faults <= a0.faults /\ (a0.faults = w.faults => a0 = Expected(w, off))
  BY <1>1, <1>2, CommandEnds
<1>4. PICK a \in World : a = e /\ a = [a0 EXCEPT !.err = FALSE]
  BY <1>1, <1>3 DEF World
<1>5. a.faults = a0.faults
  BY <1>3, <1>4 DEF World
<1>6. PICK b \in Command(a, Simple("end")) :
          v = IF b.err THEN b ELSE [b EXCEPT !.modified_bit_framing = FALSE]
  BY <1>0, <1>4
<1>7. b \in World /\ a.faults <= b.faults /\ (b.faults = a.faults => b = Expected(a, Simple("end")))
  BY <1>2, <1>6, CommandEnds
<1>8. v \in World /\ v.faults = b.faults
  BY <1>6, <1>7 DEF World
<1>9. w.faults \in Int /\ a.faults \in Int /\ b.faults \in Int
  BY <1>7 DEF World
<1>10. ASSUME w.r.session /\ ~w.r.update, a0 = Expected(w, off), b = Expected(a, Simple("end"))
       PROVE  v = Ended(w)
  <2>1. a = [w EXCEPT !.r = [w.r EXCEPT !.rf = FALSE]]
    <3>1. w.r \in Reader /\ Accepts(off, w.r) /\ Does(off, w.r) = [w.r EXCEPT !.rf = FALSE]
      BY <1>10, SessionCommands DEF World
    <3>2. a0 = [w EXCEPT !.r = [w.r EXCEPT !.rf = FALSE]]
      BY <1>10, <3>1 DEF Expected
    <3> QED
      BY <1>4, <3>2 DEF World
  <2>2. b = [a EXCEPT !.r = [a.r EXCEPT !.session = FALSE, !.short = FALSE]]
    BY <1>10, <2>1 DEF Expected, Accepts, Does, Simple, World, Reader
  <2> QED
    BY <1>6, <2>1, <2>2 DEF Ended, World, Reader
<1>11. ASSUME ~(w.r.session /\ ~w.r.update), a0 = Expected(w, off), b = Expected(a, Simple("end"))
       PROVE  v = [w EXCEPT !.err = TRUE]
  <2>1. a = w
    BY <1>4, <1>11 DEF Expected, Accepts, World, Reader
  <2>2. b = [w EXCEPT !.err = TRUE]
    BY <1>11, <2>1 DEF Expected, Accepts, Simple, World, Reader
  <2> QED
    BY <1>6, <2>2 DEF World
<1>12. v.faults = w.faults => a0.faults = w.faults /\ b.faults = a.faults
  BY <1>3, <1>5, <1>7, <1>8, <1>9
<1>13. w.faults <= v.faults
  BY <1>3, <1>5, <1>7, <1>8, <1>9
<1> QED
  BY <1>3, <1>7, <1>8, <1>10, <1>11, <1>12, <1>13

\* pcsc: start_transparent_session.
Started(w) == [w EXCEPT !.r = [w.r EXCEPT !.session = TRUE, !.short = FALSE, !.rf = TRUE],
                        !.modified_bit_framing = FALSE]
LEMMA StartEnds ==
    ASSUME NEW w \in World, ~w.err, NEW priority \in BOOLEAN,
           NEW v \in start_transparent_session(w, priority)
    PROVE  /\ v \in World /\ w.faults <= v.faults
           /\ v.faults = w.faults =>
                /\ ~w.r.update /\ (priority \/ ~w.r.session) => v = Started(w)
                /\ ~priority /\ (w.r.session \/ w.r.update) => v = [w EXCEPT !.err = TRUE]
           /\ ~v.err =>
                /\ v.r.session /\ ~v.r.short /\ ~v.r.update /\ v.r.cut = w.r.cut
                /\ v.original = w.original /\ v.type_f = w.type_f /\ v.session_open = w.session_open
<1> DEFINE off == [op |-> "rf", on |-> FALSE]
           on == [op |-> "rf", on |-> TRUE]
           free == IF priority THEN Ignore(Command(w, Simple("end"))) ELSE {w}
<1>0. PICK a \in free : \E b \in Command(a, Simple("start")) : \E c \in Command(b, off) :
        \E d \in Command(c, on) : v = IF d.err THEN d ELSE [d EXCEPT !.modified_bit_framing = FALSE]
  BY DEF start_transparent_session, Then
<1>1. PICK b, c, d :
          /\ b \in Command(a, Simple("start")) /\ c \in Command(b, off) /\ d \in Command(c, on)
          /\ v = IF d.err THEN d ELSE [d EXCEPT !.modified_bit_framing = FALSE]
  BY <1>0
<1>2. /\ off \in AnyCommand /\ on \in AnyCommand
      /\ Simple("end") \in AnyCommand /\ Simple("start") \in AnyCommand
  BY DEF Simple, Neutral, AnyCommand
<1>3. /\ a \in World /\ w.faults <= a.faults /\ ~a.err
      /\ a.faults = w.faults =>
           \/ a = w /\ (priority => ~w.r.session \/ w.r.update)
           \/ a = [w EXCEPT !.r = [w.r EXCEPT !.session = FALSE, !.short = FALSE]] /\ priority
  <2>1. CASE ~priority
    BY <1>0, <2>1 DEF World
  <2>2. CASE priority
    <3>1. PICK a0 \in Command(w, Simple("end")) : a = [a0 EXCEPT !.err = FALSE]
      BY <1>0, <2>2 DEF Ignore
    <3>2. a0 \in World /\ w.faults <= a0.faults /\ (a0.faults = w.faults => a0 = Expected(w, Simple("end")))
      BY <1>2, <3>1, CommandEnds
    <3>3. a \in World /\ a.faults = a0.faults /\ ~a.err
      BY <3>1, <3>2 DEF World
    <3>4. ASSUME a0 = Expected(w, Simple("end"))
          PROVE  \/ a = w /\ (priority => ~w.r.session \/ w.r.update)
                 \/ a = [w EXCEPT !.r = [w.r EXCEPT !.session = FALSE, !.short = FALSE]] /\ priority
      <4>1. CASE Accepts(Simple("end"), w.r)
        BY <2>2, <3>1, <3>4, <4>1 DEF Expected, Does, Simple, World
      <4>2. CASE ~Accepts(Simple("end"), w.r)
        <5>1. a = w
          BY <3>1, <3>4, <4>2 DEF Expected, World
        <5>2. ~w.r.session \/ w.r.update
          BY <4>2 DEF Accepts, Simple
        <5> QED
          BY <5>1, <5>2
      <4> QED
        BY <4>1, <4>2
    <3> QED
      BY <3>2, <3>3, <3>4
  <2> QED
    BY <2>1, <2>2
<1>4. b \in World /\ a.faults <= b.faults /\ (b.faults = a.faults => b = Expected(a, Simple("start")))
  BY <1>1, <1>2, <1>3, CommandEnds
<1>5. c \in World /\ b.faults <= c.faults /\ (c.faults = b.faults => c = Expected(b, off))
  BY <1>1, <1>2, <1>4, CommandEnds
<1>6. d \in World /\ c.faults <= d.faults /\ (d.faults = c.faults => d = Expected(c, on))
  BY <1>1, <1>2, <1>5, CommandEnds
<1>7. v \in World /\ v.faults = d.faults
  BY <1>1, <1>6 DEF World
<1>8. /\ w.faults \in Int /\ a.faults \in Int /\ b.faults \in Int /\ c.faults \in Int /\ d.faults \in Int
  BY <1>3, <1>4, <1>5, <1>6 DEF World
<1>9. /\ w.faults <= v.faults
      /\ v.faults = w.faults => /\ a.faults = w.faults /\ b.faults = a.faults
                                /\ c.faults = b.faults /\ d.faults = c.faults
  BY <1>3, <1>4, <1>5, <1>6, <1>7, <1>8
<1>10. ASSUME b = Expected(a, Simple("start")), c = Expected(b, off), d = Expected(c, on),
              ~a.r.update, ~a.r.session
       PROVE  v = Started(a)
  <2>1. b = [a EXCEPT !.r = [a.r EXCEPT !.session = TRUE, !.short = FALSE]]
    BY <1>3, <1>10 DEF Expected, Accepts, Does, Simple
  <2>2. b.r \in Reader /\ ~b.r.update /\ b.r.session /\ ~b.err
    BY <1>3, <1>4, <1>10, <2>1 DEF World, Reader
  <2>3. c = [b EXCEPT !.r = [b.r EXCEPT !.rf = FALSE]]
    BY <1>10, <2>2, SessionCommands DEF Expected
  <2>4. c.r \in Reader /\ ~c.r.update /\ c.r.session /\ ~c.err
    BY <1>4, <2>2, <2>3 DEF World, Reader
  <2>5. d = [c EXCEPT !.r = [c.r EXCEPT !.rf = TRUE]]
    BY <1>10, <2>4, SessionCommands DEF Expected
  <2> QED
    <3>1. ~d.err /\ v = [d EXCEPT !.modified_bit_framing = FALSE]
      BY <1>1, <1>5, <2>4, <2>5 DEF World
    <3>2. d.r = [a.r EXCEPT !.session = TRUE, !.short = FALSE, !.rf = TRUE]
      BY <1>3, <1>4, <1>5, <2>1, <2>3, <2>5 DEF World, Reader
    <3>3. d = [a EXCEPT !.r = d.r]
      BY <1>3, <1>4, <1>5, <2>1, <2>3, <2>5 DEF World
    <3> QED
      BY <1>3, <3>1, <3>2, <3>3 DEF Started, World
<1>11. ASSUME b = Expected(a, Simple("start")), c = Expected(b, off), d = Expected(c, on),
              a.r.update \/ a.r.session
       PROVE  v = [a EXCEPT !.err = TRUE]
  <2>1. b = [a EXCEPT !.err = TRUE]
    <3>1. a.r \in Reader
      BY <1>3 DEF World
    <3>2. ~Accepts(Simple("start"), a.r)
      BY <1>11, <3>1, SessionCommands
    <3> QED
      BY <1>3, <1>11, <3>2 DEF Expected
  <2>2. b.err /\ c = b /\ d = b
    BY <1>3, <1>11, <2>1 DEF Expected, World
  <2> QED
    BY <1>1, <2>1, <2>2
<1>12. ASSUME a = [w EXCEPT !.r = [w.r EXCEPT !.session = FALSE, !.short = FALSE]]
       PROVE  Started(a) = Started(w) /\ a.r.update = w.r.update /\ ~a.r.session
  BY <1>12 DEF Started, World, Reader
<1>13. ASSUME v.faults = w.faults, ~w.r.update, priority \/ ~w.r.session
       PROVE  v = Started(w)
  <2>1. ~a.r.update /\ ~a.r.session /\ Started(a) = Started(w)
    BY <1>3, <1>9, <1>12, <1>13
  <2> QED
    BY <1>4, <1>5, <1>6, <1>9, <1>10, <1>13, <2>1
<1>14. ASSUME v.faults = w.faults, ~priority, w.r.session \/ w.r.update
       PROVE  v = [w EXCEPT !.err = TRUE]
  <2>1. a = w
    BY <1>3, <1>9, <1>14
  <2> QED
    BY <1>4, <1>5, <1>6, <1>9, <1>11, <1>14, <2>1
<1>15. ASSUME ~v.err
       PROVE  /\ v.r.session /\ ~v.r.short /\ ~v.r.update /\ v.r.cut = w.r.cut
              /\ v.original = w.original /\ v.type_f = w.type_f /\ v.session_open = w.session_open
  <2>1. ~d.err
    BY <1>1, <1>6, <1>15 DEF World
  <2>2. d.faults = c.faults /\ d = Expected(c, on)
    BY <1>1, <1>2, <1>5, <1>6, <2>1, CommandEnds
  <2>3. ~c.err
    BY <1>5, <2>1, <2>2 DEF Expected
  <2>4. c.faults = b.faults /\ c = Expected(b, off)
    BY <1>1, <1>2, <1>4, <1>5, <2>3, CommandEnds
  <2>5. ~b.err
    BY <1>4, <2>3, <2>4 DEF Expected
  <2>6. b.faults = a.faults /\ b = Expected(a, Simple("start"))
    BY <1>1, <1>2, <1>3, <1>4, <2>5, CommandEnds
  <2>7. a.r \in Reader /\ a.r.update \in BOOLEAN /\ a.r.session \in BOOLEAN
    BY <1>3 DEF World, Reader
  <2>8. Accepts(Simple("start"), a.r)
    BY <1>3, <2>5, <2>6 DEF Expected, World
  <2>9. ~a.r.update /\ ~a.r.session
    BY <2>7, <2>8, SessionCommands
  <2>10. v = Started(a)
    BY <1>10, <2>2, <2>4, <2>6, <2>9
  <2>11. v.r = [a.r EXCEPT !.session = TRUE, !.short = FALSE, !.rf = TRUE]
         /\ v.original = a.original /\ v.type_f = a.type_f /\ v.session_open = a.session_open
    BY <1>3, <2>10 DEF Started, World
  <2>12. v.r.session /\ ~v.r.short /\ ~v.r.update /\ v.r.cut = a.r.cut
    BY <2>7, <2>9, <2>11 DEF Reader
  <2>13. /\ a.r.cut = w.r.cut /\ a.original = w.original /\ a.type_f = w.type_f
         /\ a.session_open = w.session_open
    <3>1. CASE ~priority
      BY <1>0, <3>1
    <3>2. CASE priority
      <4>1. PICK a0 \in Command(w, Simple("end")) : a = [a0 EXCEPT !.err = FALSE]
        BY <1>0, <3>2 DEF Ignore
      <4>2. a0 \in World /\ SameDriver(w, a0) /\ a0.r \in {w.r, Does(Simple("end"), w.r)}
        BY <1>2, <4>1, CommandEnds
      <4>3. w.r \in Reader
        BY DEF World
      <4>4. Does(Simple("end"), w.r).cut = w.r.cut
        BY <4>3, SessionCommands DEF Reader
      <4>5. /\ a.r = a0.r /\ a.original = a0.original /\ a.type_f = a0.type_f
            /\ a.session_open = a0.session_open
        BY <4>1, <4>2 DEF World
      <4> QED
        BY <4>2, <4>4, <4>5 DEF SameDriver
    <3> QED
      BY <3>1, <3>2
  <2> QED
    BY <2>11, <2>12, <2>13
<1> QED
  BY <1>7, <1>9, <1>13, <1>14, <1>15

\* start_rffe_parameter_mode and end_rffe_parameter_mode.
LEMMA RffeKeeps ==
    ASSUME NEW w \in World, ~w.err,
           NEW v \in start_rffe_parameter_mode(w) \cup end_rffe_parameter_mode(w)
    PROVE  Keeps(w, v)
<1>1. CASE v \in start_rffe_parameter_mode(w)
  <2>1. PICK a \in end_transparent_session(w) :
            v = IF a.err THEN a ELSE [a EXCEPT !.session_open = FALSE]
    BY <1>1 DEF start_rffe_parameter_mode, Then
  <2>2. /\ a \in World /\ w.faults <= a.faults
        /\ a.faults = w.faults =>
             a = IF w.r.session /\ ~w.r.update THEN Ended(w) ELSE [w EXCEPT !.err = TRUE]
    BY <2>1, EndEnds
  <2>3. v \in World /\ v.faults = a.faults
    BY <2>1, <2>2 DEF World
  <2>4. ASSUME Sound(w), a = IF w.r.session /\ ~w.r.update THEN Ended(w) ELSE [w EXCEPT !.err = TRUE]
        PROVE  /\ Sound(v)
               /\ v.original = w.original /\ v.r.speed = w.r.speed /\ v.r.update = w.r.update
    <3>1. CASE w.r.session /\ ~w.r.update
      BY <2>1, <2>4, <3>1 DEF Sound, Ended, World, Reader
    <3>2. CASE ~(w.r.session /\ ~w.r.update)
      BY <2>1, <2>4, <3>2 DEF Sound, World, Reader
    <3> QED
      BY <3>1, <3>2
  <2> QED
    BY <2>2, <2>3, <2>4 DEF Keeps
<1>2. CASE v \in end_rffe_parameter_mode(w)
  <2>1. PICK a \in start_transparent_session(w, FALSE) :
            v = IF a.err THEN a ELSE [a EXCEPT !.session_open = TRUE]
    BY <1>2 DEF end_rffe_parameter_mode, Then
  <2>2. /\ a \in World /\ w.faults <= a.faults
        /\ a.faults = w.faults =>
             /\ ~w.r.update /\ ~w.r.session => a = Started(w)
             /\ w.r.session \/ w.r.update => a = [w EXCEPT !.err = TRUE]
    BY <2>1, StartEnds
  <2>3. v \in World /\ v.faults = a.faults
    BY <2>1, <2>2 DEF World
  <2>4. ASSUME Sound(w), a.faults = w.faults
        PROVE  /\ Sound(v)
               /\ v.original = w.original /\ v.r.speed = w.r.speed /\ v.r.update = w.r.update
    <3>1. CASE ~w.r.update /\ ~w.r.session
      <4>1. a = Started(w) /\ ~a.err
        BY <2>2, <2>4, <3>1 DEF Started, World
      <4>2. v = [a EXCEPT !.session_open = TRUE]
        BY <2>1, <4>1
      <4>3. /\ v.r = [w.r EXCEPT !.session = TRUE, !.short = FALSE, !.rf = TRUE] /\ v.session_open
            /\ v.original = w.original /\ v.type_f = w.type_f
        BY <4>1, <4>2 DEF Started, World
      <4>4. /\ v.r.session /\ ~v.r.short /\ v.r.cut = w.r.cut
            /\ v.r.speed = w.r.speed /\ v.r.update = w.r.update
        BY <4>3 DEF World, Reader
      <4> QED
        BY <2>4, <3>1, <4>3, <4>4 DEF Sound
    <3>2. CASE w.r.session \/ w.r.update
      BY <2>1, <2>2, <2>4, <3>2 DEF Sound, World, Reader
    <3>3. w.r.session \in BOOLEAN /\ w.r.update \in BOOLEAN
      BY DEF World, Reader
    <3> QED
      BY <3>1, <3>2, <3>3
  <2> QED
    BY <2>2, <2>3, <2>4 DEF Keeps
<1> QED
  BY <1>1, <1>2

\* A speed command was carried out, and everything else is as before.
Spoken(w, v, c) ==
    /\ ~v.err /\ ~v.r.update /\ ~v.r.short /\ ~v.r.cut
    /\ v.original = w.original /\ v.type_f = w.type_f
    /\ v.session_open = w.session_open /\ v.r.session = w.r.session
    /\ v.r.speed = Does(c, w.r).speed

LEMMA SpeedCommands ==
    ASSUME NEW r \in Reader, NEW c \in SpeedCommand
    PROVE  /\ c \in AnyCommand
           /\ Accepts(c, r) <=> ~r.update /\ ~r.session
           /\ Does(c, r) = [r EXCEPT !.speed = Does(c, r).speed]
           /\ c.op = "get_speed" => Does(c, r).speed = r.speed
           /\ c.op = "set_speed" => Does(c, r).speed = [r.speed EXCEPT ![c.p] = c.code]
<1>1. r.session \in BOOLEAN /\ r.update \in BOOLEAN
  BY DEF Reader
<1>2. c \in AnyCommand
  BY DEF AnyCommand
<1>3. c.op \in {"get_speed", "set_speed"}
  BY DEF SpeedCommand
<1>4. Accepts(c, r) <=> ~r.update /\ ~r.session
  BY <1>1, <1>3 DEF Accepts
<1>5. CASE c.op = "get_speed"
  BY <1>2, <1>4, <1>5 DEF Does, Reader
<1>6. CASE c.op = "set_speed"
  BY <1>2, <1>4, <1>6 DEF Does, Reader
<1> QED
  BY <1>3, <1>5, <1>6

\* without_transparent_session: whether or not the session has to be interrupted.
LEMMA SpeedCommandEnds ==
    ASSUME NEW w \in World, ~w.err, NEW c \in SpeedCommand,
           NEW v \in without_transparent_session(w, c)
    PROVE  /\ v \in World /\ w.faults <= v.faults
           /\ v.faults = w.faults /\ Sound(w) =>
                IF w.r.update THEN v = [w EXCEPT !.err = TRUE] ELSE Spoken(w, v, c)
<1>0. w.r \in Reader /\ c \in AnyCommand
  BY SpeedCommands DEF World
<1>1. CASE ~w.session_open
  <2>1. v \in Command(w, c)
    BY <1>1 DEF without_transparent_session
  <2>2. v \in World /\ w.faults <= v.faults /\ (v.faults = w.faults => v = Expected(w, c))
    BY <1>0, <2>1, CommandEnds
  <2>3. ASSUME v = Expected(w, c), Sound(w)
        PROVE  IF w.r.update THEN v = [w EXCEPT !.err = TRUE] ELSE Spoken(w, v, c)
    <3>1. ~w.r.session /\ ~w.r.short /\ ~w.r.cut
      BY <1>1, <2>3 DEF Sound
    <3>2. CASE w.r.update
      BY <1>0, <2>3, <3>2, SpeedCommands DEF Expected
    <3>3. CASE ~w.r.update
      <4>1. v = [w EXCEPT !.r = Does(c, w.r)]
        BY <1>0, <2>3, <3>1, <3>3, SpeedCommands DEF Expected
      <4>2. v.r = [w.r EXCEPT !.speed = Does(c, w.r).speed]
        BY <1>0, <4>1, SpeedCommands DEF World
      <4> QED
        BY <3>1, <3>3, <4>1, <4>2 DEF Spoken, World, Reader
    <3> QED
      BY <3>2, <3>3
  <2> QED
    BY <2>2, <2>3
<1>2. CASE w.session_open
  <2>1. PICK a \in end_transparent_session(w) :
          v \in IF a.err THEN {a}
                ELSE Then(Command([a EXCEPT !.session_open = FALSE], c), LAMBDA b :
                     Then(start_transparent_session([b EXCEPT !.err = FALSE], FALSE), LAMBDA d :
                          IF d.err THEN {d}
                          ELSE Then(switch_protocol([d EXCEPT !.session_open = TRUE]), LAMBDA e :
                               {IF e.err THEN e
                                ELSE [IsoDepEnded(e) EXCEPT !.err = b.err]})))
    BY <1>2 DEF without_transparent_session, Then
  <2>2. /\ a \in World /\ w.faults <= a.faults
        /\ a.faults = w.faults =>
             a = IF w.r.session /\ ~w.r.update THEN Ended(w) ELSE [w EXCEPT !.err = TRUE]
    BY EndEnds
  <2>3. CASE a.err
    <3>1. v = a
      BY <2>1, <2>3
    <3>2. a.faults = w.faults /\ Sound(w) => FALSE
      BY <1>2, <2>2, <2>3 DEF Sound, Ended, World
    <3> QED
      BY <2>2, <3>1, <3>2
  <2>4. CASE ~a.err
    <3>1. PICK a1 \in World : a1 = [a EXCEPT !.session_open = FALSE]
      BY <2>2 DEF World
    <3>2. PICK b \in Command(a1, c) :
            v \in Then(start_transparent_session([b EXCEPT !.err = FALSE], FALSE), LAMBDA d :
                          IF d.err THEN {d}
                          ELSE Then(switch_protocol([d EXCEPT !.session_open = TRUE]), LAMBDA e :
                               {IF e.err THEN e
                                ELSE [IsoDepEnded(e) EXCEPT !.err = b.err]}))
      BY <2>1, <2>4, <3>1 DEF Then
    <3>3. b \in World /\ a1.faults <= b.faults /\ (b.faults = a1.faults => b = Expected(a1, c))
      BY <1>0, CommandEnds
    <3>4. PICK b1 \in World : b1 = [b EXCEPT !.err = FALSE]
      BY <3>3 DEF World
    <3>5. PICK d \in start_transparent_session(b1, FALSE) :
            v \in IF d.err THEN {d}
                  ELSE Then(switch_protocol([d EXCEPT !.session_open = TRUE]), LAMBDA e :
                            {IF e.err THEN e ELSE [IsoDepEnded(e) EXCEPT !.err = b.err]})
      BY <3>2, <3>4 DEF Then
    <3>6. /\ d \in World /\ b1.faults <= d.faults
          /\ d.faults = b1.faults /\ ~b1.r.update /\ ~b1.r.session => d = Started(b1)
      <4>1. ~b1.err
        BY <3>3, <3>4 DEF World
      <4> QED
        BY <4>1, <3>5, StartEnds
    <3>7. /\ a1.faults = a.faults /\ b1.faults = b.faults
          /\ w.faults \in Int /\ a.faults \in Int /\ b.faults \in Int /\ d.faults \in Int
      BY <2>2, <3>1, <3>3, <3>4, <3>6 DEF World
    <3>8. w.faults <= d.faults
      BY <2>2, <3>3, <3>6, <3>7
    <3>9. ASSUME d.faults = w.faults, Sound(w)
          PROVE  /\ d = Started(b1) /\ ~b.err /\ ~w.r.update /\ w.r.session
                 /\ b1.r = [w.r EXCEPT !.session = FALSE, !.short = FALSE, !.rf = FALSE,
                                       !.speed = Does(c, w.r).speed]
                 /\ b1.original = w.original /\ b1.type_f = w.type_f
      <4>1. a.faults = w.faults /\ b.faults = a1.faults /\ d.faults = b1.faults
        BY <2>2, <3>3, <3>6, <3>7, <3>9
      <4>2. w.r.session /\ ~w.r.update
        BY <1>2, <3>9 DEF Sound
      <4>3. a = Ended(w)
        BY <2>2, <4>1, <4>2
      <4>4. /\ ~a1.err /\ a1.original = w.original /\ a1.type_f = w.type_f
            /\ a1.r = [w.r EXCEPT !.session = FALSE, !.short = FALSE, !.rf = FALSE]
        BY <2>2, <2>4, <3>1, <4>3 DEF Ended, World
      <4>5. a1.r \in Reader /\ ~a1.r.update /\ ~a1.r.session /\ a1.r.speed = w.r.speed
        BY <4>2, <4>4 DEF World, Reader
      <4>6. b = [a1 EXCEPT !.r = Does(c, a1.r)]
        BY <3>3, <4>1, <4>4, <4>5, SpeedCommands DEF Expected
      <4>7. Does(c, a1.r).speed = Does(c, w.r).speed
        <5>1. c.op \in {"get_speed", "set_speed"}
          BY DEF SpeedCommand
        <5>2. CASE c.op = "get_speed"
          BY <1>0, <4>5, <5>2, SpeedCommands
        <5>3. CASE c.op = "set_speed"
          <6>1. Does(c, a1.r).speed = [a1.r.speed EXCEPT ![c.p] = c.code]
            BY <4>5, <5>3, SpeedCommands
          <6>2. Does(c, w.r).speed = [w.r.speed EXCEPT ![c.p] = c.code]
            BY <1>0, <5>3, SpeedCommands
          <6> QED
            BY <4>5, <6>1, <6>2
        <5> QED
          BY <5>1, <5>2, <5>3
      <4>8. b.r = [a1.r EXCEPT !.speed = Does(c, w.r).speed]
        <5>1. b.r = Does(c, a1.r)
          BY <4>6 DEF World
        <5>2. Does(c, a1.r) = [a1.r EXCEPT !.speed = Does(c, a1.r).speed]
          BY <4>5, SpeedCommands
        <5> QED
          BY <4>7, <5>1, <5>2
      <4>9. ~b.err /\ b.original = w.original /\ b.type_f = w.type_f
        BY <4>4, <4>6 DEF World
      <4>10. b1.r = b.r /\ b1.original = w.original /\ b1.type_f = w.type_f
        BY <3>3, <3>4, <4>9 DEF World
      <4>11. b1.r = [w.r EXCEPT !.session = FALSE, !.short = FALSE, !.rf = FALSE,
                                !.speed = Does(c, w.r).speed]
        BY <1>0, <4>4, <4>8, <4>10 DEF Reader
      <4>12. ~b1.r.update /\ ~b1.r.session
        BY <1>0, <4>2, <4>11 DEF Reader
      <4> QED
        BY <3>6, <4>1, <4>2, <4>9, <4>10, <4>11, <4>12
    <3>10. CASE d.err
      <4>1. v = d
        BY <3>5, <3>10
      <4>2. ASSUME d.faults = w.faults, Sound(w) PROVE FALSE
        BY <3>4, <3>9, <3>10, <4>2 DEF Started, World
      <4> QED
        BY <3>6, <3>8, <4>1, <4>2
    <3>11. CASE ~d.err
      <4>1. PICK d1 \in World : d1 = [d EXCEPT !.session_open = TRUE]
        BY <3>6 DEF World
      <4>2. PICK e \in switch_protocol(d1) :
              v = IF e.err THEN e ELSE [IsoDepEnded(e) EXCEPT !.err = b.err]
        BY <3>5, <3>11, <4>1 DEF Then
      <4>3. /\ e \in World /\ d1.faults <= e.faults
            /\ e.faults = d1.faults /\ ~d1.err /\ d1.r.session /\ ~d1.r.update =>
                 e = [d1 EXCEPT !.r.short = FALSE, !.modified_bit_framing = FALSE]
        BY SwitchKeeps DEF Keeps
      <4>4. v \in World /\ v.faults = e.faults
        BY <3>3, <4>2, <4>3 DEF World, IsoDepEnded
      <4>5. d1.faults = d.faults /\ e.faults \in Int
        BY <3>6, <4>1, <4>3 DEF World
      <4>6. w.faults <= v.faults /\ (v.faults = w.faults => d.faults = w.faults /\ e.faults = d1.faults)
        BY <3>7, <3>8, <4>3, <4>4, <4>5
      <4>7. ASSUME v.faults = w.faults, Sound(w)
            PROVE  ~w.r.update /\ Spoken(w, v, c)
        <5>1. /\ d = Started(b1) /\ ~b.err /\ ~w.r.update /\ w.r.session
              /\ b1.r = [w.r EXCEPT !.session = FALSE, !.short = FALSE, !.rf = FALSE,
                                    !.speed = Does(c, w.r).speed]
              /\ b1.original = w.original /\ b1.type_f = w.type_f
          BY <3>9, <4>6, <4>7
        <5>2. d1.r = [b1.r EXCEPT !.session = TRUE, !.short = FALSE, !.rf = TRUE]
          BY <3>4, <3>6, <4>1, <5>1 DEF Started, World
        <5>3. d1.original = w.original /\ d1.type_f = w.type_f /\ d1.session_open /\ ~d1.err
          BY <3>4, <3>6, <3>11, <4>1, <5>1 DEF Started, World
        <5>4. /\ d1.r.session /\ ~d1.r.update /\ ~d1.r.short /\ d1.r.cut = w.r.cut
              /\ d1.r.speed = Does(c, w.r).speed
          BY <1>0, <3>4, <5>1, <5>2 DEF Reader, World
        <5>5. e = [d1 EXCEPT !.r.short = FALSE, !.modified_bit_framing = FALSE]
          BY <4>3, <4>6, <4>7, <5>3, <5>4
        <5>6. /\ e.r.session /\ ~e.r.update /\ ~e.r.short /\ e.r.cut = w.r.cut
              /\ e.r.speed = Does(c, w.r).speed
              /\ e.original = w.original /\ e.type_f = w.type_f /\ e.session_open /\ ~e.err
          BY <4>1, <5>3, <5>4, <5>5 DEF World, Reader
        <5>7. v = [e EXCEPT !.iso_dep = "none", !.err = b.err]
          BY <4>2, <5>6 DEF IsoDepEnded
        <5>8. v.r = e.r /\ v.original = e.original /\ v.type_f = e.type_f
              /\ v.session_open = e.session_open /\ v.err = b.err
          BY <3>3, <4>3, <5>7 DEF World
        <5>9. ~w.r.cut
          BY <4>7 DEF Sound
        <5>10. /\ w.session_open \in BOOLEAN /\ w.r.session \in BOOLEAN
               /\ e.session_open \in BOOLEAN /\ e.r.session \in BOOLEAN
          BY <1>0, <4>3 DEF World, Reader
        <5>11. v.session_open = w.session_open /\ v.r.session = w.r.session
          BY <1>2, <5>1, <5>6, <5>8, <5>10
        <5>12. /\ ~v.err /\ ~v.r.update /\ ~v.r.short /\ ~v.r.cut
               /\ v.original = w.original /\ v.type_f = w.type_f
               /\ v.r.speed = Does(c, w.r).speed
          BY <5>1, <5>6, <5>8, <5>9
        <5> QED
          BY <5>1, <5>11, <5>12 DEF Spoken
      <4> QED
        BY <4>4, <4>6, <4>7
    <3> QED
      BY <3>10, <3>11
  <2> QED
    BY <2>3, <2>4
<1> QED
  BY <1>1, <1>2

-----------------------------------------------------------------------------
(* RF speeds                                                                *)

\* set_rf_speed in a sound world without a fault: refused in update mode, carried out
\* otherwise.
LEMMA SetSpeedEnds ==
    ASSUME NEW w \in World, ~w.err, NEW p \in Protocols, NEW code \in Codes,
           NEW v \in set_rf_speed(w, p, code)
    PROVE  /\ v \in World /\ w.faults <= v.faults
           /\ v.faults = w.faults /\ Sound(w) =>
                /\ Sound(v) /\ v.original = w.original /\ v.r.update = w.r.update
                /\ v.session_open = w.session_open
                /\ IF w.r.update THEN v.err /\ v.r.speed = w.r.speed
                   ELSE ~v.err /\ v.r.speed = [w.r.speed EXCEPT ![p] = code]
<1> DEFINE c == [op |-> "set_speed", p |-> p, code |-> code]
<1>1. PICK a \in without_transparent_session(w, c) :
          v = IF a.err \/ p # "F" THEN a ELSE [a EXCEPT !.type_f = IF code = Mixed THEN NoSpeed ELSE code]
  BY DEF set_rf_speed, Then
<1>2. c \in SpeedCommand /\ c.op = "set_speed" /\ c.p = p /\ c.code = code
  BY DEF SpeedCommand
<1> HIDE DEF c
<1>3. /\ a \in World /\ w.faults <= a.faults
      /\ a.faults = w.faults /\ Sound(w) =>
           IF w.r.update THEN a = [w EXCEPT !.err = TRUE] ELSE Spoken(w, a, c)
  BY <1>1, <1>2, SpeedCommandEnds
<1>4. PICK t : t = IF code = Mixed THEN NoSpeed ELSE code
  OBVIOUS
<1>5. t \in {1, 2, 3, NoSpeed} /\ (t # NoSpeed => t = code)
  BY <1>4 DEF Codes, Mixed, NoSpeed
<1>6. v = IF a.err \/ p # "F" THEN a ELSE [a EXCEPT !.type_f = t]
  BY <1>1, <1>4
<1>7. v \in World /\ v.faults = a.faults
  BY <1>3, <1>5, <1>6 DEF World
<1>8. w.r \in Reader /\ w.r.speed \in [Protocols -> Codes]
  BY DEF World, Reader
<1>9. ASSUME Sound(w), w.r.update, a = [w EXCEPT !.err = TRUE]
      PROVE  /\ Sound(v) /\ v.original = w.original /\ v.r.update = w.r.update
             /\ v.session_open = w.session_open
             /\ v.err /\ v.r.speed = w.r.speed
  <2>1. v = a
    BY <1>6, <1>9 DEF World
  <2> QED
    BY <1>9, <2>1 DEF Sound, World
<1>10. ASSUME Sound(w), ~w.r.update, Spoken(w, a, c)
       PROVE  /\ Sound(v) /\ v.original = w.original /\ v.r.update = w.r.update
              /\ v.session_open = w.session_open
              /\ ~v.err /\ v.r.speed = [w.r.speed EXCEPT ![p] = code]
  <2>1. /\ v.r = a.r /\ v.original = a.original /\ v.session_open = a.session_open /\ v.err = a.err
        /\ v.type_f = IF p = "F" THEN t ELSE w.type_f
    BY <1>3, <1>6, <1>10 DEF Spoken, World
  <2>2. a.r.speed = [w.r.speed EXCEPT ![p] = code]
    BY <1>2, <1>8, <1>10, SpeedCommands DEF Spoken
  <2>3. v.type_f # NoSpeed => v.type_f = v.r.speed["F"]
    <3>1. CASE p = "F"
      BY <1>5, <1>8, <2>1, <2>2, <3>1 DEF Protocols
    <3>2. CASE p # "F"
      <4>1. v.r.speed["F"] = w.r.speed["F"]
        BY <1>8, <2>1, <2>2, <3>2 DEF Protocols
      <4> QED
        BY <1>10, <2>1, <3>2, <4>1 DEF Sound
    <3> QED
      BY <3>1, <3>2
  <2>4. /\ ~a.err /\ ~a.r.update /\ ~a.r.short /\ ~a.r.cut
        /\ a.original = w.original /\ a.session_open = w.session_open /\ a.r.session = w.r.session
    BY <1>10 DEF Spoken
  <2>5. v.r.update = w.r.update
    BY <1>7, <1>8, <1>10, <2>1, <2>4 DEF World, Reader
  <2>6. Sound(v)
    BY <1>10, <2>1, <2>3, <2>4 DEF Sound
  <2> QED
    BY <2>1, <2>2, <2>4, <2>5, <2>6
<1> QED
  BY <1>3, <1>7, <1>9, <1>10

\* get_rf_speed touches nothing.
LEMMA GetSpeedEnds ==
    ASSUME NEW w \in World, ~w.err, NEW p \in Protocols, NEW v \in get_rf_speed(w, p)
    PROVE  /\ v \in World /\ w.faults <= v.faults
           /\ v.faults = w.faults /\ Sound(w) =>
                /\ Sound(v) /\ v.original = w.original /\ v.r.update = w.r.update
                /\ v.r.speed = w.r.speed /\ (v.err <=> w.r.update)
<1> DEFINE c == [op |-> "get_speed", p |-> p]
<1>1. v \in without_transparent_session(w, c)
  BY DEF get_rf_speed
<1>2. c \in SpeedCommand /\ c.op = "get_speed"
  BY DEF SpeedCommand
<1> HIDE DEF c
<1>3. /\ v \in World /\ w.faults <= v.faults
      /\ v.faults = w.faults /\ Sound(w) =>
           IF w.r.update THEN v = [w EXCEPT !.err = TRUE] ELSE Spoken(w, v, c)
  BY <1>1, <1>2, SpeedCommandEnds
<1>4. w.r \in Reader /\ w.r.update \in BOOLEAN /\ v.r.update \in BOOLEAN
  BY <1>3 DEF World, Reader
<1>5. ASSUME Sound(w), w.r.update, v = [w EXCEPT !.err = TRUE]
      PROVE  /\ Sound(v) /\ v.original = w.original /\ v.r.update = w.r.update
             /\ v.r.speed = w.r.speed /\ v.err
  BY <1>5 DEF Sound, World
<1>6. ASSUME Sound(w), ~w.r.update, Spoken(w, v, c)
      PROVE  /\ Sound(v) /\ v.original = w.original /\ v.r.update = w.r.update
             /\ v.r.speed = w.r.speed /\ ~v.err
  <2>1. v.r.speed = w.r.speed
    BY <1>2, <1>4, <1>6, SpeedCommands DEF Spoken
  <2> QED
    BY <1>4, <1>6, <2>1 DEF Sound, Spoken
<1> QED
  BY <1>3, <1>5, <1>6

\* What is saved is what was found, and what is not saved is still in place.
SavedFor(w, f, a) ==
    /\ w.r.update => w.original = [p \in Protocols |-> NoSpeed]
    /\ \A p \in Protocols \ a : \/ w.original[p] = NoSpeed /\ w.r.speed[p] = f[p]
                                \/ w.original[p] = f[p] /\ w.original[p] # NoSpeed

\* A program of the device: faults add up, and without a new one it leaves a good world.
Good(w, f, a) == Sound(w) /\ SavedFor(w, f, a)
Serves(w, v, f, a) ==
    /\ v \in World /\ w.faults <= v.faults
    /\ v.faults = w.faults /\ Good(w, f, a) => Good(v, f, a)

LEMMA KeepsServes ==
    ASSUME NEW w, NEW v, Keeps(w, v), NEW f, NEW a
    PROVE  Serves(w, v, f, a)
BY DEF Keeps, Serves, Good, SavedFor

LEMMA ServesOn ==
    ASSUME NEW w \in World, NEW f, NEW a, NEW u, Serves(w, u, f, a), NEW v, Serves(u, v, f, a)
    PROVE  Serves(w, v, f, a)
<1>1. w.faults \in Int /\ u.faults \in Int /\ v.faults \in Int
  BY DEF Serves, World
<1> QED
  BY <1>1 DEF Serves

LEMMA ServesItself ==
    ASSUME NEW w \in World, NEW f, NEW a PROVE Serves(w, w, f, a)
BY KeepsItself, KeepsServes

\* A speed may be written when the one found is saved, or when it is the caller's.
LEMMA SetServes ==
    ASSUME NEW w \in World, ~w.err, NEW p \in Protocols, NEW code \in Codes, NEW f, NEW a,
           w.original[p] # NoSpeed \/ p \in a,
           NEW v \in set_rf_speed(w, p, code)
    PROVE  /\ Serves(w, v, f, a)
           /\ v.faults = w.faults /\ Sound(w) => v.original = w.original /\ (v.err <=> w.r.update)
<1>1. /\ v \in World /\ w.faults <= v.faults
      /\ v.faults = w.faults /\ Sound(w) =>
           /\ Sound(v) /\ v.original = w.original /\ v.r.update = w.r.update
           /\ IF w.r.update THEN v.err /\ v.r.speed = w.r.speed
              ELSE ~v.err /\ v.r.speed = [w.r.speed EXCEPT ![p] = code]
  BY SetSpeedEnds
<1>2. w.r.speed \in [Protocols -> Codes]
  BY DEF World, Reader
<1>3. ASSUME v.faults = w.faults, Sound(w), SavedFor(w, f, a)
      PROVE  SavedFor(v, f, a)
  <2>1. v.original = w.original /\ v.r.update = w.r.update
    BY <1>1, <1>3
  <2>2. v.r.update => v.original = [q \in Protocols |-> NoSpeed]
    BY <1>3, <2>1 DEF SavedFor
  <2>3. ASSUME NEW q \in Protocols \ a
        PROVE  \/ v.original[q] = NoSpeed /\ v.r.speed[q] = f[q]
               \/ v.original[q] = f[q] /\ v.original[q] # NoSpeed
    <3>1. \/ w.original[q] = NoSpeed /\ w.r.speed[q] = f[q]
          \/ w.original[q] = f[q] /\ w.original[q] # NoSpeed
      BY <1>3, <2>3 DEF SavedFor
    <3>2. CASE q = p
      BY <2>1, <2>3, <3>1, <3>2
    <3>3. CASE q # p
      <4>1. v.r.speed[q] = w.r.speed[q]
        BY <1>1, <1>2, <1>3, <3>3
      <4> QED
        BY <2>1, <3>1, <4>1
    <3> QED
      BY <3>2, <3>3
  <2> QED
    BY <2>2, <2>3 DEF SavedFor
<1>4. v.faults = w.faults /\ Sound(w) => v.original = w.original /\ (v.err <=> w.r.update)
  BY <1>1
<1> QED
  BY <1>1, <1>3, <1>4 DEF Serves, Good

\* The world with the speed found saved.
LEMMA SaveServes ==
    ASSUME NEW w \in World, NEW p \in Protocols, NEW f, NEW a, ~w.r.update,
           w.original[p] = NoSpeed, NEW x, x = [w EXCEPT !.original[p] = w.r.speed[p]]
    PROVE  /\ x \in World /\ x.faults = w.faults /\ x.err = w.err /\ x.r = w.r
           /\ x.original[p] # NoSpeed
           /\ Good(w, f, a) => Good(x, f, a)
<1>1. w.r.speed[p] \in Codes /\ w.original \in [Protocols -> Codes \cup {NoSpeed}] /\ w.r \in Reader
  BY DEF World, Reader
<1>2. PICK o \in [Protocols -> Codes \cup {NoSpeed}] : o = [w.original EXCEPT ![p] = w.r.speed[p]]
  BY <1>1
<1>3. x = [w EXCEPT !.original = o]
  BY <1>2
<1>4. /\ x \in World /\ x.faults = w.faults /\ x.err = w.err /\ x.r = w.r /\ x.original = o
      /\ x.session_open = w.session_open /\ x.type_f = w.type_f
      /\ x.modified_bit_framing = w.modified_bit_framing
  BY <1>2, <1>3 DEF World
<1>5. o[p] # NoSpeed
  BY <1>1, <1>2 DEF Codes, NoSpeed, Mixed
<1>6. ASSUME Good(w, f, a) PROVE Good(x, f, a)
  <2>1. Sound(x)
    BY <1>4, <1>6 DEF Good, Sound
  <2>2. ASSUME NEW q \in Protocols \ a
        PROVE  \/ x.original[q] = NoSpeed /\ x.r.speed[q] = f[q]
               \/ x.original[q] = f[q] /\ x.original[q] # NoSpeed
    <3>1. \/ w.original[q] = NoSpeed /\ w.r.speed[q] = f[q]
          \/ w.original[q] = f[q] /\ w.original[q] # NoSpeed
      BY <1>6, <2>2 DEF Good, SavedFor
    <3>2. CASE q = p
      <4>1. x.original[q] = w.r.speed[q]
        BY <1>1, <1>2, <1>4, <3>2
      <4>2. w.original[q] = NoSpeed
        BY <3>2
      <4> QED
        BY <1>4, <3>1, <4>1, <4>2, <3>2, <1>5
    <3>3. CASE q # p
      BY <1>1, <1>2, <1>4, <2>2, <3>1, <3>3
    <3> QED
      BY <3>2, <3>3
  <2> QED
    BY <1>4, <2>1, <2>2 DEF Good, SavedFor
<1> QED
  BY <1>4, <1>5, <1>6

\* pin_rf_speed.
LEMMA PinServes ==
    ASSUME NEW w \in World, ~w.err, NEW p \in Protocols, NEW code \in Codes, NEW f, NEW a,
           NEW v \in pin_rf_speed(w, p, code)
    PROVE  /\ Serves(w, v, f, a)
           /\ v.faults = w.faults /\ Good(w, f, a) /\ v.err => v.original[p] = NoSpeed
<1> DEFINE pre == IF w.original[p] = NoSpeed THEN get_rf_speed(w, p) ELSE {w}
           Save(u) == [u EXCEPT !.original[p] = IF u.original[p] = NoSpeed THEN u.r.speed[p] ELSE u.original[p]]
<1>1. PICK u \in pre : v \in IF u.err THEN {u} ELSE set_rf_speed(Save(u), p, code)
  BY DEF pin_rf_speed, Then
<1>2. /\ u \in World /\ w.faults <= u.faults
      /\ u.faults = w.faults /\ Sound(w) =>
           /\ Sound(u) /\ u.original = w.original /\ u.r.update = w.r.update
           /\ u.r.speed = w.r.speed
           /\ w.original[p] = NoSpeed => (u.err <=> w.r.update)
  <2>1. CASE w.original[p] = NoSpeed
    BY <2>1, GetSpeedEnds
  <2>2. CASE w.original[p] # NoSpeed
    BY <2>2 DEF World
  <2> QED
    BY <2>1, <2>2
<1>3. Serves(w, u, f, a)
  BY <1>2 DEF Serves, Good, SavedFor
<1>4. CASE u.err
  <2>1. v = u
    BY <1>1, <1>4
  <2>2. w.original[p] = NoSpeed
    BY <1>1, <1>4
  <2> QED
    BY <1>2, <1>3, <2>1, <2>2 DEF Good
<1>5. CASE ~u.err
  <2>1. PICK x : x = Save(u)
    OBVIOUS
  <2>2. v \in set_rf_speed(x, p, code)
    BY <1>1, <1>5, <2>1
  <2>3. u.original \in [Protocols -> Codes \cup {NoSpeed}]
    BY <1>2 DEF World
  <2>4. CASE u.original[p] # NoSpeed
    <3>1. x = u
      <4>1. [u.original EXCEPT ![p] = u.original[p]] = u.original
        BY <2>3
      <4>2. x = [u EXCEPT !.original = [u.original EXCEPT ![p] = u.original[p]]]
        BY <2>1, <2>4
      <4> QED
        BY <1>2, <4>1, <4>2 DEF World
    <3>2. /\ Serves(u, v, f, a)
          /\ v.faults = u.faults /\ Sound(u) => v.original = u.original /\ (v.err <=> u.r.update)
      BY <1>2, <1>5, <2>2, <2>4, <3>1, SetServes
    <3>3. ASSUME v.faults = w.faults, Good(w, f, a), v.err PROVE FALSE
      <4>1. w.faults \in Int /\ u.faults \in Int /\ v.faults \in Int
        BY <1>2, <3>2 DEF Serves, World
      <4>2. u.faults = w.faults /\ v.faults = u.faults
        BY <1>2, <3>2, <3>3, <4>1 DEF Serves
      <4>3. Good(u, f, a)
        BY <1>3, <3>3, <4>2 DEF Serves
      <4>4. u.r.update
        BY <3>2, <3>3, <4>2, <4>3 DEF Good
      <4>5. u.original[p] = NoSpeed
        BY <4>3, <4>4 DEF Good, SavedFor
      <4> QED
        BY <2>4, <4>5
    <3> QED
      BY <1>2, <1>3, <3>2, <3>3, ServesOn
  <2>5. CASE u.original[p] = NoSpeed
    <3>1. x = [u EXCEPT !.original[p] = u.r.speed[p]]
      BY <2>1, <2>5
    <3>2. /\ x \in World /\ x.faults = u.faults /\ x.err = u.err /\ x.r = u.r
          /\ x.original[p] # NoSpeed
      <4>1. u.r.speed[p] \in Codes
        BY <1>2 DEF World, Reader
      <4>2. PICK o \in [Protocols -> Codes \cup {NoSpeed}] : o = [u.original EXCEPT ![p] = u.r.speed[p]]
        BY <2>3, <4>1
      <4>3. o[p] # NoSpeed
        BY <2>3, <4>1, <4>2 DEF Codes, NoSpeed, Mixed
      <4>4. x = [u EXCEPT !.original = o]
        BY <3>1, <4>2
      <4> QED
        BY <1>2, <4>2, <4>3, <4>4 DEF World
    <3>3. /\ Serves(x, v, f, a)
          /\ v.faults = x.faults /\ Sound(x) => v.original = x.original /\ (v.err <=> x.r.update)
      BY <1>5, <2>2, <3>2, SetServes
    <3>4. /\ v \in World /\ w.faults \in Int /\ u.faults \in Int /\ v.faults \in Int
          /\ u.faults <= v.faults
      BY <1>2, <3>2, <3>3 DEF Serves, World
    <3>5. w.faults <= v.faults
      BY <1>2, <3>4
    <3>6. ASSUME v.faults = w.faults, Good(w, f, a) PROVE Good(v, f, a) /\ ~v.err
      <4>1. u.faults = w.faults /\ v.faults = x.faults
        BY <1>2, <3>2, <3>4, <3>6
      <4>2. Good(u, f, a)
        BY <1>3, <3>6, <4>1 DEF Serves
      <4>3. ~u.r.update
        <5>1. u.original = w.original /\ (w.original[p] = NoSpeed => (u.err <=> w.r.update)) /\ u.r.update = w.r.update
          BY <1>2, <3>6, <4>1 DEF Good
        <5> QED
          BY <1>5, <2>5, <5>1
      <4>4. Good(x, f, a)
        BY <1>2, <2>5, <3>1, <4>2, <4>3, SaveServes
      <4> QED
        <5>1. Good(v, f, a)
          BY <3>3, <4>1, <4>4 DEF Serves
        <5>2. Sound(x) /\ ~x.r.update
          BY <3>2, <4>3, <4>4 DEF Good
        <5> QED
          BY <3>3, <4>1, <5>1, <5>2
    <3> QED
      BY <3>4, <3>5, <3>6 DEF Serves
  <2> QED
    BY <2>4, <2>5
<1> QED
  BY <1>4, <1>5

\* set_fixed_rf_speed for one protocol: an error without a fault is a reader in update
\* mode, for which nothing is saved.
LEMMA FixServes ==
    ASSUME NEW w \in World, ~w.err, NEW p \in Protocols, NEW f, NEW a, NEW v \in FixOne(w, p)
    PROVE  Serves(w, v, f, a) /\ ~v.err
<1>1. PICK u \in pin_rf_speed(w, p, RF_SPEED_FIXED_VALUE[p]) :
          v = IF u.err THEN [u EXCEPT !.original[p] = NoSpeed, !.err = FALSE] ELSE u
  BY DEF FixOne, Then
<1>2. RF_SPEED_FIXED_VALUE[p] \in Codes
  BY DEF RF_SPEED_FIXED_VALUE, Codes, Protocols
<1>3. /\ Serves(w, u, f, a)
      /\ u.faults = w.faults /\ Good(w, f, a) /\ u.err => u.original[p] = NoSpeed
  BY <1>1, <1>2, PinServes
<1>4. u \in World /\ u.original \in [Protocols -> Codes \cup {NoSpeed}]
  BY <1>3 DEF Serves, World
<1>5. CASE ~u.err
  BY <1>1, <1>3, <1>5
<1>6. CASE u.err
  <2>1. PICK o \in [Protocols -> Codes \cup {NoSpeed}] : o = [u.original EXCEPT ![p] = NoSpeed]
    BY <1>4
  <2>2. v = [u EXCEPT !.original = o, !.err = FALSE]
    BY <1>1, <1>6, <2>1
  <2>3. /\ v \in World /\ v.faults = u.faults /\ ~v.err /\ v.r = u.r /\ v.original = o
        /\ v.session_open = u.session_open /\ v.type_f = u.type_f
        /\ v.modified_bit_framing = u.modified_bit_framing
    BY <1>4, <2>1, <2>2 DEF World
  <2>4. u.original[p] = NoSpeed => o = u.original
    BY <1>4, <2>1
  <2>5. ASSUME u.original[p] = NoSpeed, Good(u, f, a) PROVE Good(v, f, a)
    BY <2>3, <2>4, <2>5 DEF Good, Sound, SavedFor
  <2> QED
    BY <1>3, <1>6, <2>3, <2>5 DEF Serves
<1> QED
  BY <1>5, <1>6

\* reset_rf_speed for one protocol: the speed found is in place again.
LEMMA ResetServes ==
    ASSUME NEW w \in World, ~w.err, NEW p \in Protocols, NEW f, NEW a, NEW v \in ResetOne(w, p)
    PROVE  /\ Serves(w, v, f, a) /\ ~v.err
           /\ v.faults = w.faults /\ Good(w, f, a) =>
                v.original = [w.original EXCEPT ![p] = NoSpeed] /\ v.session_open = w.session_open
<1>0. w.original \in [Protocols -> Codes \cup {NoSpeed}] /\ w.r.speed \in [Protocols -> Codes]
      /\ w.r.session \in BOOLEAN /\ w.session_open \in BOOLEAN
  BY DEF World, Reader
<1>1. CASE w.original[p] = NoSpeed
  <2>1. v = w
    BY <1>1 DEF ResetOne
  <2>2. [w.original EXCEPT ![p] = NoSpeed] = w.original
    BY <1>0, <1>1
  <2> QED
    BY <2>1, <2>2, ServesItself
<1>2. CASE w.original[p] # NoSpeed
  <2>1. PICK o \in [Protocols -> Codes \cup {NoSpeed}] : o = [w.original EXCEPT ![p] = NoSpeed]
    BY <1>0
  <2>2. PICK u : u = [w EXCEPT !.original = o]
    OBVIOUS
  <2>3. /\ u \in World /\ ~u.err /\ u.faults = w.faults /\ u.r = w.r /\ u.original = o
        /\ u.session_open = w.session_open /\ u.type_f = w.type_f
        /\ u.modified_bit_framing = w.modified_bit_framing
    BY <2>1, <2>2 DEF World
  <2>4. w.original[p] \in Codes
    BY <1>0, <1>2
  <2>5. PICK y \in set_rf_speed(u, p, w.original[p]) : v = [y EXCEPT !.err = FALSE]
    BY <1>2, <2>1, <2>2 DEF ResetOne, Ignore
  <2>6. /\ y \in World /\ u.faults <= y.faults
        /\ y.faults = u.faults /\ Sound(u) =>
             /\ Sound(y) /\ y.original = u.original /\ y.r.update = u.r.update
             /\ y.session_open = u.session_open
             /\ IF u.r.update THEN y.err /\ y.r.speed = u.r.speed
                ELSE ~y.err /\ y.r.speed = [u.r.speed EXCEPT ![p] = w.original[p]]
    BY <2>3, <2>4, <2>5, SetSpeedEnds
  <2>7. /\ v \in World /\ v.faults = y.faults /\ ~v.err /\ v.r = y.r /\ v.original = y.original
        /\ v.session_open = y.session_open /\ v.type_f = y.type_f
        /\ v.modified_bit_framing = y.modified_bit_framing
    BY <2>5, <2>6 DEF World
  <2>8. ASSUME v.faults = w.faults, Good(w, f, a)
        PROVE  Good(v, f, a) /\ v.original = o /\ v.session_open = w.session_open
    <3>1. Sound(u)
      BY <2>3, <2>8 DEF Good, Sound
    <3>2. ~w.r.update
      BY <1>2, <2>8 DEF Good, SavedFor
    <3>3. /\ Sound(y) /\ y.original = o /\ ~y.r.update /\ y.session_open = w.session_open
          /\ y.r.speed = [w.r.speed EXCEPT ![p] = w.original[p]]
      BY <2>3, <2>6, <2>7, <2>8, <3>1, <3>2
    <3>4. Sound(v)
      BY <2>7, <3>3 DEF Sound
    <3>5. ASSUME NEW q \in Protocols \ a
          PROVE  \/ v.original[q] = NoSpeed /\ v.r.speed[q] = f[q]
                 \/ v.original[q] = f[q] /\ v.original[q] # NoSpeed
      <4>1. \/ w.original[q] = NoSpeed /\ w.r.speed[q] = f[q]
            \/ w.original[q] = f[q] /\ w.original[q] # NoSpeed
        BY <2>8, <3>5 DEF Good, SavedFor
      <4>2. CASE q = p
        <5>1. o[q] = NoSpeed /\ y.r.speed[q] = w.original[q]
          BY <1>0, <2>1, <3>3, <4>2
        <5> QED
          BY <1>2, <2>7, <3>3, <4>1, <4>2, <5>1
      <4>3. CASE q # p
        <5>1. o[q] = w.original[q] /\ y.r.speed[q] = w.r.speed[q]
          BY <1>0, <2>1, <3>3, <3>5, <4>3
        <5> QED
          BY <2>7, <3>3, <4>1, <5>1
      <4> QED
        BY <4>2, <4>3
    <3> QED
      BY <2>7, <3>3, <3>4, <3>5 DEF Good, SavedFor
  <2> QED
    BY <2>1, <2>3, <2>6, <2>7, <2>8 DEF Serves
<1> QED
  BY <1>1, <1>2

\* reset_rf_speed: nothing is left to give back.
LEMMA ResetAllServes ==
    ASSUME NEW w \in World, ~w.err, NEW f, NEW a, NEW v \in reset_rf_speed(w)
    PROVE  /\ Serves(w, v, f, a) /\ ~v.err
           /\ v.faults = w.faults /\ Good(w, f, a) =>
                v.original = [p \in Protocols |-> NoSpeed] /\ v.session_open = w.session_open
<1>1. PICK u \in ResetOne(w, "A") : v \in ResetOne(u, "F")
  BY DEF reset_rf_speed, Then, Order
<1>2. "A" \in Protocols /\ "F" \in Protocols
  BY DEF Protocols
<1>3. /\ Serves(w, u, f, a) /\ ~u.err
      /\ u.faults = w.faults /\ Good(w, f, a) =>
           u.original = [w.original EXCEPT !["A"] = NoSpeed] /\ u.session_open = w.session_open
  BY <1>1, <1>2, ResetServes
<1>4. u \in World
  BY <1>3 DEF Serves
<1>5. /\ Serves(u, v, f, a) /\ ~v.err
      /\ v.faults = u.faults /\ Good(u, f, a) =>
           v.original = [u.original EXCEPT !["F"] = NoSpeed] /\ v.session_open = u.session_open
  BY <1>1, <1>2, <1>3, <1>4, ResetServes
<1>6. w.faults \in Int /\ u.faults \in Int /\ v.faults \in Int
  BY <1>4, <1>5 DEF Serves, World
<1>7. w.original \in [Protocols -> Codes \cup {NoSpeed}]
  BY DEF World
<1>8. ASSUME v.faults = w.faults, Good(w, f, a)
      PROVE  v.original = [p \in Protocols |-> NoSpeed] /\ v.session_open = w.session_open
  <2>1. u.faults = w.faults /\ v.faults = u.faults
    BY <1>3, <1>5, <1>6, <1>8 DEF Serves
  <2>2. /\ v.original = [[w.original EXCEPT !["A"] = NoSpeed] EXCEPT !["F"] = NoSpeed]
        /\ v.session_open = w.session_open
    BY <1>3, <1>5, <1>8, <2>1 DEF Serves
  <2> QED
    BY <1>7, <2>2 DEF Protocols
<1> QED
  BY <1>3, <1>5, <1>8, ServesOn

\* ensure_type_f_rf_speed: the cached speed is trusted, the saved one is kept.
LEMMA EnsureServes ==
    ASSUME NEW w \in World, ~w.err, NEW code \in {1, 2, 3}, NEW f, NEW a,
           NEW v \in ensure_type_f_rf_speed(w, code)
    PROVE  Serves(w, v, f, a)
<1>0. "F" \in Protocols /\ code \in Codes
  BY DEF Protocols, Codes
<1>1. CASE w.type_f = code
  BY <1>1, ServesItself DEF ensure_type_f_rf_speed
<1>2. CASE w.type_f # code /\ w.original["F"] # NoSpeed
  <2>1. v \in set_rf_speed(w, "F", code)
    BY <1>2 DEF ensure_type_f_rf_speed
  <2> QED
    BY <1>0, <1>2, <2>1, SetServes
<1>3. CASE w.type_f # code /\ w.original["F"] = NoSpeed
  <2>1. PICK u \in get_rf_speed(w, "F") :
          v \in IF u.err THEN {u}
                ELSE IF u.r.speed["F"] = code THEN {[u EXCEPT !.type_f = code]}
                ELSE set_rf_speed([u EXCEPT !.original["F"] = u.r.speed["F"]], "F", code)
    BY <1>3 DEF ensure_type_f_rf_speed, Then
  <2>2. /\ u \in World /\ w.faults <= u.faults
        /\ u.faults = w.faults /\ Sound(w) =>
             /\ Sound(u) /\ u.original = w.original /\ u.r.update = w.r.update
             /\ u.r.speed = w.r.speed /\ (u.err <=> w.r.update)
    BY <1>0, <2>1, GetSpeedEnds
  <2>3. Serves(w, u, f, a)
    BY <2>2 DEF Serves, Good, SavedFor
  <2>4. CASE u.err
    BY <2>1, <2>3, <2>4
  <2>5. CASE ~u.err /\ u.r.speed["F"] = code
    <3>1. v = [u EXCEPT !.type_f = code]
      BY <2>1, <2>5
    <3>2. /\ v \in World /\ v.faults = u.faults /\ v.r = u.r /\ v.original = u.original
          /\ v.session_open = u.session_open /\ v.type_f = code
          /\ v.modified_bit_framing = u.modified_bit_framing
      BY <2>2, <3>1 DEF World
    <3>3. Good(u, f, a) => Good(v, f, a)
      BY <2>5, <3>2 DEF Good, Sound, SavedFor
    <3> QED
      BY <2>3, <3>2, <3>3 DEF Serves
  <2>6. CASE ~u.err /\ u.r.speed["F"] # code
    <3>1. PICK x : x = [u EXCEPT !.original["F"] = u.r.speed["F"]]
      OBVIOUS
    <3>2. v \in set_rf_speed(x, "F", code)
      BY <2>1, <2>6, <3>1
    <3>3. /\ x \in World /\ x.faults = u.faults /\ x.err = u.err
          /\ x.original["F"] # NoSpeed
      <4>1. u.r.speed["F"] \in Codes /\ u.original \in [Protocols -> Codes \cup {NoSpeed}]
        BY <1>0, <2>2 DEF World, Reader
      <4>2. PICK o \in [Protocols -> Codes \cup {NoSpeed}] : o = [u.original EXCEPT !["F"] = u.r.speed["F"]]
        BY <1>0, <4>1
      <4>3. o["F"] # NoSpeed
        BY <1>0, <4>1, <4>2 DEF Codes, NoSpeed, Mixed
      <4>4. x = [u EXCEPT !.original = o]
        BY <3>1, <4>2
      <4> QED
        BY <2>2, <4>2, <4>3, <4>4 DEF World
    <3>4. Serves(x, v, f, a)
      BY <1>0, <2>6, <3>2, <3>3, SetServes
    <3>5. /\ v \in World /\ w.faults \in Int /\ u.faults \in Int /\ v.faults \in Int
          /\ u.faults <= v.faults
      BY <2>2, <3>3, <3>4 DEF Serves, World
    <3>6. ASSUME v.faults = w.faults, Good(w, f, a) PROVE Good(v, f, a)
      <4>1. u.faults = w.faults /\ v.faults = x.faults
        BY <2>2, <3>3, <3>5, <3>6
      <4>2. Good(u, f, a) /\ ~u.r.update /\ u.original["F"] = NoSpeed
        BY <1>3, <2>2, <2>3, <2>6, <3>6, <4>1 DEF Serves, Good
      <4>3. Good(x, f, a)
        BY <1>0, <2>2, <3>1, <4>2, SaveServes
      <4> QED
        BY <3>4, <4>1, <4>3 DEF Serves
    <3>7. w.faults <= v.faults
      BY <2>2, <3>5
    <3> QED
      BY <3>5, <3>6, <3>7 DEF Serves
  <2> QED
    BY <2>4, <2>5, <2>6
<1> QED
  BY <1>1, <1>2, <1>3

-----------------------------------------------------------------------------
(* Operations                                                               *)

\* detect_type_f.
LEMMA DetectFServes ==
    ASSUME NEW w \in World, ~w.err, NEW auto \in BOOLEAN, NEW f, NEW a,
           NEW v \in detect_type_f(w, auto)
    PROVE  Serves(w, v, f, a)
<1>0. PICK u \in (IF auto THEN ensure_type_f_rf_speed(w, RF_SPEED_CODE_424K) ELSE {w}) :
        v \in Then(switch_protocol(u), LAMBDA b :
              Then(transparent_exchange(b, FALSE), LAMBDA c :
                   IF auto THEN switch_protocol(c) ELSE {c}))
  BY DEF detect_type_f, Then
<1>1a. PICK b \in switch_protocol(u) :
        v \in Then(transparent_exchange(b, FALSE), LAMBDA c : IF auto THEN switch_protocol(c) ELSE {c})
  BY <1>0 DEF Then
<1>1. PICK c \in transparent_exchange(b, FALSE) : v \in IF auto THEN switch_protocol(c) ELSE {c}
  BY <1>1a DEF Then
<1>2. Serves(w, u, f, a) /\ u \in World
  BY <1>0, EnsureServes, ServesItself DEF RF_SPEED_CODE_424K, Serves
<1>3. Keeps(u, b) /\ b \in World
  BY <1>2, SwitchKeeps DEF Keeps
<1>4. Keeps(b, c) /\ c \in World
  BY <1>1, <1>3, ExchangeKeeps DEF Keeps
<1>5. Keeps(c, v)
  BY <1>1, <1>4, SwitchKeeps, KeepsItself
<1>6. Keeps(u, v)
  BY <1>2, <1>3, <1>4, <1>5, KeepsOn
<1> QED
  BY <1>2, <1>6, KeepsServes, ServesOn

\* Get Data and the change of the communication speed.
LEMMA SimpleKeeps ==
    ASSUME NEW w \in World, NEW op \in {"get_data", "comm_speed"}, NEW v \in Command(w, Simple(op))
    PROVE  Keeps(w, v)
<1>1. Simple(op) \in Neutral
  BY DEF Simple, Neutral
<1> QED
  BY <1>1, NeutralKeeps

\* What the driver knows of an ISO-DEP session does not matter here.
LEMMA IsoDepKeeps ==
    ASSUME NEW w \in World, NEW type \in {"none", "A", "B"}
    PROVE  Keeps(w, [w EXCEPT !.iso_dep = type])
<1>1. PICK v : v = [w EXCEPT !.iso_dep = type]
  OBVIOUS
<1>2. /\ v \in World /\ v.faults = w.faults /\ v.r = w.r /\ v.original = w.original
      /\ v.session_open = w.session_open /\ v.type_f = w.type_f
      /\ v.modified_bit_framing = w.modified_bit_framing
  BY <1>1 DEF World
<1>3. w.faults \in Int
  BY DEF World
<1> QED
  BY <1>1, <1>2, <1>3 DEF Keeps, Sound

\* detect_type_a with ISO-DEP, detect_type_b.
LEMMA ActivateKeeps ==
    ASSUME NEW w \in World, NEW type \in {"A", "B"}, NEW v \in Activate(w, type)
    PROVE  Keeps(w, v)
<1>1. PICK u \in switch_protocol(w) :
        v \in Then(IF type = "B" THEN transparent_exchange(u, FALSE) ELSE {u}, LAMBDA b :
                   IF b.err THEN {b} ELSE get_data([b EXCEPT !.iso_dep = type]))
  BY DEF Activate, Then
<1>2. PICK b \in (IF type = "B" THEN transparent_exchange(u, FALSE) ELSE {u}) :
          v \in IF b.err THEN {b} ELSE get_data([b EXCEPT !.iso_dep = type])
  BY <1>1 DEF Then
<1>3. Keeps(w, u) /\ u \in World
  BY <1>1, SwitchKeeps DEF Keeps
<1>4. Keeps(u, b)
  BY <1>2, <1>3, ExchangeKeeps, KeepsItself
<1>5. Keeps(w, b) /\ b \in World
  BY <1>3, <1>4, KeepsOn DEF Keeps
<1>6. CASE b.err
  BY <1>2, <1>5, <1>6
<1>7. CASE ~b.err
  <2>1. PICK c : c = [b EXCEPT !.iso_dep = type]
    OBVIOUS
  <2>2. v \in Command(c, Simple("get_data"))
    BY <1>2, <1>7, <2>1 DEF get_data
  <2>3. Keeps(b, c) /\ c \in World
    BY <1>5, <2>1, IsoDepKeeps DEF Keeps
  <2>4. Keeps(c, v)
    BY <2>2, <2>3, SimpleKeeps
  <2> QED
    BY <1>5, <2>3, <2>4, KeepsOn
<1> QED
  BY <1>6, <1>7

\* prepare_type_a_polling.
LEMMA PrepareKeeps ==
    ASSUME NEW w \in World, NEW v \in prepare_type_a_polling(w)
    PROVE  Keeps(w, v)
<1>1. PICK u \in switch_protocol(w) : v = IF u.err THEN u ELSE [u EXCEPT !.iso_dep = "none"]
  BY DEF prepare_type_a_polling, Then, IsoDepEnded
<1>2. Keeps(w, u) /\ u \in World
  BY <1>1, SwitchKeeps DEF Keeps
<1>3. Keeps(u, v)
  BY <1>1, <1>2, IsoDepKeeps, KeepsItself
<1> QED
  BY <1>2, <1>3, KeepsOn

\* The other detections.
LEMMA DetectionsKeep ==
    ASSUME NEW w \in World,
           NEW v \in detect_type_a(w) \cup detect_type_v(w) \cup detect_type_a_low_level(w)
                       \cup detect_type_b_low_level(w)
    PROVE  Keeps(w, v)
<1>1. ASSUME NEW x \in World, NEW y \in WholeFrames(x) PROVE Keeps(x, y)
  <2>1. PICK u \in transparent_exchange(x, FALSE) : y \in transparent_exchange(u, FALSE)
    BY <1>1 DEF WholeFrames, Then
  <2>2. Keeps(x, u) /\ u \in World
    BY <2>1, ExchangeKeeps DEF Keeps
  <2>3. Keeps(u, y)
    BY <2>1, <2>2, ExchangeKeeps
  <2> QED
    BY <2>2, <2>3, KeepsOn
<1>2. CASE v \in detect_type_a(w)
  <2>1. PICK u \in prepare_type_a_polling(w) : v \in Command(u, Simple("get_data"))
    BY <1>2 DEF detect_type_a, Then, get_data
  <2>2. Keeps(w, u) /\ u \in World
    BY <2>1, PrepareKeeps DEF Keeps
  <2>3. Keeps(u, v)
    BY <2>1, <2>2, SimpleKeeps
  <2> QED
    BY <2>2, <2>3, KeepsOn
<1>3. CASE v \in detect_type_v(w)
  <2>1. PICK u \in switch_protocol(w) : v \in Command(u, Simple("get_data"))
    BY <1>3 DEF detect_type_v, Then, get_data
  <2>2. Keeps(w, u) /\ u \in World
    BY <2>1, SwitchKeeps DEF Keeps
  <2>3. Keeps(u, v)
    BY <2>1, <2>2, SimpleKeeps
  <2> QED
    BY <2>2, <2>3, KeepsOn
<1>4. CASE v \in detect_type_a_low_level(w)
  <2>1. PICK u \in prepare_type_a_polling(w) :
          v \in Then(transparent_exchange(u, TRUE), LAMBDA b :
                Then(WholeFrames(b), LAMBDA c : Command(c, Simple("comm_speed"))))
    BY <1>4 DEF detect_type_a_low_level, Then
  <2>2a. PICK b \in transparent_exchange(u, TRUE) :
          v \in Then(WholeFrames(b), LAMBDA c : Command(c, Simple("comm_speed")))
    BY <2>1 DEF Then
  <2>2. PICK c \in WholeFrames(b) : v \in Command(c, Simple("comm_speed"))
    BY <2>2a DEF Then
  <2>3. Keeps(w, u) /\ u \in World
    BY <2>1, PrepareKeeps DEF Keeps
  <2>4. Keeps(u, b) /\ b \in World
    BY <2>2, <2>3, ExchangeKeeps DEF Keeps
  <2>5. Keeps(b, c) /\ c \in World
    BY <1>1, <2>2, <2>4 DEF Keeps
  <2>6. Keeps(c, v)
    BY <2>2, <2>5, SimpleKeeps
  <2>7. Keeps(w, b)
    BY <2>3, <2>4, KeepsOn
  <2>8. Keeps(w, c)
    BY <2>5, <2>7, KeepsOn
  <2> QED
    BY <2>6, <2>8, KeepsOn
<1>5. CASE v \in detect_type_b_low_level(w)
  <2>1. PICK u \in switch_protocol(w) :
          \E c \in WholeFrames(u) : v \in Command(c, Simple("comm_speed"))
    BY <1>5 DEF detect_type_b_low_level, Then
  <2>2. PICK c \in WholeFrames(u) : v \in Command(c, Simple("comm_speed"))
    BY <2>1
  <2>3. Keeps(w, u) /\ u \in World
    BY <2>1, SwitchKeeps DEF Keeps
  <2>4. Keeps(u, c) /\ c \in World
    BY <1>1, <2>2, <2>3 DEF Keeps
  <2>5. Keeps(c, v)
    BY <2>2, <2>4, SimpleKeeps
  <2>6. Keeps(w, c)
    BY <2>3, <2>4, KeepsOn
  <2> QED
    BY <2>5, <2>6, KeepsOn
<1> QED
  BY <1>2, <1>3, <1>4, <1>5

\* release_reader: the session is over and the speeds are back.
LEMMA ReleaseEnds ==
    ASSUME NEW w \in World, ~w.err, NEW f, NEW a, NEW v \in release_reader(w)
    PROVE  /\ v \in World /\ w.faults <= v.faults
           /\ v.faults = w.faults /\ Good(w, f, a) =>
                /\ ~v.r.session /\ ~v.r.cut
                /\ \A p \in Protocols \ a : v.r.speed[p] = f[p]
<1> DEFINE first == IF w.session_open
                    THEN {[x EXCEPT !.session_open = FALSE] : x \in Ignore(end_transparent_session(w))}
                    ELSE {w}
<1>1. PICK u \in first : v \in reset_rf_speed(u)
  BY DEF release_reader, Then
<1>2. /\ Serves(w, u, f, a) /\ ~u.err
      /\ u.faults = w.faults /\ Good(w, f, a) => ~u.session_open
  <2>1. CASE ~w.session_open
    BY <1>1, <2>1, ServesItself
  <2>2. CASE w.session_open
    <3>1. PICK x \in Ignore(end_transparent_session(w)) : u = [x EXCEPT !.session_open = FALSE]
      BY <1>1, <2>2
    <3>2. PICK y \in end_transparent_session(w) : x = [y EXCEPT !.err = FALSE]
      BY DEF Ignore
    <3>3. /\ y \in World /\ w.faults <= y.faults
          /\ y.faults = w.faults =>
               y = IF w.r.session /\ ~w.r.update THEN Ended(w) ELSE [w EXCEPT !.err = TRUE]
      BY EndEnds
    <3>4. /\ u \in World /\ u.faults = y.faults /\ ~u.err /\ u.r = y.r /\ u.original = y.original
          /\ ~u.session_open /\ u.type_f = y.type_f /\ u.modified_bit_framing = y.modified_bit_framing
      BY <3>1, <3>2, <3>3 DEF World
    <3>5. ASSUME y.faults = w.faults, Good(w, f, a) PROVE Good(u, f, a)
      <4>1. w.r.session /\ ~w.r.update
        BY <2>2, <3>5 DEF Good, Sound
      <4>2. y = Ended(w)
        BY <3>3, <3>5, <4>1
      <4>3. /\ u.r = [w.r EXCEPT !.session = FALSE, !.short = FALSE, !.rf = FALSE]
            /\ u.original = w.original /\ u.type_f = w.type_f
        BY <3>4, <4>2 DEF Ended, World
      <4>4. /\ ~u.r.session /\ ~u.r.short /\ u.r.cut = w.r.cut
            /\ u.r.speed = w.r.speed /\ u.r.update = w.r.update
        BY <4>3 DEF World, Reader
      <4> QED
        BY <3>4, <3>5, <4>3, <4>4 DEF Good, Sound, SavedFor
    <3> QED
      BY <3>3, <3>4, <3>5 DEF Serves
  <2> QED
    BY <2>1, <2>2
<1>3. u \in World
  BY <1>2 DEF Serves
<1>4. /\ Serves(u, v, f, a)
      /\ v.faults = u.faults /\ Good(u, f, a) =>
           v.original = [p \in Protocols |-> NoSpeed] /\ v.session_open = u.session_open
  BY <1>1, <1>2, <1>3, ResetAllServes
<1>5. /\ v \in World /\ w.faults <= u.faults /\ u.faults <= v.faults
      /\ w.faults \in Int /\ u.faults \in Int /\ v.faults \in Int
  BY <1>2, <1>3, <1>4 DEF Serves, World
<1>6. ASSUME v.faults = w.faults, Good(w, f, a)
      PROVE  /\ ~v.r.session /\ ~v.r.cut
             /\ \A p \in Protocols \ a : v.r.speed[p] = f[p]
  <2>1. u.faults = w.faults /\ v.faults = u.faults
    BY <1>5, <1>6
  <2>2. Good(u, f, a) /\ ~u.session_open
    BY <1>2, <1>6, <2>1 DEF Serves
  <2>3. Good(v, f, a) /\ v.original = [p \in Protocols |-> NoSpeed] /\ ~v.session_open
    BY <1>4, <2>1, <2>2 DEF Serves
  <2> QED
    BY <2>3 DEF Good, Sound, SavedFor
<1> QED
  BY <1>5, <1>6

\* Device::new on a reader in whatever state: it succeeds unless there is a fault, and a
\* device that was built starts from a good world.
Newborn(w) ==
    /\ ~w.session_open /\ w.original = [p \in Protocols |-> NoSpeed] /\ w.type_f = NoSpeed
    /\ ~w.modified_bit_framing /\ ~w.r.cut /\ ~w.err
LEMMA NewEnds ==
    ASSUME NEW w \in World, Newborn(w), NEW v \in new(w)
    PROVE  /\ v \in World /\ w.faults <= v.faults
           /\ v.faults = w.faults => ~v.err
           /\ ~v.err => Good(v, v.r.speed, {})
<1>0. w.r \in Reader /\ w.r.update \in BOOLEAN /\ w.r.session \in BOOLEAN /\ w.faults \in Int
  BY DEF World, Reader
<1>1. CASE w.r.update
  <2>1. v = w
    BY <1>1 DEF new
  <2>2. ~w.r.session /\ ~w.r.short
    BY <1>0, <1>1 DEF Reader
  <2> QED
    BY <1>0, <1>1, <2>1, <2>2 DEF Newborn, Good, Sound, SavedFor
<1>2. CASE ~w.r.update
  <2>1. PICK u \in start_transparent_session(w, TRUE) :
          v \in IF u.err THEN {u} ELSE switch_protocol([u EXCEPT !.session_open = TRUE])
    BY <1>2 DEF new, Then
  <2>2. /\ u \in World /\ w.faults <= u.faults
        /\ u.faults = w.faults => u = Started(w)
        /\ ~u.err =>
             /\ u.r.session /\ ~u.r.short /\ ~u.r.update /\ u.r.cut = w.r.cut
             /\ u.original = w.original /\ u.type_f = w.type_f /\ u.session_open = w.session_open
    BY <1>2, <2>1, StartEnds DEF Newborn
  <2>3. u.faults = w.faults => ~u.err
    BY <2>2 DEF Started, Newborn, World
  <2>4. CASE u.err
    BY <2>1, <2>2, <2>3, <2>4
  <2>5. CASE ~u.err
    <3>1. PICK x \in World : x = [u EXCEPT !.session_open = TRUE]
      BY <2>2 DEF World
    <3>2. v \in switch_protocol(x)
      BY <2>1, <2>5, <3>1
    <3>3. /\ ~x.err /\ x.faults = u.faults /\ x.r = u.r /\ x.original = u.original
          /\ x.type_f = u.type_f /\ x.session_open
      BY <2>2, <2>5, <3>1 DEF World
    <3>4. /\ Keeps(x, v)
          /\ v.faults = x.faults => v = [x EXCEPT !.r.short = FALSE, !.modified_bit_framing = FALSE]
      BY <2>2, <2>5, <3>2, <3>3, SwitchKeeps
    <3>5. v \in World /\ x.faults <= v.faults /\ u.faults \in Int /\ v.faults \in Int
      BY <2>2, <3>4 DEF Keeps, World
    <3>6. Good(x, x.r.speed, {})
      BY <2>2, <2>5, <3>3 DEF Newborn, Good, Sound, SavedFor
    <3>7. ~v.err => v.faults = x.faults
      <4>1. PICK y \in Command(x, Simple("switch")) :
                v = IF y.err THEN y ELSE [y EXCEPT !.modified_bit_framing = FALSE]
        BY <3>2 DEF switch_protocol, Then
      <4>2. Simple("switch") \in AnyCommand
        BY DEF Simple, Neutral, AnyCommand
      <4>3. y \in World /\ (~y.err => y.faults = x.faults)
        BY <4>1, <4>2, CommandEnds
      <4> QED
        BY <4>1, <4>3 DEF World
    <3>8. v.faults = x.faults => ~v.err
      BY <3>3, <3>4 DEF World
    <3>9. ASSUME v.faults = x.faults PROVE Good(v, v.r.speed, {})
      <4>1. /\ Sound(v) /\ v.original = x.original /\ v.r.speed = x.r.speed /\ v.r.update = x.r.update
        BY <3>4, <3>6, <3>9 DEF Keeps, Good
      <4> QED
        BY <3>6, <4>1 DEF Good, SavedFor
    <3>10. w.faults <= v.faults /\ (v.faults = w.faults => v.faults = x.faults)
      BY <1>0, <2>2, <3>3, <3>5
    <3> QED
      BY <3>5, <3>7, <3>8, <3>9, <3>10
  <2> QED
    BY <2>4, <2>5
<1> QED
  BY <1>1, <1>2

\* What the driver is not told of keeps the types.
LEMMA DisturbancesAreTyped ==
    ASSUME NEW w \in World, ~w.err,
           NEW v \in set_tx_bit_framing(w) \cup reset_device(w) \cup {drop_idle_session(w)}
    PROVE  v \in World
<1>1. CASE v \in set_tx_bit_framing(w)
  <2> DEFINE c == [op |-> "exchange", framing |-> "short"]
  <2>1. PICK u \in World : u = [w EXCEPT !.modified_bit_framing = FALSE]
    BY DEF World
  <2>2. c \in AnyCommand
    BY DEF AnyCommand
  <2>3. v \in Command(u, c)
    BY <1>1, <2>1 DEF set_tx_bit_framing
  <2> QED
    BY <2>2, <2>3, CommandEnds
<1>2. CASE v \in reset_device(w)
  <2>1. Simple("reset") \in AnyCommand
    BY DEF Simple, AnyCommand
  <2>2. PICK y \in Command(w, Simple("reset")) : v = y \/ v = [y EXCEPT !.err = FALSE]
    BY <1>2 DEF reset_device, Ignore
  <2>3. y \in World
    BY <2>1, CommandEnds
  <2> QED
    BY <2>2, <2>3 DEF World
<1>3. CASE v = drop_idle_session(w)
  <2>1. PICK r \in Reader : r = [w.r EXCEPT !.session = FALSE, !.rf = FALSE, !.short = FALSE]
    BY DEF World, Reader
  <2>2. v = [w EXCEPT !.r = r]
    BY <1>3, <2>1 DEF drop_idle_session, World, Reader
  <2> QED
    BY <2>2 DEF World
<1> QED
  BY <1>1, <1>2, <1>3

\* set_fixed_rf_speed, set_rf_speed by the caller, the field and the data of a card.
LEMMA FixedServes ==
    ASSUME NEW w \in World, ~w.err, NEW f, NEW a, NEW v \in set_fixed_rf_speed(w)
    PROVE  Serves(w, v, f, a)
<1>1. PICK u \in FixOne(w, "A") : v \in FixOne(u, "F")
  BY DEF set_fixed_rf_speed, Then, Order
<1>2. "A" \in Protocols /\ "F" \in Protocols
  BY DEF Protocols
<1>3. Serves(w, u, f, a) /\ ~u.err /\ u \in World
  BY <1>1, <1>2, FixServes DEF Serves
<1>4. Serves(u, v, f, a)
  BY <1>1, <1>2, <1>3, FixServes
<1> QED
  BY <1>3, <1>4, ServesOn

LEMMA QueriesKeep ==
    ASSUME NEW w \in World, NEW v \in switch_rf(w) \cup get_data(w)
    PROVE  Keeps(w, v)
<1>1. CASE v \in get_data(w)
  BY <1>1, SimpleKeeps DEF get_data
<1>2. CASE v \in switch_rf(w)
  <2>1. [op |-> "rf", on |-> ~w.r.rf] \in Neutral
    BY DEF Neutral, World, Reader
  <2> QED
    BY <1>2, <2>1, NeutralKeeps DEF switch_rf
<1> QED
  BY <1>1, <1>2

-----------------------------------------------------------------------------
(* The inductive invariant                                                  *)

\* Between openings no driver state is left; with a device nothing has happened to, its
\* beliefs are true and what it saved is what was found.
IInv ==
    /\ TypeOK
    /\ ~world.err
    /\ ~alive => Newborn(world)
    /\ alive /\ calm => Good(world, found, asked)
    /\ SpeedsGivenBack /\ SessionGivenBack

\* A device that is gone leaves a typed world without driver state.
LEMMA FreshIsNewborn ==
    ASSUME NEW r \in Reader, NEW n \in 0..MaxFaults
    PROVE  /\ Fresh(r, n) \in World /\ Newborn(Fresh(r, n)) /\ ~Fresh(r, n).err
           /\ Fresh(r, n).faults = n /\ Fresh(r, n).r.session = r.session
           /\ Fresh(r, n).r.speed = r.speed
<1>1. PICK q : q = [r EXCEPT !.cut = FALSE]
  OBVIOUS
<1>2. q \in Reader /\ ~q.cut /\ q.session = r.session /\ q.speed = r.speed
  BY <1>1 DEF Reader
<1>3. [p \in Protocols |-> NoSpeed] \in [Protocols -> Codes \cup {NoSpeed}]
  OBVIOUS
<1>4. PICK w : w = Fresh(r, n)
  OBVIOUS
<1>5. w = [session_open |-> FALSE, original |-> [p \in Protocols |-> NoSpeed],
           type_f |-> NoSpeed, iso_dep |-> "none", modified_bit_framing |-> FALSE, r |-> q,
           err |-> FALSE, faults |-> n]
  BY <1>1, <1>4 DEF Fresh
<1>6. w \in World
  BY <1>2, <1>3, <1>5 DEF World
<1>7. Newborn(w) /\ ~w.err /\ w.faults = n /\ w.r = q
  BY <1>2, <1>5 DEF Newborn
<1> QED
  BY <1>2, <1>4, <1>6, <1>7

LEMMA InitHolds ==
    Init => IInv
<1> SUFFICES ASSUME Init PROVE IInv
  OBVIOUS
<1>1. PICK s, u \in BOOLEAN :
          /\ ~(s /\ u)
          /\ world = Fresh([session |-> s, speed |-> found, rf |-> s, short |-> FALSE,
                            cut |-> FALSE, update |-> u], 0)
  BY DEF Init
<1>2. found \in [Protocols -> Codes] /\ 0 \in 0..MaxFaults /\ 0 \in 0..MaxLives
  BY Port400Assumption DEF Init
<1>3. PICK r : r = [session |-> s, speed |-> found, rf |-> s, short |-> FALSE,
                    cut |-> FALSE, update |-> u]
  OBVIOUS
<1>4. r \in Reader
  BY <1>1, <1>2, <1>3 DEF Reader
<1>5. world \in World /\ Newborn(world) /\ ~world.err
  BY <1>1, <1>2, <1>3, <1>4, FreshIsNewborn
<1> QED
  BY <1>2, <1>5 DEF Init, IInv, TypeOK, SpeedsGivenBack, SessionGivenBack

\* Settling an operation: its error went to the caller.
LEMMA SettledServes ==
    ASSUME NEW v \in World
    PROVE  /\ Settled(v) \in World /\ ~Settled(v).err /\ Settled(v).faults = v.faults
           /\ \A f, a : Good(v, f, a) => Good(Settled(v), f, a)
<1>1. PICK u : u = Settled(v)
  OBVIOUS
<1>2. /\ u \in World /\ ~u.err /\ u.faults = v.faults /\ u.r = v.r /\ u.original = v.original
      /\ u.session_open = v.session_open /\ u.type_f = v.type_f
      /\ u.modified_bit_framing = v.modified_bit_framing
  BY <1>1 DEF Settled, World
<1> QED
  BY <1>1, <1>2 DEF Good, Sound, SavedFor

\* An operation that serves the caller preserves the invariant.
LEMMA RunKeepsInv ==
    ASSUME IInv, NEW v, NEW b, Serves(world, v, found, b), asked \subseteq b, b \subseteq Protocols,
           alive, world' = Settled(v), UNCHANGED <<alive, found, lives>>, asked' = b,
           calm' \in BOOLEAN, calm' => StaysCalm
    PROVE  IInv'
<1>1. v \in World
  BY DEF Serves
<1>2. /\ world' \in World /\ ~world'.err /\ world'.faults = v.faults
      /\ \A f, a : Good(v, f, a) => Good(world', f, a)
  BY <1>1, SettledServes
<1>3. Good(world, found, asked) => Good(world, found, b)
  BY DEF Good, SavedFor
<1>4. ASSUME calm' PROVE Good(world', found', asked')
  <2>1. calm /\ v.faults = world.faults
    BY <1>2, <1>4 DEF StaysCalm
  <2>2. Good(world, found, b)
    BY <1>3, <2>1 DEF IInv
  <2>3. Good(v, found, b)
    BY <2>1, <2>2 DEF Serves
  <2> QED
    BY <1>2, <2>3
<1>5. TypeOK'
  BY <1>2 DEF IInv, TypeOK
<1>6. alive' = TRUE
  BY DEF IInv, TypeOK
<1>7. SpeedsGivenBack' /\ SessionGivenBack'
  BY <1>6 DEF SpeedsGivenBack, SessionGivenBack
<1>8. ~world'.err /\ (~alive' => Newborn(world')) /\ (alive' /\ calm' => Good(world', found', asked'))
  BY <1>2, <1>4, <1>6
<1> QED
  BY <1>5, <1>7, <1>8 DEF IInv

\* What the driver is not told of may leave any world.
LEMMA DisturbanceKeepsInv ==
    ASSUME IInv, NEW v \in World, alive, world' = Settled(v), UNCHANGED <<alive, found, lives>>,
           asked' = asked, ~calm', calm' \in BOOLEAN
    PROVE  IInv'
<1>1. world' \in World /\ ~world'.err
  BY SettledServes
<1>2. alive' = TRUE /\ calm' = FALSE
  BY DEF IInv, TypeOK
<1> QED
  BY <1>1, <1>2 DEF IInv, TypeOK, SpeedsGivenBack, SessionGivenBack

LEMMA PerformKeepsInv ==
    ASSUME IInv, NEW op \in AllOperations, Perform(op)
    PROVE  IInv'
<1>1. /\ world \in World /\ ~world.err /\ asked' = asked /\ asked \subseteq Protocols
      /\ calm \in BOOLEAN
  BY DEF IInv, TypeOK, Perform
<1>2. /\ calm' = (StaysCalm /\ op \notin Disturbances)
      /\ calm' \in BOOLEAN /\ (calm' => StaysCalm) /\ (op \in Disturbances => ~calm')
  <2>1. calm' = (StaysCalm /\ op \notin Disturbances)
    BY DEF Perform
  <2> QED
    BY <2>1
<1> DEFINE Quiet == set_fixed_rf_speed(world) \cup reset_rf_speed(world)
                      \cup detect_type_f(world, FALSE) \cup detect_type_f(world, TRUE)
                      \cup Activate(world, "A") \cup Activate(world, "B")
                      \cup detect_type_v(world) \cup detect_type_a(world)
                      \cup transparent_exchange(world, FALSE) \cup transparent_exchange(world, TRUE)
                      \cup start_rffe_parameter_mode(world) \cup end_rffe_parameter_mode(world)
                      \cup get_data(world) \cup detect_type_a_low_level(world)
                      \cup detect_type_b_low_level(world) \cup switch_rf(world)
           Loud == set_tx_bit_framing(world) \cup reset_device(world)
                      \cup {drop_idle_session(world)}
<1>3. ASSUME NEW v \in Quiet PROVE Serves(world, v, found, asked)
  <2>1. CASE v \in set_fixed_rf_speed(world)
    BY <1>1, <2>1, FixedServes
  <2>2. CASE v \in reset_rf_speed(world)
    BY <1>1, <2>2, ResetAllServes
  <2>3. CASE v \in detect_type_f(world, FALSE) \cup detect_type_f(world, TRUE)
    BY <1>1, <2>3, DetectFServes
  <2>4. CASE v \in Activate(world, "A") \cup Activate(world, "B")
    BY <1>1, <2>4, ActivateKeeps, KeepsServes
  <2>5. CASE v \in detect_type_a(world) \cup detect_type_v(world)
                      \cup detect_type_a_low_level(world) \cup detect_type_b_low_level(world)
    BY <1>1, <2>5, DetectionsKeep, KeepsServes
  <2>6. CASE v \in transparent_exchange(world, FALSE) \cup transparent_exchange(world, TRUE)
    BY <1>1, <2>6, ExchangeKeeps, KeepsServes
  <2>7. CASE v \in start_rffe_parameter_mode(world) \cup end_rffe_parameter_mode(world)
    BY <1>1, <2>7, RffeKeeps, KeepsServes
  <2>8. CASE v \in switch_rf(world) \cup get_data(world)
    BY <1>1, <2>8, QueriesKeep, KeepsServes
  <2> QED
    BY <1>3, <2>1, <2>2, <2>3, <2>4, <2>5, <2>6, <2>7, <2>8
<1>4. /\ alive /\ UNCHANGED <<alive, found, lives>>
      /\ \E v \in Quiet \cup Loud :
            world' = Settled(v) /\ (v \in Quiet \/ (v \in Loud /\ op \in Disturbances))
  BY DEF Perform, Run, Disturbances
<1>5. PICK v \in Quiet \cup Loud :
            world' = Settled(v) /\ (v \in Quiet \/ (v \in Loud /\ op \in Disturbances))
  BY <1>4
<1> HIDE DEF Quiet
<1>6. CASE v \in Quiet
  BY <1>1, <1>2, <1>3, <1>4, <1>5, <1>6, RunKeepsInv
<1>7. CASE v \in Loud /\ op \in Disturbances
  <2>1. v \in World
    BY <1>1, <1>7, DisturbancesAreTyped
  <2> QED
    BY <1>1, <1>2, <1>4, <1>5, <1>7, <2>1, DisturbanceKeepsInv
<1> QED
  BY <1>5, <1>6, <1>7

\* A speed of the caller's is his from then on.
LEMMA SetKeepsInv ==
    ASSUME IInv, NEW p \in Protocols, NEW code \in CallerSpeeds, SetRfSpeed(p, code)
    PROVE  IInv'
<1>1. world \in World /\ ~world.err /\ asked \subseteq Protocols /\ code \in Codes
  BY Port400Assumption DEF IInv, TypeOK
<1>2. PICK v \in set_rf_speed(world, p, code) : world' = Settled(v)
  BY DEF SetRfSpeed, Run
<1>3. /\ alive /\ UNCHANGED <<alive, found, lives>> /\ calm' = StaysCalm
      /\ asked' = asked \cup {p}
  BY DEF SetRfSpeed, Run
<1>4. PICK b : b = asked \cup {p}
  OBVIOUS
<1>5. p \in b /\ asked \subseteq b /\ b \subseteq Protocols
  BY <1>1, <1>4
<1>6. Serves(world, v, found, b)
  BY <1>1, <1>5, SetServes
<1>7. calm' \in BOOLEAN /\ (calm' => StaysCalm)
  BY <1>3 DEF StaysCalm
<1> QED
  BY <1>2, <1>3, <1>4, <1>5, <1>6, <1>7, RunKeepsInv

\* Device::new: from no driver state to a good world, or back to none.
LEMMA OpenKeepsInv ==
    ASSUME IInv, Open
    PROVE  /\ IInv'
           /\ world'.faults = world.faults => alive'
<1>1. world \in World /\ Newborn(world) /\ lives \in 0..MaxLives /\ MaxLives \in Nat
  BY Port400Assumption DEF IInv, TypeOK, Open
<1>2. PICK w \in new(world) :
          /\ alive' = ~w.err /\ calm' = ~w.err
          /\ world' = IF w.err THEN Fresh(w.r, w.faults) ELSE w
          /\ found' = w.r.speed
  BY DEF Open
<1>3. /\ w \in World /\ world.faults <= w.faults
      /\ w.faults = world.faults => ~w.err
      /\ ~w.err => Good(w, w.r.speed, {})
  BY <1>1, NewEnds
<1>4. w.err \in BOOLEAN /\ w.r \in Reader /\ w.faults \in 0..MaxFaults /\ w.r.speed \in [Protocols -> Codes]
  BY <1>3 DEF World, Reader
<1>5. lives' \in 0..MaxLives /\ asked' = {}
  BY <1>1 DEF Open
<1>6. CASE w.err
  <2>1. world' = Fresh(w.r, w.faults)
    BY <1>2, <1>6
  <2>2. world' \in World /\ Newborn(world') /\ ~world'.err /\ world'.faults = w.faults
    BY <1>4, <2>1, FreshIsNewborn
  <2>3. alive' = FALSE /\ calm' = FALSE
    BY <1>2, <1>4, <1>6
  <2>4. TypeOK'
    BY <1>2, <1>4, <1>5, <2>2, <2>3 DEF TypeOK
  <2>5. SpeedsGivenBack' /\ SessionGivenBack'
    BY <2>3 DEF SpeedsGivenBack, SessionGivenBack
  <2> QED
    BY <1>3, <1>6, <2>2, <2>3, <2>4, <2>5 DEF IInv
<1>7. CASE ~w.err
  <2>1. world' = w /\ alive' = TRUE /\ calm' = TRUE
    BY <1>2, <1>4, <1>7
  <2>2. TypeOK'
    BY <1>2, <1>3, <1>4, <1>5, <2>1 DEF TypeOK
  <2>3. SpeedsGivenBack' /\ SessionGivenBack'
    BY <2>1 DEF SpeedsGivenBack, SessionGivenBack
  <2>4. Good(world', found', asked') /\ ~world'.err
    BY <1>2, <1>3, <1>5, <1>7, <2>1
  <2> QED
    BY <2>1, <2>2, <2>3, <2>4 DEF IInv
<1> QED
  BY <1>6, <1>7

\* close and drop.
LEMMA CloseKeepsInv ==
    ASSUME IInv, Close
    PROVE  IInv'
<1>1. /\ world \in World /\ ~world.err /\ alive /\ alive' = FALSE /\ calm' = StaysCalm
      /\ calm' \in BOOLEAN
  BY DEF IInv, TypeOK, Close, StaysCalm
<1>2. PICK v \in release_reader(world) : world' = Fresh(v.r, v.faults)
  BY DEF Close
<1>3. /\ v \in World
      /\ v.faults = world.faults /\ Good(world, found, asked) =>
           /\ ~v.r.session
           /\ \A p \in Protocols \ asked : v.r.speed[p] = found[p]
  BY <1>1, <1>2, ReleaseEnds
<1>4. v.r \in Reader /\ v.faults \in 0..MaxFaults
  BY <1>3 DEF World
<1>5. /\ world' \in World /\ Newborn(world') /\ ~world'.err /\ world'.faults = v.faults
      /\ world'.r.session = v.r.session /\ world'.r.speed = v.r.speed
  BY <1>2, <1>4, FreshIsNewborn
<1>6. TypeOK'
  BY <1>1, <1>5 DEF IInv, TypeOK, Close
<1>7. ASSUME calm'
      PROVE  /\ ~world'.r.session
             /\ \A p \in Protocols \ asked : world'.r.speed[p] = found[p]
  <2>1. calm /\ v.faults = world.faults
    BY <1>1, <1>5, <1>7 DEF StaysCalm
  <2>2. Good(world, found, asked)
    BY <1>1, <2>1 DEF IInv
  <2> QED
    BY <1>3, <1>5, <2>1, <2>2
<1>8. SpeedsGivenBack' /\ SessionGivenBack'
  BY <1>7 DEF SpeedsGivenBack, SessionGivenBack, Close
<1> QED
  BY <1>1, <1>5, <1>6, <1>8 DEF IInv

LEMMA CrashKeepsInv ==
    ASSUME IInv, Crash
    PROVE  IInv'
<1>1. alive' = FALSE /\ calm' = FALSE /\ world' = Fresh(world.r, world.faults)
  BY DEF Crash
<1>2. world.r \in Reader /\ world.faults \in 0..MaxFaults
  BY DEF IInv, TypeOK, World
<1>3. world' \in World /\ Newborn(world') /\ ~world'.err
  BY <1>1, <1>2, FreshIsNewborn
<1> QED
  BY <1>1, <1>3 DEF IInv, TypeOK, Crash, SpeedsGivenBack, SessionGivenBack

LEMMA StepHolds ==
    ASSUME IInv, [Next]_vars
    PROVE  IInv'
<1>1. CASE Open
  BY <1>1, OpenKeepsInv
<1>2. CASE Close
  BY <1>2, CloseKeepsInv
<1>3. CASE Crash
  BY <1>3, CrashKeepsInv
<1>4. CASE UNCHANGED vars
  BY <1>4 DEF vars, IInv, TypeOK, SpeedsGivenBack, SessionGivenBack
<1>5. CASE \E op \in AllOperations : Perform(op)
  BY <1>5, PerformKeepsInv
<1>6. CASE \E p \in Protocols, code \in CallerSpeeds : SetRfSpeed(p, code)
  BY <1>6, SetKeepsInv
<1> QED
  BY <1>1, <1>2, <1>3, <1>4, <1>5, <1>6 DEF Next, Done

LEMMA InvHolds ==
    Spec => []IInv
<1>1. Init => IInv
  BY InitHolds
<1>2. IInv /\ [Next]_vars => IInv'
  BY StepHolds
<1> QED
  BY <1>1, <1>2, PTL DEF Spec

-----------------------------------------------------------------------------
(* The theorems                                                             *)

(***************************************************************************)
(* The device keeps its types, and as long as no command fails without a   *)
(* reason and the reader is not changed behind the driver's back, close    *)
(* and drop leave the reader without a session and with every RF speed it  *)
(* was found with, except the ones the caller set himself: release_reader, *)
(* pin_rf_speed and reset_rf_speed after any sequence of operations.       *)
(***************************************************************************)
THEOREM ReaderIsGivenBack == Spec => []ReaderGivenBack
<1>1. IInv => ReaderGivenBack
  BY DEF IInv, ReaderGivenBack
<1> QED
  BY <1>1, InvHolds, PTL

(***************************************************************************)
(* What the driver believes is true of the reader: the cached Type F speed *)
(* that lets ensure_type_f_rf_speed skip its write, the speeds saved to be *)
(* put back, the bit framing transparent_exchange has to reset, and        *)
(* session_open.                                                           *)
(***************************************************************************)
THEOREM BeliefsAreTrue == Spec => []BeliefIsTrue
<1>1. IInv => BeliefIsTrue
  <2> SUFFICES ASSUME IInv PROVE BeliefIsTrue
    OBVIOUS
  <2>1. alive \in BOOLEAN /\ calm \in BOOLEAN
    BY DEF IInv, TypeOK
  <2>2. CASE ~alive
    BY <2>2 DEF IInv, Newborn, BeliefIsTrue, CacheIsTrue, SavedIsFound, WholeBytesAreWhole
  <2>3. CASE ~calm
    BY <2>3 DEF BeliefIsTrue, CacheIsTrue, SavedIsFound, WholeBytesAreWhole
  <2>4. CASE alive /\ calm
    <3>1. Sound(world) /\ SavedFor(world, found, asked)
      BY <2>4 DEF IInv, Good
    <3>2. CacheIsTrue /\ WholeBytesAreWhole /\ (world.session_open <=> world.r.session)
      BY <3>1 DEF Sound, CacheIsTrue, WholeBytesAreWhole
    <3>3. SavedIsFound
      BY <3>1 DEF SavedFor, SavedIsFound
    <3> QED
      BY <3>2, <3>3 DEF BeliefIsTrue
  <2> QED
    BY <2>2, <2>3, <2>4
<1> QED
  BY <1>1, InvHolds, PTL

(***************************************************************************)
(* Device::new succeeds whatever a crash, a failed opening or another      *)
(* process left in the reader, unless a command fails without a reason:    *)
(* start_transparent_session ends the session left behind first.           *)
(***************************************************************************)
THEOREM DeviceCanBeReopened == Spec => OpenRecovers
<1>1. IInv /\ [Next]_vars => [(lives' = lives + 1 /\ world'.faults = world.faults) => alive']_vars
  <2> SUFFICES ASSUME IInv, Next, lives' = lives + 1, world'.faults = world.faults
               PROVE  alive'
    OBVIOUS
  <2>1. lives \in Int
    BY DEF IInv, TypeOK
  <2>2. Open
    <3>1. lives' # lives
      BY <2>1
    <3> QED
      BY <3>1 DEF Next, Close, Crash, Done, Perform, SetRfSpeed, Run, vars
  <2> QED
    BY <2>2, OpenKeepsInv
<1> QED
  BY <1>1, InvHolds, PTL DEF Spec, OpenRecovers
=============================================================================
