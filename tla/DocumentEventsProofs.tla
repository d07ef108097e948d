------------------------- MODULE DocumentEventsProofs -------------------------
(***************************************************************************)
(* The window ends up where the runtime is, and never goes back to an      *)
(* earlier tree, for every capacity of the channel and every number of     *)
(* changes: the types, the inductive invariant, and the safety half of the *)
(* refinement of EventFeed.                                                *)
(***************************************************************************)
EXTENDS DocumentEvents, SequenceTheorems, TLAPS

(***************************************************************************)
(* What an event says.  Tree and index status travel in different events,  *)
(* and both in a resync; they are treated alike, as the two keys of a      *)
(* snapshot.                                                               *)
(***************************************************************************)
Keys == {"tree", "status"}
Values(k) == IF k = "tree" THEN Nat ELSE Statuses
Bears(e, k) == e.type \in {k, "resynced"}
Value(e, k) == IF e.type = "resynced" THEN e.snapshot[k] ELSE e[k]
Shown(k) == IF k = "tree" THEN ui.tree ELSE ui.index

\* The events s, to one for whom k had the value v, say that it is w in the end.
Brings(s, k, v, w) ==
  \/ v = w /\ \A i \in 1..Len(s) : ~Bears(s[i], k)
  \/ \E i \in 1..Len(s) :
       /\ Bears(s[i], k) /\ Value(s[i], k) = w
       /\ \A j \in 1..Len(s) : j > i => ~Bears(s[j], k)

Mentions(s, k) == \E i \in 1..Len(s) : Bears(s[i], k)

\* The trees that the events s mention are among lo..hi and in order.
InOrder(s, lo, hi) ==
  /\ \A i \in 1..Len(s) : Bears(s[i], "tree") => Value(s[i], "tree") \in lo..hi
  /\ \A i, j \in 1..Len(s) :
       i < j /\ Bears(s[i], "tree") /\ Bears(s[j], "tree") =>
         Value(s[i], "tree") <= Value(s[j], "tree")

\* The trees that s mentions are not later than those t mentions.
Before(s, t) ==
  \A i \in 1..Len(s), j \in 1..Len(t) :
    Bears(s[i], "tree") /\ Bears(t[j], "tree") => Value(s[i], "tree") <= Value(t[j], "tree")

Wired == [i \in 1..Len(wire) |-> wire[i].event]

-----------------------------------------------------------------------------
(***************************************************************************)
(* The inductive invariant.                                                *)
(***************************************************************************)

\* The reader is the command while it starts the session and the listener while it is
\* active; nothing is on its way to a window that stopped following.
PhaseOK ==
  /\ reader.by = "flush" <=> phase = "started"
  /\ reader.by = "listener" <=> phase = "answering"
  /\ phase \in {"prepared", "watching"} => reader.at = "receive" /\ result = NotSent
                                            /\ runtime.tree = 1
  /\ phase = "prepared" => NothingHeld /\ wire = <<>>
  /\ phase = "started" => result \in [status : {"held"}, snapshot : Snapshots]
  /\ phase = "stopped" => wire = <<>> /\ result = NotSent
  /\ result.status = "sent" => phase = "answering"

\* The highest revision the window has, or may have by its start alone.
Heard == IF ui.latest = -1 THEN 0 ELSE ui.latest

\* Envelopes are numbered in the order they are sent, after those already received.
RevisionsOK ==
  /\ ui.latest >= -1 /\ Heard < revision
  /\ \A i \in 1..Len(wire) : wire[i].revision > Heard /\ wire[i].revision < revision
  /\ \A i, j \in 1..Len(wire) : i < j => wire[i].revision < wire[j].revision
  /\ ui.latest = -1 => ui.tree = 0

\* While nothing is lost, what is on the wire and in the channel brings the window, whatever
\* it shows before its first envelope, to the runtime's snapshot; while a barrier is awaited
\* what the channel holds does, from the barrier on.
EventsTell ==
  phase \notin {"prepared", "stopped"} /\ ~channel.lagged =>
    /\ reader.at = "receive" =>
         \A k \in Keys : \A v \in Values(k) : ui.latest = -1 \/ v = Shown(k) =>
           \E m \in Values(k) :
             Brings(Wired, k, v, m) /\ Brings(channel.queue, k, m, runtime[k])
    /\ reader.at = "await" =>
         /\ \E i \in 1..Len(channel.queue) : IsBarrier(channel.queue[i])
         /\ \A k \in Keys : \E v \in Values(k) : Brings(channel.queue, k, v, runtime[k])

\* The trees come in the order the runtime had them, the one of the start before all.
TreesInOrder ==
  /\ ui.tree <= runtime.tree /\ runtime.tree >= 1
  /\ InOrder(Wired, ui.tree, runtime.tree) /\ InOrder(Wired, 1, runtime.tree)
  /\ InOrder(channel.queue, ui.tree, runtime.tree)
  /\ InOrder(channel.queue, 1, runtime.tree)
  /\ Before(Wired, channel.queue)
  /\ result # NotSent => result.snapshot.tree = 1

EventsInv == TypeOK /\ PhaseOK /\ RevisionsOK /\ EventsTell /\ TreesInOrder

-----------------------------------------------------------------------------
(***************************************************************************)
(* What sequences of events bring, and in which order.                     *)
(***************************************************************************)

\* What an event says of a key is a value of that key.
LEMMA EventTyped ==
  ASSUME NEW e \in Events, NEW k \in Keys, Bears(e, k)
  PROVE  Value(e, k) \in Values(k)
  BY DEF Events, Failed, Keys, Bears, Value, Values, Snapshots

\* Two parts bring what the second brings to one who saw the first.
LEMMA ConcatBrings ==
  ASSUME NEW S, NEW s \in Seq(S), NEW t \in Seq(S), NEW k, NEW v, NEW m, NEW w,
         Brings(s, k, v, m), Brings(t, k, m, w)
  PROVE  Brings(s \o t, k, v, w)
  <1>1. /\ Len(s \o t) = Len(s) + Len(t) /\ Len(s) \in Nat /\ Len(t) \in Nat
        /\ \A i \in 1..Len(s) : (s \o t)[i] = s[i]
        /\ \A i \in 1..Len(t) : (s \o t)[Len(s) + i] = t[i]
        /\ \A j \in 1..Len(s \o t) : j \in 1..Len(s) \/ j - Len(s) \in 1..Len(t)
    BY ConcatProperties, LenProperties
  <1>2. CASE m = w /\ \A i \in 1..Len(t) : ~Bears(t[i], k)
    <2>1. \A j \in 1..Len(s \o t) : j \in 1..Len(s) \/ ~Bears((s \o t)[j], k)
      BY <1>1, <1>2
    <2>2. CASE v = m /\ \A i \in 1..Len(s) : ~Bears(s[i], k)
      BY <1>1, <1>2, <2>1, <2>2 DEF Brings
    <2>3. ASSUME NEW i \in 1..Len(s), Bears(s[i], k), Value(s[i], k) = m,
                 \A j \in 1..Len(s) : j > i => ~Bears(s[j], k)
          PROVE  Brings(s \o t, k, v, w)
      <3>1. i \in 1..Len(s \o t) /\ Bears((s \o t)[i], k) /\ Value((s \o t)[i], k) = w
        BY <1>1, <1>2, <2>3
      <3>2. \A j \in 1..Len(s \o t) : j > i => ~Bears((s \o t)[j], k)
        BY <1>1, <2>1, <2>3
      <3>. QED BY <3>1, <3>2 DEF Brings
    <2>. QED BY <2>2, <2>3 DEF Brings
  <1>3. ASSUME NEW i \in 1..Len(t), Bears(t[i], k), Value(t[i], k) = w,
               \A j \in 1..Len(t) : j > i => ~Bears(t[j], k)
        PROVE  Brings(s \o t, k, v, w)
    <2>1. /\ Len(s) + i \in 1..Len(s \o t)
          /\ Bears((s \o t)[Len(s) + i], k) /\ Value((s \o t)[Len(s) + i], k) = w
      BY <1>1, <1>3
    <2>2. ASSUME NEW j \in 1..Len(s \o t), j > Len(s) + i
          PROVE  ~Bears((s \o t)[j], k)
      <3>1. j - Len(s) \in 1..Len(t) /\ j - Len(s) > i /\ j = Len(s) + (j - Len(s))
        BY <1>1, <2>2
      <3>2. (s \o t)[j] = t[j - Len(s)]
        BY <1>1, <3>1
      <3>. QED BY <1>3, <3>1, <3>2
    <2>. QED BY <2>1, <2>2 DEF Brings
  <1>. QED BY <1>2, <1>3 DEF Brings

\* To one who hears of the key, it does not matter what was known before.
LEMMA MentionDecides ==
  ASSUME NEW S, NEW s \in Seq(S), NEW t \in Seq(S), NEW k, NEW v, NEW m, NEW w,
         Mentions(t, k), Brings(t, k, m, w)
  PROVE  Brings(s \o t, k, v, w)
  <1>1. PICK i \in 1..Len(t) : /\ Bears(t[i], k) /\ Value(t[i], k) = w
                               /\ \A j \in 1..Len(t) : j > i => ~Bears(t[j], k)
    BY DEF Mentions, Brings
  <1>2. /\ Len(s \o t) = Len(s) + Len(t) /\ Len(s) \in Nat /\ Len(t) \in Nat
        /\ \A j \in 1..Len(t) : (s \o t)[Len(s) + j] = t[j]
    BY ConcatProperties, LenProperties
  <1>3. /\ Len(s) + i \in 1..Len(s \o t)
        /\ Bears((s \o t)[Len(s) + i], k) /\ Value((s \o t)[Len(s) + i], k) = w
    BY <1>1, <1>2
  <1>4. ASSUME NEW j \in 1..Len(s \o t), j > Len(s) + i
        PROVE  ~Bears((s \o t)[j], k)
    <2>1. j - Len(s) \in 1..Len(t) /\ j - Len(s) > i /\ j = Len(s) + (j - Len(s))
      BY <1>2, <1>4
    <2>2. (s \o t)[j] = t[j - Len(s)]
      BY <1>2, <2>1
    <2>. QED BY <1>1, <2>1, <2>2
  <1>. QED BY <1>3, <1>4 DEF Brings

\* The first event taken from the rest.
After(e, k, v) == IF Bears(e, k) THEN Value(e, k) ELSE v

LEMMA TailBrings ==
  ASSUME NEW S, NEW s \in Seq(S), s # <<>>, NEW k, NEW v, NEW w, Brings(s, k, v, w)
  PROVE  Brings(Tail(s), k, After(Head(s), k, v), w)
  <1>1. /\ Len(Tail(s)) = Len(s) - 1 /\ Len(s) \in Nat \ {0} /\ Head(s) = s[1]
        /\ \A i \in 1..Len(Tail(s)) : Tail(s)[i] = s[i + 1]
    BY HeadTailProperties, LenProperties, EmptySeq
  <1>2. CASE v = w /\ \A i \in 1..Len(s) : ~Bears(s[i], k)
    BY <1>1, <1>2 DEF Brings, After
  <1>3. ASSUME NEW i \in 1..Len(s), Bears(s[i], k), Value(s[i], k) = w,
               \A j \in 1..Len(s) : j > i => ~Bears(s[j], k)
        PROVE  Brings(Tail(s), k, After(Head(s), k, v), w)
    <2>1. CASE i = 1
      <3>1. \A j \in 1..Len(Tail(s)) : ~Bears(Tail(s)[j], k)
        BY <1>1, <1>3, <2>1
      <3>. QED BY <1>1, <1>3, <2>1, <3>1 DEF Brings, After
    <2>2. CASE i # 1
      <3>1. /\ i - 1 \in 1..Len(Tail(s)) /\ Tail(s)[i - 1] = s[i]
            /\ \A j \in 1..Len(Tail(s)) : j > i - 1 => ~Bears(Tail(s)[j], k)
        BY <1>1, <1>3, <2>2
      <3>. QED BY <1>3, <3>1 DEF Brings
    <2>. QED BY <2>1, <2>2
  <1>. QED BY <1>2, <1>3 DEF Brings

\* Short sequences.
LEMMA ShortBrings ==
  ASSUME NEW k, NEW v, NEW a, NEW b
  PROVE  /\ Brings(<<>>, k, v, v)
         /\ Brings(<<a>>, k, v, After(a, k, v))
         /\ Brings(<<a, b>>, k, v, After(b, k, After(a, k, v)))
  <1>1. Brings(<<>>, k, v, v)
    BY DEF Brings
  <1>2. Brings(<<a>>, k, v, After(a, k, v))
    BY DEF Brings, After
  <1>3. Brings(<<a, b>>, k, v, After(b, k, After(a, k, v)))
    <2>1. Len(<<a, b>>) = 2 /\ <<a, b>>[1] = a /\ <<a, b>>[2] = b
      OBVIOUS
    <2>. QED BY <2>1 DEF Brings, After
  <1>. QED BY <1>1, <1>2, <1>3

\* Parts in order that follow each other are in order together.
LEMMA ConcatOrder ==
  ASSUME NEW S, NEW s \in Seq(S), NEW t \in Seq(S), NEW lo, NEW hi,
         InOrder(s, lo, hi), InOrder(t, lo, hi), Before(s, t)
  PROVE  InOrder(s \o t, lo, hi)
  <1>1. /\ Len(s \o t) = Len(s) + Len(t) /\ Len(s) \in Nat /\ Len(t) \in Nat
        /\ \A i \in 1..Len(s \o t) : (s \o t)[i] = IF i <= Len(s) THEN s[i] ELSE t[i - Len(s)]
    BY ConcatProperties, LenProperties
  <1>2. \A i \in 1..Len(s \o t) :
          \/ i \in 1..Len(s) /\ (s \o t)[i] = s[i]
          \/ i > Len(s) /\ i - Len(s) \in 1..Len(t) /\ (s \o t)[i] = t[i - Len(s)]
    BY <1>1
  <1>3. \A i \in 1..Len(s \o t) :
          Bears((s \o t)[i], "tree") => Value((s \o t)[i], "tree") \in lo..hi
    BY <1>2 DEF InOrder
  <1>4. ASSUME NEW i \in 1..Len(s \o t), NEW j \in 1..Len(s \o t), i < j,
               Bears((s \o t)[i], "tree"), Bears((s \o t)[j], "tree")
        PROVE  Value((s \o t)[i], "tree") <= Value((s \o t)[j], "tree")
    <2>1. CASE i \in 1..Len(s) /\ j \in 1..Len(s)
      BY <1>1, <1>4, <2>1 DEF InOrder
    <2>2. CASE i \in 1..Len(s) /\ j > Len(s)
      BY <1>1, <1>2, <1>4, <2>2 DEF Before
    <2>3. CASE i > Len(s) /\ j > Len(s)
      <3>1. /\ i - Len(s) \in 1..Len(t) /\ j - Len(s) \in 1..Len(t) /\ i - Len(s) < j - Len(s)
            /\ (s \o t)[i] = t[i - Len(s)] /\ (s \o t)[j] = t[j - Len(s)]
        BY <1>1, <1>2, <1>4, <2>3
      <3>2. \A x, y \in 1..Len(t) : x < y /\ Bears(t[x], "tree") /\ Bears(t[y], "tree")
              => Value(t[x], "tree") <= Value(t[y], "tree")
        BY DEF InOrder
      <3>. QED BY <1>4, <3>1, <3>2
    <2>. QED BY <1>1, <1>4, <2>1, <2>2, <2>3
  <1>. QED BY <1>3, <1>4 DEF InOrder

\* A part of a sequence in order is in order.
LEMMA PartOrder ==
  ASSUME NEW S, NEW s \in Seq(S), NEW t \in Seq(S), NEW n \in Nat,
         \A i \in 1..Len(t) : i + n \in 1..Len(s) /\ t[i] = s[i + n]
  PROVE  /\ \A lo, hi : InOrder(s, lo, hi) => InOrder(t, lo, hi)
         /\ \A u : Before(u, s) => Before(u, t)
         /\ \A u : Before(s, u) => Before(t, u)
  <1>1. Len(s) \in Nat /\ Len(t) \in Nat
    BY LenProperties
  <1>2. ASSUME NEW lo, NEW hi, InOrder(s, lo, hi) PROVE InOrder(t, lo, hi)
    BY <1>1, <1>2 DEF InOrder
  <1>. QED BY <1>2 DEF Before

\* Bounds that are further apart.
LEMMA WiderOrder ==
  ASSUME NEW s, NEW lo \in Int, NEW hi \in Int, NEW lo2 \in Int, NEW hi2 \in Int,
         InOrder(s, lo, hi), lo2 <= lo, hi <= hi2
  PROVE  InOrder(s, lo2, hi2)
  BY DEF InOrder

-----------------------------------------------------------------------------
(***************************************************************************)
(* The channel and the wire.                                               *)
(***************************************************************************)

\* The events of the program.
LEMMA MadeEvents ==
  /\ Failed \in Events
  /\ \A t \in Nat : TreeChanged(t) \in Events
  /\ \A st \in Statuses : StatusChanged(st) \in Events
  /\ \A b \in Nat, s \in Snapshots : Resynced(b, s) \in Events
  BY DEF Events, Failed, TreeChanged, StatusChanged, Resynced

\* Sending keeps the end of what was there and is sent, all of it if nothing is lost.
LEMMA SentProperties ==
  ASSUME TypeOK, NEW es \in Seq(Events)
  PROVE  /\ Sent(channel, es) \in [queue : Seq(Events), lagged : BOOLEAN]
         /\ Len(Sent(channel, es).queue) <= Capacity
         /\ ~Sent(channel, es).lagged =>
              ~channel.lagged /\ Sent(channel, es).queue = channel.queue \o es
         /\ \E n \in Nat : \A i \in 1..Len(Sent(channel, es).queue) :
              /\ i + n \in 1..Len(channel.queue \o es)
              /\ Sent(channel, es).queue[i] = (channel.queue \o es)[i + n]
         /\ Len(es) > 0 => /\ Len(Sent(channel, es).queue) > 0
                           /\ Sent(channel, es).queue[Len(Sent(channel, es).queue)] = es[Len(es)]
  <1>. DEFINE all == channel.queue \o es
              lost == IF Len(all) > Capacity THEN Len(all) - Capacity ELSE 0
              kept == SubSeq(all, lost + 1, Len(all))
  <1>0. channel.queue \in Seq(Events) /\ channel.lagged \in BOOLEAN
    BY DEF TypeOK
  <1>1. /\ all \in Seq(Events) /\ Len(all) \in Nat /\ Len(all) = Len(channel.queue) + Len(es)
        /\ Len(es) \in Nat /\ Len(channel.queue) \in Nat
        /\ Len(es) > 0 => all[Len(all)] = es[Len(es)]
    BY <1>0, ConcatProperties, LenProperties
  <1>. HIDE DEF all
  <1>2. lost \in Nat /\ lost <= Len(all) /\ Len(all) - lost <= Capacity /\ Capacity \in Nat \ {0}
        /\ (Len(all) > 0 => Len(all) - lost > 0)
    <2>1. Capacity \in Nat /\ Capacity > 0 /\ Len(all) \in Nat
      BY <1>1, EventsAssumption
    <2>2. CASE Len(all) > Capacity
      <3>1. lost = Len(all) - Capacity
        BY <2>2
      <3>. QED BY <2>1, <2>2, <3>1
    <2>3. CASE ~(Len(all) > Capacity)
      <3>1. lost = 0
        BY <2>3
      <3>. QED BY <2>1, <2>3, <3>1
    <2>. QED BY <2>2, <2>3
  <1>. HIDE DEF lost
  <1>3. \A i \in lost + 1..Len(all) : all[i] \in Events
    BY <1>1, <1>2, ElementOfSeq
  <1>4. /\ kept \in Seq(Events)
        /\ Len(kept) = IF lost + 1 <= Len(all) THEN Len(all) - (lost + 1) + 1 ELSE 0
        /\ \A i \in 1..Len(all) - (lost + 1) + 1 : kept[i] = all[lost + 1 + i - 1]
    <2>1. lost + 1 \in Int /\ Len(all) \in Int
      BY <1>1, <1>2
    <2>. QED BY <1>3, <2>1, SubSeqProperties
  <1>5. Len(kept) = Len(all) - lost /\ \A i \in 1..Len(kept) : kept[i] = all[i + lost]
    BY <1>1, <1>2, <1>4
  <1>6. lost = 0 => kept = all
    BY <1>1, SubSeqFull
  <1>. HIDE DEF kept
  <1>7. Sent(channel, es) = [queue |-> kept, lagged |-> channel.lagged \/ lost > 0]
    BY DEF Sent, all, lost, kept
  <1>8. Sent(channel, es).queue = kept /\ Sent(channel, es).lagged = (channel.lagged \/ lost > 0)
    BY <1>7
  <1>9. Sent(channel, es) \in [queue : Seq(Events), lagged : BOOLEAN]
    BY <1>4, <1>7
  <1>10. /\ Len(kept) <= Capacity
         /\ \A i \in 1..Len(kept) : i + lost \in 1..Len(all) /\ kept[i] = all[i + lost]
         /\ Len(es) > 0 => Len(kept) > 0 /\ kept[Len(kept)] = es[Len(es)]
    <2>1. Len(kept) <= Capacity
      BY <1>2, <1>5
    <2>2. \A i \in 1..Len(kept) : i + lost \in 1..Len(all) /\ kept[i] = all[i + lost]
      BY <1>1, <1>2, <1>5
    <2>3. ASSUME Len(es) > 0 PROVE Len(kept) > 0 /\ kept[Len(kept)] = es[Len(es)]
      <3>1. Len(kept) \in Nat /\ Len(kept) > 0 /\ Len(kept) + lost = Len(all)
        BY <1>1, <1>2, <1>5, <2>3
      <3>2. kept[Len(kept)] = all[Len(kept) + lost]
        BY <1>5, <3>1
      <3>. QED BY <1>1, <2>3, <3>1, <3>2
    <2>. QED BY <2>1, <2>2, <2>3
  <1>11. ~Sent(channel, es).lagged => ~channel.lagged /\ kept = all
    <2>1. ASSUME ~Sent(channel, es).lagged PROVE ~channel.lagged /\ ~(lost > 0)
      BY <1>8, <2>1
    <2>. QED BY <1>2, <1>6, <2>1
  <1>. QED BY <1>2, <1>8, <1>9, <1>10, <1>11 DEF all

\* The events on the wire, and what an emission adds to them.
LEMMA WiredProperties ==
  ASSUME TypeOK
  PROVE  /\ Wired \in Seq(Events) /\ Len(Wired) = Len(wire)
         /\ \A i \in 1..Len(wire) : Wired[i] = wire[i].event
  <1>1. wire \in Seq([revision : Nat, event : Events])
    BY DEF TypeOK
  <1>2. Len(wire) \in Nat /\ \A i \in 1..Len(wire) : wire[i] \in [revision : Nat, event : Events]
    BY <1>1, ElementOfSeq, LenProperties
  <1>3. \A i \in 1..Len(wire) : wire[i].event \in Events
    BY <1>2
  <1>. DEFINE n == Len(wire)
  <1>4. Wired \in [1..n -> Events] /\ n \in Nat
    BY <1>2, <1>3 DEF Wired
  <1>5. Wired \in Seq(Events)
    BY <1>4, SeqDef
  <1>6. Len(Wired) = n
    BY <1>4, <1>5, LenProperties DEF Wired
  <1>. QED BY <1>5, <1>6 DEF Wired

LEMMA EmitProperties ==
  ASSUME TypeOK, RevisionsOK, NEW es \in Seq(Events), Emit(es)
  PROVE  /\ wire' \in Seq([revision : Nat, event : Events]) /\ revision' \in Nat
         /\ revision' = revision + Len(es)
         /\ Wired' = Wired \o es
         /\ \A i \in 1..Len(wire)' : wire'[i].revision > Heard /\ wire'[i].revision < revision'
         /\ \A i, j \in 1..Len(wire)' : i < j => wire'[i].revision < wire'[j].revision
  <1>. DEFINE M == [revision : Nat, event : Events]
              p == Published(es)
  <1>1. wire \in Seq(M) /\ revision \in Nat /\ Heard \in Int /\ Len(es) \in Nat
    BY LenProperties DEF TypeOK, Heard
  <1>2. p \in Seq(M) /\ Len(p) = Len(es)
        /\ \A i \in 1..Len(es) : p[i] = [revision |-> revision + i - 1, event |-> es[i]]
    <2>1. \A i \in 1..Len(es) : es[i] \in Events /\ revision + i - 1 \in Nat
      BY <1>1, ElementOfSeq
    <2>2. \A i \in 1..Len(es) : [revision |-> revision + i - 1, event |-> es[i]] \in M
      BY <2>1
    <2>. HIDE DEF M
    <2>3. p \in [1..Len(es) -> M]
      BY <2>2 DEF Published
    <2>4. p \in Seq(M)
      BY <1>1, <2>3, SeqDef
    <2>. QED BY <1>1, <2>3, <2>4, LenProperties DEF Published
  <1>. HIDE DEF p, M
  <1>3. wire' = wire \o p /\ revision' = revision + Len(es)
    BY DEF Emit, p
  <1>4. /\ wire' \in Seq(M) /\ Len(wire') = Len(wire) + Len(es) /\ Len(wire) \in Nat
        /\ \A i \in 1..Len(wire') : wire'[i] = IF i <= Len(wire) THEN wire[i] ELSE p[i - Len(wire)]
    <2>1. /\ wire \o p \in Seq(M) /\ Len(wire \o p) = Len(wire) + Len(p)
          /\ \A i \in 1..Len(wire) + Len(p) :
               (wire \o p)[i] = IF i <= Len(wire) THEN wire[i] ELSE p[i - Len(wire)]
      <3>1. wire \in Seq(M) /\ p \in Seq(M)
        BY <1>1, <1>2
      <3>. QED BY <3>1, ConcatProperties
    <2>2. Len(wire) \in Nat
      BY <1>1, LenProperties
    <2>. QED BY <1>2, <1>3, <2>1, <2>2
  <1>5. ASSUME NEW i \in 1..Len(wire')
        PROVE  \/ i \in 1..Len(wire) /\ wire'[i] = wire[i]
               \/ /\ i > Len(wire) /\ i - Len(wire) \in 1..Len(es)
                  /\ wire'[i] = [revision |-> revision + (i - Len(wire)) - 1,
                                 event |-> es[i - Len(wire)]]
    <2>1. CASE i <= Len(wire)
      BY <1>4, <2>1
    <2>2. CASE i > Len(wire)
      <3>1. i - Len(wire) \in 1..Len(es) /\ wire'[i] = p[i - Len(wire)]
        BY <1>1, <1>4, <2>2
      <3>. QED BY <1>2, <2>2, <3>1
    <2>. QED BY <1>4, <2>1, <2>2
  <1>6. \A i \in 1..Len(wire) : wire[i].revision \in Nat /\ wire[i].revision > Heard
                                 /\ wire[i].revision < revision
    <2>1. \A i \in 1..Len(wire) : wire[i] \in M
      BY <1>1, ElementOfSeq
    <2>. QED BY <2>1 DEF RevisionsOK, M
  <1>7. \A i \in 1..Len(wire') :
          \/ i \in 1..Len(wire) /\ wire'[i].revision = wire[i].revision
          \/ i > Len(wire) /\ wire'[i].revision = revision + (i - Len(wire)) - 1
    <2>1. ASSUME NEW i \in 1..Len(wire'), NEW e,
                 wire'[i] = [revision |-> revision + (i - Len(wire)) - 1, event |-> e]
          PROVE  wire'[i].revision = revision + (i - Len(wire)) - 1
      BY <2>1
    <2>. QED BY <1>5, <2>1
  <1>8. \A i \in 1..Len(wire') : wire'[i].revision > Heard /\ wire'[i].revision < revision'
    <2>1. Heard < revision /\ revision <= revision'
      BY <1>1, <1>3 DEF RevisionsOK
    <2>2. ASSUME NEW i \in 1..Len(wire')
          PROVE  wire'[i].revision > Heard /\ wire'[i].revision < revision'
      <3>1. CASE i \in 1..Len(wire) /\ wire'[i].revision = wire[i].revision
        BY <1>1, <1>3, <1>6, <2>1, <3>1
      <3>2. CASE i > Len(wire) /\ wire'[i].revision = revision + (i - Len(wire)) - 1
        BY <1>1, <1>3, <1>4, <2>1, <3>2
      <3>. QED BY <1>7, <3>1, <3>2
    <2>. QED BY <2>2
  <1>9. ASSUME NEW i \in 1..Len(wire'), NEW j \in 1..Len(wire'), i < j
        PROVE  wire'[i].revision < wire'[j].revision
    <2>1. CASE j \in 1..Len(wire)
      <3>1. i \in 1..Len(wire) /\ wire'[i].revision = wire[i].revision
            /\ wire'[j].revision = wire[j].revision
        BY <1>4, <1>7, <1>9, <2>1
      <3>. QED BY <1>9, <2>1, <3>1 DEF RevisionsOK
    <2>2. CASE j > Len(wire)
      <3>1. wire'[j].revision = revision + (j - Len(wire)) - 1
        BY <1>4, <1>7, <2>2
      <3>2. CASE i \in 1..Len(wire) /\ wire'[i].revision = wire[i].revision
        BY <1>1, <1>4, <1>6, <2>2, <3>1, <3>2
      <3>3. CASE i > Len(wire) /\ wire'[i].revision = revision + (i - Len(wire)) - 1
        BY <1>1, <1>4, <1>9, <2>2, <3>1, <3>3
      <3>. QED BY <1>7, <3>2, <3>3
    <2>. QED BY <1>4, <2>1, <2>2
  <1>10. Wired' = Wired \o es
    <2>1. Wired \in Seq(Events) /\ Len(Wired) = Len(wire)
          /\ \A i \in 1..Len(wire) : Wired[i] = wire[i].event
      BY WiredProperties
    <2>2. /\ Wired \o es \in Seq(Events) /\ Len(Wired \o es) = Len(wire')
          /\ \A i \in 1..Len(wire') :
               (Wired \o es)[i] = IF i <= Len(wire) THEN Wired[i] ELSE es[i - Len(wire)]
      <3>1. /\ Wired \o es \in Seq(Events) /\ Len(Wired \o es) = Len(Wired) + Len(es)
            /\ \A i \in 1..Len(Wired) + Len(es) :
                 (Wired \o es)[i] = IF i <= Len(Wired) THEN Wired[i] ELSE es[i - Len(Wired)]
        BY <2>1, ConcatProperties
      <3>. QED BY <1>4, <2>1, <3>1
    <2>3. \A i \in 1..Len(wire') : wire'[i].event = (Wired \o es)[i]
      BY <1>4, <1>5, <2>1, <2>2
    <2>4. Wired' = [i \in 1..Len(wire') |-> (Wired \o es)[i]]
      BY <2>3 DEF Wired
    <2>. QED BY <2>2, <2>4, LenProperties
  <1>. QED BY SMTT(30), <1>1, <1>3, <1>4, <1>8, <1>9, <1>10 DEF M
-----------------------------------------------------------------------------
(***************************************************************************)
(* What a publication and an emission do to the order and to what the      *)
(* events tell.                                                            *)
(***************************************************************************)

LEMMA BoundsOrder ==
  ASSUME NEW S, NEW s \in Seq(S), NEW t \in Seq(S),
         NEW lo \in Int, NEW m \in Int, NEW hi \in Int, InOrder(s, lo, m), InOrder(t, m, hi)
  PROVE  Before(s, t)
  BY DEF InOrder, Before

LEMMA BeforeConcat ==
  ASSUME NEW S, NEW s \in Seq(S), NEW t \in Seq(S), NEW u \in Seq(S)
  PROVE  /\ Before(u, s) /\ Before(u, t) => Before(u, s \o t)
         /\ Before(s, u) /\ Before(t, u) => Before(s \o t, u)
  <1>1. /\ Len(s) \in Nat /\ Len(t) \in Nat
        /\ Len(s \o t) = Len(s) + Len(t)
        /\ \A i \in 1..Len(s) + Len(t) : (s \o t)[i] = IF i <= Len(s) THEN s[i] ELSE t[i - Len(s)]
    BY ConcatProperties, LenProperties
  <1>2. \A i \in 1..Len(s \o t) :
          \/ i \in 1..Len(s) /\ (s \o t)[i] = s[i]
          \/ i - Len(s) \in 1..Len(t) /\ (s \o t)[i] = t[i - Len(s)]
    BY <1>1
  <1>. QED BY <1>2 DEF Before

\* The first event and the rest, as parts of a sequence.
LEMMA HeadAndTail ==
  ASSUME NEW s \in Seq(Events), s # <<>>
  PROVE  /\ Head(s) \in Events /\ Head(s) = s[1] /\ Tail(s) \in Seq(Events)
         /\ Len(Tail(s)) = Len(s) - 1 /\ Len(s) \in Nat /\ Len(s) > 0
         /\ \A i \in 1..Len(Tail(s)) : i + 1 \in 1..Len(s) /\ Tail(s)[i] = s[i + 1]
         /\ \A lo, hi : InOrder(s, lo, hi) => InOrder(Tail(s), lo, hi)
         /\ \A u : Before(u, s) => Before(u, Tail(s))
         /\ \A u : Before(s, u) => Before(Tail(s), u)
  <1>1. /\ Head(s) \in Events /\ Tail(s) \in Seq(Events) /\ Len(Tail(s)) = Len(s) - 1
        /\ \A i \in 1..Len(Tail(s)) : Tail(s)[i] = s[i + 1]
    BY HeadTailProperties
  <1>2. Len(s) \in Nat /\ Len(s) > 0 /\ Head(s) = s[1]
    BY LenProperties, EmptySeq
  <1>3. \A i \in 1..Len(Tail(s)) : i + 1 \in 1..Len(s) /\ Tail(s)[i] = s[i + 1]
    BY <1>1, <1>2
  <1>4. /\ \A lo, hi : InOrder(s, lo, hi) => InOrder(Tail(s), lo, hi)
        /\ \A u : Before(u, s) => Before(u, Tail(s))
        /\ \A u : Before(s, u) => Before(Tail(s), u)
    BY <1>1, <1>3, PartOrder
  <1>. QED BY <1>1, <1>2, <1>3, <1>4

\* A publication sends values of the right types.
LEMMA PublishTyped ==
  ASSUME TypeOK, NEW s \in Snapshots, NEW es \in Seq(Events), Publish(s, es)
  PROVE  /\ runtime' \in Snapshots
         /\ channel' \in [queue : Seq(Events), lagged : BOOLEAN]
         /\ Len(channel'.queue) <= Capacity
  BY SentProperties DEF Publish

\* Trees published in order stay in order, whatever the channel loses.
LEMMA PublishOrder ==
  ASSUME TypeOK, TreesInOrder, NEW s \in Snapshots, NEW es \in Seq(Events), Publish(s, es),
         UNCHANGED <<wire, ui>>, runtime.tree <= s.tree, InOrder(es, runtime.tree, s.tree),
         result' # NotSent => result'.snapshot.tree = 1
  PROVE  TreesInOrder'
  <1>. DEFINE all == channel.queue \o es
  <1>1. /\ channel.queue \in Seq(Events) /\ runtime.tree \in Nat /\ s.tree \in Nat
        /\ ui.tree \in Nat /\ Wired \in Seq(Events)
        /\ ui.tree <= runtime.tree /\ 1 <= runtime.tree
    BY WiredProperties DEF TypeOK, Snapshots, TreesInOrder
  <1>2. all \in Seq(Events)
    BY <1>1, ConcatProperties
  <1>3. ASSUME NEW lo \in Nat, lo <= runtime.tree, InOrder(channel.queue, lo, runtime.tree),
               InOrder(Wired, lo, runtime.tree)
        PROVE  InOrder(all, lo, s.tree) /\ InOrder(Wired, lo, s.tree) /\ Before(Wired, es)
    <2>1. InOrder(channel.queue, lo, s.tree) /\ InOrder(es, lo, s.tree) /\ InOrder(Wired, lo, s.tree)
      BY <1>1, <1>3, WiderOrder
    <2>2. Before(channel.queue, es) /\ Before(Wired, es)
      BY <1>1, <1>3, BoundsOrder
    <2>. QED BY <1>1, <2>1, <2>2, ConcatOrder
  <1>4. /\ InOrder(all, ui.tree, s.tree) /\ InOrder(Wired, ui.tree, s.tree)
        /\ InOrder(all, 1, s.tree) /\ InOrder(Wired, 1, s.tree) /\ Before(Wired, es)
    BY <1>1, <1>3 DEF TreesInOrder
  <1>5. Before(Wired, all)
    BY <1>1, <1>4, BeforeConcat DEF TreesInOrder
  <1>6. PICK n \in Nat : \A i \in 1..Len(channel'.queue) :
          i + n \in 1..Len(all) /\ channel'.queue[i] = all[i + n]
    BY SentProperties DEF Publish
  <1>7. channel'.queue \in Seq(Events)
    BY SentProperties DEF Publish
  <1>. HIDE DEF all
  <1>8. /\ InOrder(channel'.queue, ui.tree, s.tree) /\ InOrder(channel'.queue, 1, s.tree)
        /\ Before(Wired, channel'.queue)
    BY <1>2, <1>4, <1>5, <1>6, <1>7, PartOrder
  <1>9. Wired' = Wired /\ ui' = ui /\ runtime' = s
    BY DEF Wired, Publish
  <1>10. ui.tree <= s.tree /\ 1 <= s.tree
    BY <1>1
  <1>. QED BY <1>4, <1>8, <1>9, <1>10 DEF TreesInOrder

\* A publication that tells how the snapshot changed leaves nothing untold.
LEMMA PublishTells ==
  ASSUME TypeOK, EventsTell, NEW s \in Snapshots, NEW es \in Seq(Events), Publish(s, es),
         UNCHANGED <<wire, ui, reader>>, phase \notin {"prepared", "stopped"},
         \A k \in Keys : Brings(es, k, runtime[k], s[k])
  PROVE  EventsTell'
  <1>1. /\ channel'.lagged = FALSE => ~channel.lagged /\ channel'.queue = channel.queue \o es
        /\ channel'.lagged \in BOOLEAN
    BY SentProperties DEF Publish
  <1>2. /\ Wired' = Wired /\ runtime' = s /\ channel.queue \in Seq(Events)
        /\ \A k \in Keys : runtime[k] \in Values(k) /\ Shown(k)' = Shown(k)
    BY DEF Wired, Publish, TypeOK, Snapshots, Keys, Values, Shown
  <1>3. ASSUME ~channel'.lagged, reader.at = "receive", NEW k \in Keys, NEW v \in Values(k),
               ui.latest = -1 \/ v = Shown(k)
        PROVE  \E m \in Values(k) : Brings(Wired, k, v, m) /\ Brings(channel'.queue, k, m, s[k])
    <2>1. PICK m \in Values(k) : Brings(Wired, k, v, m) /\ Brings(channel.queue, k, m, runtime[k])
      BY <1>1, <1>3 DEF EventsTell
    <2>2. Brings(channel'.queue, k, m, s[k])
      BY <1>1, <1>2, <1>3, <2>1, ConcatBrings
    <2>. QED BY <2>1, <2>2
  <1>4. ASSUME ~channel'.lagged, reader.at = "await"
        PROVE  /\ \E i \in 1..Len(channel'.queue) : IsBarrier(channel'.queue[i])
               /\ \A k \in Keys : \E v \in Values(k) : Brings(channel'.queue, k, v, s[k])
    <2>1. PICK i \in 1..Len(channel.queue) : IsBarrier(channel.queue[i])
      BY <1>1, <1>4 DEF EventsTell
    <2>2. i \in 1..Len(channel'.queue) /\ channel'.queue[i] = channel.queue[i]
      <3>1. /\ Len(channel.queue \o es) = Len(channel.queue) + Len(es)
            /\ Len(channel.queue) \in Nat /\ Len(es) \in Nat
            /\ \A j \in 1..Len(channel.queue) : (channel.queue \o es)[j] = channel.queue[j]
        BY <1>2, ConcatProperties, LenProperties
      <3>. QED BY <1>1, <1>4, <3>1
    <2>3. ASSUME NEW k \in Keys
          PROVE  \E v \in Values(k) : Brings(channel'.queue, k, v, s[k])
      <3>1. PICK v \in Values(k) : Brings(channel.queue, k, v, runtime[k])
        BY <1>1, <1>4 DEF EventsTell
      <3>2. Brings(channel'.queue, k, v, s[k])
        BY <1>1, <1>2, <1>4, <3>1, ConcatBrings
      <3>. QED BY <3>2
    <2>. QED BY <2>1, <2>2, <2>3
  <1>5. /\ \A e : IsBarrier(e)' <=> IsBarrier(e)
        /\ reader' = reader /\ ui' = ui
    BY DEF IsBarrier
  <1>. QED BY <1>2, <1>3, <1>4, <1>5 DEF EventsTell

\* An event that the reader takes from the channel and puts on the wire, alone or after
\* others that name no tree, stays in order.
LEMMA EmitOrder ==
  ASSUME TypeOK, RevisionsOK, TreesInOrder, channel.queue # <<>>, Take, NEW es \in Seq(Events),
         Emit(es), UNCHANGED <<runtime, result, ui>>,
         \A i \in 1..Len(es) : Bears(es[i], "tree") => i = Len(es) /\ es[i] = Head(channel.queue)
  PROVE  TreesInOrder'
  <1>. DEFINE q == channel.queue
  <1>1. q \in Seq(Events) /\ Wired \in Seq(Events) /\ Wired' = Wired \o es /\ channel'.queue = Tail(q)
    BY EmitProperties, WiredProperties DEF TypeOK, Take
  <1>. HIDE DEF q
  <1>2. /\ Head(q) = q[1] /\ Tail(q) \in Seq(Events) /\ Len(Tail(q)) = Len(q) - 1
        /\ Len(q) \in Nat /\ Len(q) > 0
        /\ \A i \in 1..Len(Tail(q)) : i + 1 \in 1..Len(q) /\ Tail(q)[i] = q[i + 1]
        /\ \A lo, hi : InOrder(q, lo, hi) => InOrder(Tail(q), lo, hi)
        /\ \A u : Before(u, q) => Before(u, Tail(q))
    BY <1>1, HeadAndTail DEF q
  <1>3. \A i \in 1..Len(es) : Bears(es[i], "tree") => i = Len(es) /\ es[i] = q[1]
    BY <1>2 DEF q
  <1>4. ASSUME NEW lo \in Nat, InOrder(q, lo, runtime.tree), InOrder(Wired, lo, runtime.tree)
        PROVE  InOrder(Wired', lo, runtime.tree) /\ InOrder(Tail(q), lo, runtime.tree)
    <2>1. InOrder(es, lo, runtime.tree)
      <3>1. \A i \in 1..Len(es) : Bears(es[i], "tree") => Value(es[i], "tree") \in lo..runtime.tree
        BY <1>2, <1>3, <1>4 DEF InOrder
      <3>2. \A i, j \in 1..Len(es) : i < j => ~(Bears(es[i], "tree") /\ Bears(es[j], "tree"))
        BY <1>3
      <3>. QED BY <3>1, <3>2 DEF InOrder
    <2>2. Before(Wired, es)
      BY <1>2, <1>3 DEF Before, TreesInOrder, q
    <2>. QED BY <1>1, <1>2, <1>4, <2>1, <2>2, ConcatOrder
  <1>5. Before(Wired', Tail(q))
    <2>1. Before(Wired, Tail(q))
      BY <1>2 DEF TreesInOrder, q
    <2>2. Before(es, Tail(q))
      <3>1. ASSUME NEW j \in 1..Len(Tail(q)), Bears(Tail(q)[j], "tree"), Bears(q[1], "tree")
            PROVE  Value(q[1], "tree") <= Value(Tail(q)[j], "tree")
        <4>1. 1 \in 1..Len(q) /\ j + 1 \in 1..Len(q) /\ 1 < j + 1 /\ Tail(q)[j] = q[j + 1]
          BY <1>2
        <4>2. InOrder(q, 1, runtime.tree)
          BY DEF TreesInOrder, q
        <4>. QED BY <3>1, <4>1, <4>2 DEF InOrder
      <3>. QED BY <1>3, <3>1 DEF Before
    <2>. QED BY <1>1, <1>2, <2>1, <2>2, BeforeConcat
  <1>6. ui.tree \in Nat /\ 1 \in Nat
    BY DEF TypeOK
  <1>7. /\ InOrder(Wired', ui.tree, runtime.tree) /\ InOrder(Wired', 1, runtime.tree)
        /\ InOrder(Tail(q), ui.tree, runtime.tree) /\ InOrder(Tail(q), 1, runtime.tree)
    BY <1>4, <1>6 DEF TreesInOrder, q
  <1>8. /\ ui.tree <= runtime.tree /\ 1 <= runtime.tree
        /\ result # NotSent => result.snapshot.tree = 1
    BY DEF TreesInOrder
  <1>9. runtime' = runtime /\ result' = result /\ ui' = ui /\ NotSent' = NotSent
    BY DEF NotSent
  <1>. QED BY <1>1, <1>5, <1>7, <1>8, <1>9 DEF TreesInOrder

\* Dropping the first event of the channel, or only the mark of a lag, keeps the order.
LEMMA DropOrder ==
  ASSUME TypeOK, TreesInOrder, UNCHANGED <<runtime, wire, result, ui>>,
         channel'.queue = channel.queue
           \/ (channel.queue # <<>> /\ channel'.queue = Tail(channel.queue))
  PROVE  TreesInOrder'
  <1>1. Wired' = Wired /\ runtime' = runtime /\ result' = result /\ ui' = ui
    BY DEF Wired
  <1>2. channel.queue \in Seq(Events)
    BY DEF TypeOK
  <1>3. /\ \A lo, hi : InOrder(channel.queue, lo, hi) => InOrder(channel'.queue, lo, hi)
        /\ \A u : Before(u, channel.queue) => Before(u, channel'.queue)
    BY <1>2, HeadAndTail
  <1>. QED BY <1>1, <1>3 DEF TreesInOrder

-----------------------------------------------------------------------------
(***************************************************************************)
(* The actions, one by one.                                                *)
(***************************************************************************)

LEMMA InitInv == Init => EventsInv
  <1>. SUFFICES ASSUME Init PROVE EventsInv
    OBVIOUS
  <1>1. TypeOK
    BY EventsAssumption DEF Init, TypeOK, Snapshots, Statuses, NotSent
  <1>2. PhaseOK /\ RevisionsOK /\ EventsTell
    BY DEF Init, PhaseOK, RevisionsOK, Heard, EventsTell, NothingHeld, NotSent
  <1>3. TreesInOrder
    <2>1. Wired = <<>>
      BY DEF Init, Wired
    <2>. QED BY <2>1 DEF Init, TreesInOrder, InOrder, Before, NotSent
  <1>. QED BY <1>1, <1>2, <1>3 DEF EventsInv

\* The two events of the start say everything there is to say.
LEMMA PublishStartStep == EventsInv /\ PublishStart => EventsInv'
  <1>. SUFFICES ASSUME EventsInv, PublishStart PROVE EventsInv'
    OBVIOUS
  <1>. DEFINE es == <<TreeChanged(runtime.tree), StatusChanged(runtime.status)>>
  <1>0. TypeOK /\ PhaseOK /\ RevisionsOK /\ TreesInOrder
    BY DEF EventsInv
  <1>1. /\ runtime \in Snapshots /\ runtime.tree \in Nat /\ runtime.status \in Statuses
        /\ es \in Seq(Events) /\ Len(es) = 2
        /\ es[1] = TreeChanged(runtime.tree) /\ es[2] = StatusChanged(runtime.status)
    <2>1. runtime \in Snapshots /\ runtime.tree \in Nat /\ runtime.status \in Statuses
      BY <1>0 DEF TypeOK, Snapshots
    <2>2. TreeChanged(runtime.tree) \in Events /\ StatusChanged(runtime.status) \in Events
      BY <2>1, MadeEvents
    <2>. QED BY <2>1, <2>2
  <1>2. Publish(runtime, es) /\ phase = "prepared" /\ phase' = "watching"
        /\ UNCHANGED <<changes, barriers, reader, revision, wire, result, ui>>
    BY DEF PublishStart, uiVars
  <1>3. /\ ~Bears(es[1], "status") /\ Bears(es[2], "status") /\ Value(es[2], "status") = runtime.status
        /\ Bears(es[1], "tree") /\ ~Bears(es[2], "tree") /\ Value(es[1], "tree") = runtime.tree
    BY <1>1 DEF Bears, Value, TreeChanged, StatusChanged
  <1>. HIDE DEF es
  <1>4. TypeOK'
    BY <1>0, <1>1, <1>2, PublishTyped DEF TypeOK, NotSent
  <1>5. PhaseOK' /\ RevisionsOK'
    BY <1>0, <1>2 DEF PhaseOK, RevisionsOK, Heard, Publish, NotSent
  <1>6. TreesInOrder'
    <2>1. InOrder(es, runtime.tree, runtime.tree)
      BY <1>1, <1>3 DEF InOrder
    <2>. QED BY <1>0, <1>1, <1>2, <2>1, PublishOrder DEF TreesInOrder, NotSent
  <1>7. EventsTell'
    <2>1. reader.at = "receive" /\ channel.queue = <<>> /\ wire = <<>>
      BY <1>0, <1>2 DEF PhaseOK, NothingHeld
    <2>2. channel'.lagged = FALSE => channel'.queue = es
      <3>1. channel'.lagged = FALSE => channel'.queue = channel.queue \o es
        BY <1>0, <1>1, <1>2, SentProperties DEF Publish
      <3>. QED BY <1>1, <2>1, <3>1, ConcatEmptySeq
    <2>3. Wired' = <<>>
      BY <1>2, <2>1 DEF Wired
    <2>4. ASSUME NEW k \in Keys, NEW v \in Values(k)
          PROVE  Brings(<<>>, k, v, v) /\ Brings(es, k, v, runtime[k])
      BY <1>1, <1>3 DEF Brings, Keys
    <2>5. runtime' = runtime /\ reader' = reader
      BY <1>2 DEF Publish
    <2>. QED BY <2>1, <2>2, <2>3, <2>4, <2>5 DEF EventsTell
  <1>. QED BY <1>4, <1>5, <1>6, <1>7 DEF EventsInv

\* A change of the snapshot that is published whole.
LEMMA RuntimeStep ==
  ASSUME EventsInv, NEW s \in Snapshots, NEW es \in Seq(Events), Publish(s, es),
         UNCHANGED <<phase, barriers, reader, revision, uiVars>>, changes' \in 0..MaxChanges,
         phase \notin {"prepared", "stopped"}, phase = "watching" => s.tree = runtime.tree,
         runtime.tree <= s.tree, InOrder(es, runtime.tree, s.tree),
         \A k \in Keys : Brings(es, k, runtime[k], s[k])
  PROVE  EventsInv'
  <1>1. TypeOK /\ PhaseOK /\ RevisionsOK /\ TreesInOrder /\ EventsTell
    BY DEF EventsInv
  <1>2. UNCHANGED <<phase, barriers, reader, revision, wire, result, ui>> /\ runtime' = s
    BY DEF uiVars, Publish
  <1>3. TypeOK'
    BY <1>1, <1>2, PublishTyped DEF TypeOK, NotSent
  <1>4. PhaseOK' /\ RevisionsOK'
    BY <1>1, <1>2 DEF PhaseOK, RevisionsOK, Heard, NotSent
  <1>5. TreesInOrder'
    BY <1>1, <1>2, PublishOrder DEF TreesInOrder, NotSent
  <1>6. EventsTell'
    BY <1>1, <1>2, PublishTells
  <1>. QED BY <1>3, <1>4, <1>5, <1>6 DEF EventsInv

\* A reconcile tells of the tree and, when it changed, of the index status.
LEMMA ToldProperties ==
  ASSUME TypeOK, NEW s \in Snapshots, runtime.tree <= s.tree
  PROVE  /\ Told(s) \in Seq(Events)
         /\ InOrder(Told(s), runtime.tree, s.tree)
         /\ \A k \in Keys : Brings(Told(s), k, runtime[k], s[k])
  <1>1. /\ s.tree \in Nat /\ s.status \in Statuses /\ runtime.tree \in Nat
        /\ TreeChanged(s.tree) \in Events /\ StatusChanged(s.status) \in Events
    BY MadeEvents DEF Snapshots, TypeOK
  <1>2. /\ Bears(TreeChanged(s.tree), "tree") /\ Value(TreeChanged(s.tree), "tree") = s.tree
        /\ ~Bears(TreeChanged(s.tree), "status")
        /\ Bears(StatusChanged(s.status), "status")
        /\ Value(StatusChanged(s.status), "status") = s.status
        /\ ~Bears(StatusChanged(s.status), "tree")
    BY DEF Bears, Value, TreeChanged, StatusChanged
  <1>. DEFINE a == TreeChanged(s.tree)
              b == StatusChanged(s.status)
  <1>. HIDE DEF a, b
  <1>3. CASE s.status = runtime.status
    <2>1. Told(s) = <<a>>
      BY <1>3 DEF Told, a
    <2>. QED BY <1>1, <1>2, <1>3, <2>1 DEF a, b, Brings, InOrder, Keys
  <1>4. CASE s.status # runtime.status
    <2>. DEFINE t == Told(s)
    <2>1. t = <<a>> \o <<b>> /\ <<a>> \in Seq(Events) /\ Len(<<a>>) = 1 /\ a \in Events /\ b \in Events
      BY <1>1, <1>4 DEF Told, a, b
    <2>. HIDE DEF t
    <2>2. t = Append(<<a>>, b)
      BY <2>1, AppendIsConcat
    <2>3. t \in Seq(Events) /\ Len(t) = 2 /\ t[1] = a /\ t[2] = b
      <3>1. <<a>>[1] = a
        OBVIOUS
      <3>. QED BY <2>1, <2>2, <3>1, AppendProperties
    <2>4. InOrder(t, runtime.tree, s.tree)
      BY <1>1, <1>2, <2>3 DEF InOrder, a, b
    <2>5. Brings(t, "tree", runtime.tree, s.tree)
      BY <1>2, <2>3 DEF Brings, a, b
    <2>6. Brings(t, "status", runtime.status, s.status)
      BY <1>2, <2>3 DEF Brings, a, b
    <2>. QED BY <2>3, <2>4, <2>5, <2>6 DEF Keys, t
  <1>. QED BY <1>3, <1>4

\* The bounds on what the runtime publishes by itself.
LEMMA ChangesTyped ==
  ASSUME TypeOK, changes < MaxChanges
  PROVE  changes + 1 \in 0..MaxChanges
  BY EventsAssumption DEF TypeOK

LEMMA RuntimeStepsKept == EventsInv /\ RuntimeSteps => EventsInv'
  <1>. SUFFICES ASSUME EventsInv, RuntimeSteps PROVE EventsInv'
    OBVIOUS
  <1>0. TypeOK /\ PhaseOK /\ runtime \in Snapshots /\ runtime.tree \in Nat
    BY DEF EventsInv, TypeOK, Snapshots
  <1>1. CASE Reconcile
    <2>1. PICK t \in {runtime.tree, runtime.tree + 1}, st \in {"ready", "degraded"} :
            Publish([tree |-> t, status |-> st], Told([tree |-> t, status |-> st]))
      BY <1>1 DEF Reconcile
    <2>. DEFINE s == [tree |-> t, status |-> st]
    <2>2. s \in Snapshots /\ s.tree = t /\ runtime.tree <= s.tree
      BY <1>0 DEF Snapshots, Statuses
    <2>. HIDE DEF s
    <2>3. Publish(s, Told(s))
      BY <2>1 DEF s
    <2>4. /\ Told(s) \in Seq(Events) /\ InOrder(Told(s), runtime.tree, s.tree)
          /\ \A k \in Keys : Brings(Told(s), k, runtime[k], s[k])
      BY <1>0, <2>2, ToldProperties
    <2>5. /\ phase \in {"started", "answering"} /\ changes' \in 0..MaxChanges
          /\ UNCHANGED <<phase, barriers, reader, revision, uiVars>>
      BY <1>0, <1>1, ChangesTyped DEF Reconcile, Reconciling
    <2>. QED BY <2>2, <2>3, <2>4, <2>5, RuntimeStep
  <1>2. CASE ReconcileFails
    <2>1. <<Failed>> \in Seq(Events) /\ ~Bears(Failed, "tree") /\ ~Bears(Failed, "status")
      BY MadeEvents DEF Bears, Failed
    <2>2. /\ InOrder(<<Failed>>, runtime.tree, runtime.tree)
          /\ \A k \in Keys : Brings(<<Failed>>, k, runtime[k], runtime[k])
      BY <2>1 DEF InOrder, Brings, Keys
    <2>3. /\ phase \in {"started", "answering"} /\ changes' \in 0..MaxChanges
          /\ UNCHANGED <<phase, barriers, reader, revision, uiVars>>
          /\ Publish(runtime, <<Failed>>)
      BY <1>0, <1>2, ChangesTyped DEF ReconcileFails, Reconciling
    <2>4. runtime.tree <= runtime.tree
      BY <1>0
    <2>. DEFINE es == <<Failed>>
    <2>. HIDE DEF es
    <2>5. /\ es \in Seq(Events) /\ InOrder(es, runtime.tree, runtime.tree) /\ Publish(runtime, es)
          /\ \A k \in Keys : Brings(es, k, runtime[k], runtime[k])
      BY <2>1, <2>2, <2>3 DEF es
    <2>. QED BY <1>0, <2>3, <2>4, <2>5, RuntimeStep
  <1>3. CASE MarkWatcherDegraded
    <2>. DEFINE s == [runtime EXCEPT !.status = "degraded"]
                es == IF s = runtime THEN <<>> ELSE <<StatusChanged("degraded")>>
    <2>1. s \in Snapshots /\ s.tree = runtime.tree /\ s.status = "degraded"
      BY <1>0 DEF Snapshots, Statuses
    <2>2. StatusChanged("degraded") \in Events
      BY MadeEvents DEF Statuses
    <2>3. /\ Bears(StatusChanged("degraded"), "status") /\ ~Bears(StatusChanged("degraded"), "tree")
          /\ Value(StatusChanged("degraded"), "status") = "degraded"
      BY DEF Bears, Value, StatusChanged
    <2>. HIDE DEF s
    <2>4. /\ es \in Seq(Events) /\ InOrder(es, runtime.tree, s.tree)
          /\ \A k \in Keys : Brings(es, k, runtime[k], s[k])
      <3>1. CASE s = runtime
        BY <3>1 DEF InOrder, Brings
      <3>2. CASE s # runtime
        <4>1. es = <<StatusChanged("degraded")>>
          BY <3>2
        <4>2. es \in Seq(Events)
          BY <2>2, <4>1
        <4>. QED BY <2>1, <2>3, <4>1, <4>2 DEF InOrder, Brings, Keys
      <3>. QED BY <3>1, <3>2
    <2>5. /\ phase \in {"watching", "started", "answering"} /\ changes' \in 0..MaxChanges
          /\ UNCHANGED <<phase, barriers, reader, revision, uiVars>>
          /\ Publish(s, es)
      <3>1. changes < MaxChanges /\ changes' = changes + 1 /\ Degrade
        BY <1>3 DEF MarkWatcherDegraded, Reconciling
      <3>2. phase \in {"watching", "started", "answering"}
            /\ UNCHANGED <<phase, barriers, reader, revision, uiVars>>
        BY <1>3 DEF MarkWatcherDegraded, Reconciling
      <3>3. Publish(s, es)
        BY <3>1 DEF Degrade, s
      <3>. QED BY <1>0, <3>1, <3>2, <3>3, ChangesTyped
    <2>. HIDE DEF es
    <2>. QED BY <1>0, <2>1, <2>4, <2>5, RuntimeStep
  <1>. QED BY <1>1, <1>2, <1>3 DEF RuntimeSteps

-----------------------------------------------------------------------------
(***************************************************************************)
(* The reader.                                                             *)
(***************************************************************************)

\* A step of the reader that takes at most one event from the channel and sends nothing.
LEMMA DropTyped ==
  ASSUME TypeOK,
         \/ channel.queue # <<>> /\ Take
         \/ channel' = [channel EXCEPT !.lagged = FALSE]
         \/ UNCHANGED channel
  PROVE  /\ channel' \in [queue : Seq(Events), lagged : BOOLEAN]
         /\ Len(channel'.queue) <= Capacity
         /\ \/ channel'.queue = channel.queue
            \/ channel.queue # <<>> /\ channel'.queue = Tail(channel.queue)
         /\ channel'.lagged => channel.lagged
  <1>1. /\ channel \in [queue : Seq(Events), lagged : BOOLEAN] /\ Len(channel.queue) <= Capacity
        /\ channel.queue \in Seq(Events) /\ Capacity \in Nat
    BY EventsAssumption DEF TypeOK
  <1>2. CASE channel.queue # <<>> /\ Take
    <2>1. /\ Tail(channel.queue) \in Seq(Events) /\ Len(Tail(channel.queue)) = Len(channel.queue) - 1
          /\ Len(channel.queue) \in Nat
      BY <1>1, <1>2, HeadAndTail
    <2>2. channel' = [channel EXCEPT !.queue = Tail(channel.queue)]
      BY <1>2 DEF Take
    <2>3. channel'.queue = Tail(channel.queue) /\ channel'.lagged = channel.lagged
      BY <1>1, <2>2
    <2>4. channel' \in [queue : Seq(Events), lagged : BOOLEAN]
      BY <1>1, <2>1, <2>2
    <2>5. Len(Tail(channel.queue)) <= Capacity
      BY <1>1, <2>1
    <2>. QED BY <1>2, <2>3, <2>4, <2>5
  <1>3. CASE channel' = [channel EXCEPT !.lagged = FALSE] \/ UNCHANGED channel
    BY <1>1, <1>3
  <1>. QED BY <1>2, <1>3

\* Steps that leave all but the channel and the place of the reader alone.
ReaderMoves(places) ==
  /\ reader.by # "nobody"
  /\ reader' \in [by : {reader.by}, at : places, barrier : Nat]
  /\ UNCHANGED <<runtime, changes, phase, result, ui, revision, wire>>

\* While the reader recovers from a lag, the channel may hold anything.
LEMMA RecoveringStep ==
  ASSUME EventsInv, ReaderMoves({"discard", "publish"}), UNCHANGED barriers,
         \/ channel.queue # <<>> /\ Take
         \/ channel' = [channel EXCEPT !.lagged = FALSE]
         \/ UNCHANGED channel
  PROVE  EventsInv'
  <1>1. TypeOK /\ PhaseOK /\ RevisionsOK /\ TreesInOrder
    BY DEF EventsInv
  <1>2. TypeOK'
    <2>1. channel' \in [queue : Seq(Events), lagged : BOOLEAN] /\ Len(channel'.queue) <= Capacity
      BY <1>1, DropTyped
    <2>2. reader' \in [by : {"nobody", "flush", "listener"},
                       at : {"receive", "discard", "publish", "await"}, barrier : Nat]
      BY <1>1 DEF ReaderMoves, TypeOK
    <2>. QED BY <1>1, <2>1, <2>2 DEF TypeOK, ReaderMoves, NotSent
  <1>3. PhaseOK'
    <2>1. reader'.by = reader.by /\ phase \in {"started", "answering"}
      BY <1>1 DEF PhaseOK, ReaderMoves, TypeOK
    <2>. QED BY <1>1, <2>1 DEF PhaseOK, ReaderMoves, NotSent
  <1>4. RevisionsOK'
    BY <1>1 DEF RevisionsOK, ReaderMoves, Heard
  <1>5. EventsTell'
    BY DEF EventsTell, ReaderMoves
  <1>6. TreesInOrder'
    BY <1>1, DropTyped, DropOrder DEF ReaderMoves
  <1>. QED BY <1>2, <1>3, <1>4, <1>5, <1>6 DEF EventsInv

LEMMA LagSteps ==
  EventsInv /\ (FindLag \/ DiscardRetained \/ RetainedDiscarded \/ LagBeforeBarrier) => EventsInv'
  <1>. SUFFICES ASSUME EventsInv,
                       FindLag \/ DiscardRetained \/ RetainedDiscarded \/ LagBeforeBarrier
                PROVE  EventsInv'
    OBVIOUS
  <1>1. reader \in [by : {"nobody", "flush", "listener"},
                    at : {"receive", "discard", "publish", "await"}, barrier : Nat]
        /\ channel \in [queue : Seq(Events), lagged : BOOLEAN]
    BY DEF EventsInv, TypeOK
  <1>2. ReaderMoves({"discard", "publish"}) /\ UNCHANGED barriers
    <2>1. CASE FindLag \/ LagBeforeBarrier
      BY <1>1, <2>1 DEF FindLag, LagBeforeBarrier, Reading, GoTo, readerVars, ReaderMoves
    <2>2. CASE DiscardRetained
      BY <1>1, <2>2 DEF DiscardRetained, Reading, GoTo, readerVars, ReaderMoves
    <2>3. CASE RetainedDiscarded
      BY <1>1, <2>3 DEF RetainedDiscarded, Reading, GoTo, readerVars, ReaderMoves
    <2>. QED BY <2>1, <2>2, <2>3
  <1>3. \/ channel.queue # <<>> /\ Take
        \/ channel' = [channel EXCEPT !.lagged = FALSE]
        \/ UNCHANGED channel
    BY DEF FindLag, DiscardRetained, RetainedDiscarded, LagBeforeBarrier, NothingHeld, readerVars
  <1>. QED BY <1>2, <1>3, RecoveringStep

\* The event that is received goes from the channel to the wire.
LEMMA ReceiveEventStep == EventsInv /\ ReceiveEvent => EventsInv'
  <1>. SUFFICES ASSUME EventsInv, ReceiveEvent PROVE EventsInv'
    OBVIOUS
  <1>. DEFINE q == channel.queue
              e == Head(channel.queue)
  <1>1. TypeOK /\ PhaseOK /\ RevisionsOK /\ TreesInOrder /\ EventsTell
    BY DEF EventsInv
  <1>2. /\ reader.by # "nobody" /\ reader.at = "receive" /\ ~channel.lagged /\ q # <<>>
        /\ Take /\ Emit(<<e>>)
        /\ UNCHANGED <<runtime, changes, phase, result, ui, barriers, reader>>
    BY DEF ReceiveEvent, Reading, readerVars
  <1>3. /\ q \in Seq(Events) /\ e \in Events /\ Tail(q) \in Seq(Events)
        /\ <<e>> \in Seq(Events) /\ Len(<<e>>) = 1 /\ <<e>>[1] = e
        /\ channel'.queue = Tail(q) /\ channel'.lagged = channel.lagged
    <2>1. channel \in [queue : Seq(Events), lagged : BOOLEAN]
      BY <1>1 DEF TypeOK
    <2>2. e \in Events /\ Tail(q) \in Seq(Events)
      BY <1>2, <2>1, HeadAndTail
    <2>. QED BY <1>2, <2>1, <2>2 DEF Take
  <1>. HIDE DEF e
  <1>4. TypeOK'
    BY <1>1, <1>2, <1>3, DropTyped, EmitProperties DEF TypeOK, NotSent
  <1>5. PhaseOK'
    <2>1. phase \in {"started", "answering"}
      BY <1>1, <1>2 DEF PhaseOK, TypeOK
    <2>. QED BY <1>1, <1>2, <2>1 DEF PhaseOK, NotSent
  <1>6. RevisionsOK'
    <2>1. revision' = revision + 1 /\ ui' = ui
      BY <1>1, <1>2, <1>3, EmitProperties
    <2>2. ui.latest >= -1 /\ Heard < revision /\ Heard \in Int /\ revision \in Nat
          /\ (ui.latest = -1 => ui.tree = 0)
      BY <1>1 DEF RevisionsOK, TypeOK, Heard
    <2>3. Heard < revision' /\ Heard' = Heard
      BY <2>1, <2>2 DEF Heard
    <2>4. /\ \A i \in 1..Len(wire)' : wire'[i].revision > Heard /\ wire'[i].revision < revision'
          /\ \A i, j \in 1..Len(wire)' : i < j => wire'[i].revision < wire'[j].revision
      BY <1>1, <1>2, <1>3, EmitProperties
    <2>5. ui' = ui /\ (ui.latest = -1 => ui.tree = 0)
      BY <2>1, <2>2
    <2>. QED BY <2>2, <2>3, <2>4, <2>5 DEF RevisionsOK
  <1>7. TreesInOrder'
    <2>. DEFINE es == <<e>>
    <2>1. \A i \in 1..Len(es) : Bears(es[i], "tree") => i = Len(es) /\ es[i] = Head(channel.queue)
      BY <1>3 DEF e
    <2>2. es \in Seq(Events) /\ Emit(es)
      BY <1>2, <1>3
    <2>. HIDE DEF es
    <2>. QED BY <1>1, <1>2, <2>1, <2>2, EmitOrder
  <1>8. EventsTell'
    <2>1. /\ Wired \in Seq(Events) /\ Wired' = Wired \o <<e>>
          /\ runtime' = runtime /\ reader' = reader /\ ui' = ui
      BY <1>1, <1>2, <1>3, WiredProperties, EmitProperties
    <2>4. phase \notin {"prepared", "stopped"}
      BY <1>1, <1>2 DEF PhaseOK, TypeOK
    <2>2. ASSUME NEW k \in Keys, NEW v \in Values(k), ui.latest = -1 \/ v = Shown(k)
          PROVE  \E m \in Values(k) : Brings(Wired', k, v, m) /\ Brings(Tail(q), k, m, runtime[k])
      <3>1. PICK m \in Values(k) : Brings(Wired, k, v, m) /\ Brings(q, k, m, runtime[k])
        BY <1>1, <1>2, <2>2, <2>4 DEF EventsTell
      <3>2. Brings(<<e>>, k, m, After(e, k, m))
        BY ShortBrings
      <3>3. Brings(Wired', k, v, After(e, k, m))
        BY <1>3, <2>1, <3>1, <3>2, ConcatBrings
      <3>4. Brings(Tail(q), k, After(e, k, m), runtime[k])
        BY <1>2, <1>3, <3>1, TailBrings DEF e
      <3>5. After(e, k, m) \in Values(k)
        BY <1>3, EventTyped DEF After
      <3>. QED BY <3>3, <3>4, <3>5
    <2>3. \A k : Shown(k)' = Shown(k)
      BY <2>1 DEF Shown
    <2>. QED BY <1>2, <1>3, <2>1, <2>2, <2>3 DEF EventsTell
  <1>. QED BY <1>4, <1>5, <1>6, <1>7, <1>8 DEF EventsInv

\* What the steps of the reader that send nothing leave alone.
LEMMA QuietKeeps ==
  ASSUME EventsInv, UNCHANGED <<revision, wire, ui>>
  PROVE  RevisionsOK' /\ Wired' = Wired /\ \A k : Shown(k)' = Shown(k)
  BY DEF EventsInv, RevisionsOK, Heard, Wired, Shown

\* The barrier carries the whole snapshot, so it tells all by itself.
LEMMA PublishBarrierStep == EventsInv /\ PublishResyncBarrier => EventsInv'
  <1>. SUFFICES ASSUME EventsInv, PublishResyncBarrier PROVE EventsInv'
    OBVIOUS
  <1>. DEFINE e == Resynced(barriers + 1, runtime)
              es == <<e>>
  <1>1. TypeOK /\ PhaseOK /\ RevisionsOK /\ TreesInOrder
    BY DEF EventsInv
  <1>2. /\ reader.by # "nobody" /\ reader.at = "publish" /\ Publish(runtime, es)
        /\ barriers' = barriers + 1
        /\ reader' = [reader EXCEPT !.at = "await", !.barrier = barriers + 1]
        /\ UNCHANGED <<changes, phase, revision, wire, result, ui>>
    BY DEF PublishResyncBarrier, Reading, uiVars
  <1>3. /\ runtime \in Snapshots /\ runtime.tree \in Nat /\ barriers \in Nat /\ e \in Events
        /\ \A k \in Keys : Bears(e, k) /\ Value(e, k) = runtime[k] /\ runtime[k] \in Values(k)
    <2>1. runtime \in Snapshots /\ runtime.tree \in Nat /\ barriers \in Nat /\ barriers + 1 \in Nat
      BY <1>1 DEF TypeOK, Snapshots
    <2>2. e \in Events
      BY <2>1, MadeEvents
    <2>3. \A k \in Keys : Bears(e, k) /\ Value(e, k) = runtime[k] /\ runtime[k] \in Values(k)
      BY <2>1 DEF Resynced, Bears, Value, Keys, Values, Snapshots
    <2>. QED BY <2>1, <2>2, <2>3
  <1>4. /\ reader' \in [by : {"nobody", "flush", "listener"},
                        at : {"receive", "discard", "publish", "await"}, barrier : Nat]
        /\ reader'.by = reader.by /\ reader'.at = "await" /\ reader'.barrier = barriers + 1
    <2>1. reader \in [by : {"nobody", "flush", "listener"},
                      at : {"receive", "discard", "publish", "await"}, barrier : Nat]
      BY <1>1 DEF TypeOK
    <2>2. barriers + 1 \in Nat
      BY <1>3
    <2>3. reader' = [reader EXCEPT !.at = "await", !.barrier = barriers + 1]
      BY <1>2
    <2>. QED BY <2>1, <2>2, <2>3
  <1>5. e.type = "resynced" /\ e.barrier = barriers + 1
    BY DEF Resynced
  <1>. HIDE DEF e
  <1>6. es \in Seq(Events) /\ Len(es) = 1 /\ es[1] = e
    BY <1>3
  <1>. HIDE DEF es
  <1>7. TypeOK'
    <2>1. runtime' \in Snapshots /\ channel' \in [queue : Seq(Events), lagged : BOOLEAN]
          /\ Len(channel'.queue) <= Capacity
      BY <1>1, <1>2, <1>3, <1>6, PublishTyped
    <2>2. barriers' \in Nat
      BY <1>2, <1>3
    <2>. QED BY <1>1, <1>2, <1>4, <2>1, <2>2 DEF TypeOK, NotSent
  <1>8. PhaseOK'
    <2>1. phase \in {"started", "answering"}
      BY <1>1, <1>2 DEF PhaseOK, TypeOK
    <2>. QED BY <1>1, <1>2, <1>4, <2>1 DEF PhaseOK, NotSent
  <1>9. RevisionsOK'
    BY <1>2, QuietKeeps
  <1>10. TreesInOrder'
    <2>1. InOrder(es, runtime.tree, runtime.tree)
      BY <1>3, <1>6 DEF InOrder, Keys
    <2>2. runtime.tree <= runtime.tree
      BY <1>3
    <2>3. result' # NotSent => result'.snapshot.tree = 1
      BY <1>1, <1>2 DEF TreesInOrder
    <2>. QED BY <1>1, <1>2, <1>3, <1>6, <2>1, <2>2, <2>3, PublishOrder
  <1>11. EventsTell'
    <2>. DEFINE q == channel'.queue
    <2>1. Len(q) \in Nat /\ Len(q) > 0 /\ q[Len(q)] = e
      <3>1. channel' = Sent(channel, es)
        BY <1>2 DEF Publish
      <3>2. /\ Sent(channel, es) \in [queue : Seq(Events), lagged : BOOLEAN]
            /\ Len(es) > 0 =>
                 /\ Len(Sent(channel, es).queue) > 0
                 /\ Sent(channel, es).queue[Len(Sent(channel, es).queue)] = es[Len(es)]
        BY <1>1, <1>6, SentProperties
      <3>3. q \in Seq(Events) /\ Len(q) > 0 /\ q[Len(q)] = es[Len(es)]
        BY <1>6, <3>1, <3>2
      <3>. QED BY <1>6, <3>3, LenProperties
    <2>. HIDE DEF q
    <2>2. \A k \in Keys : Brings(q, k, runtime[k], runtime[k])
      BY <1>3, <2>1 DEF Brings
    <2>3. Len(q) \in 1..Len(q) /\ q[Len(q)].type = "resynced" /\ q[Len(q)].barrier = reader'.barrier
      BY <1>4, <1>5, <2>1
    <2>4. \E i \in 1..Len(channel'.queue) :
            channel'.queue[i].type = "resynced" /\ channel'.queue[i].barrier = reader'.barrier
      BY <2>3 DEF q
    <2>5. runtime' = runtime /\ reader'.at # "receive"
      BY <1>2, <1>4 DEF Publish
    <2>6. \A k \in Keys : \E v \in Values(k) : Brings(channel'.queue, k, v, runtime'[k])
      BY <1>3, <2>2, <2>5 DEF q
    <2>. QED BY <2>4, <2>5, <2>6 DEF EventsTell, IsBarrier
  <1>. QED BY <1>7, <1>8, <1>9, <1>10, <1>11 DEF EventsInv

\* What comes before the barrier is dropped; the barrier and what follows it still tell all.
LEMMA SkipStep == EventsInv /\ SkipToBarrier => EventsInv'
  <1>. SUFFICES ASSUME EventsInv, SkipToBarrier PROVE EventsInv'
    OBVIOUS
  <1>. DEFINE q == channel.queue
  <1>1. TypeOK /\ PhaseOK /\ RevisionsOK /\ TreesInOrder /\ EventsTell
    BY DEF EventsInv
  <1>2. /\ reader.by # "nobody" /\ reader.at = "await" /\ ~channel.lagged /\ q # <<>>
        /\ ~IsBarrier(Head(q)) /\ Take
        /\ UNCHANGED <<runtime, changes, phase, result, ui, barriers, reader, revision, wire>>
    BY DEF SkipToBarrier, Reading, readerVars
  <1>3. /\ channel' \in [queue : Seq(Events), lagged : BOOLEAN] /\ Len(channel'.queue) <= Capacity
        /\ channel'.queue = Tail(q) /\ q \in Seq(Events) /\ q # <<>>
    <2>1. channel \in [queue : Seq(Events), lagged : BOOLEAN]
      BY <1>1 DEF TypeOK
    <2>2. channel'.queue = Tail(q) /\ q \in Seq(Events)
      BY <1>2, <2>1 DEF Take
    <2>. QED BY <1>1, <1>2, <2>2, DropTyped
  <1>. HIDE DEF q
  <1>4. TypeOK'
    BY <1>1, <1>2, <1>3 DEF TypeOK, NotSent
  <1>5. phase \in {"started", "answering"}
    BY <1>1, <1>2 DEF PhaseOK, TypeOK
  <1>6. PhaseOK' /\ RevisionsOK' /\ Wired' = Wired
    BY <1>1, <1>2, <1>5, QuietKeeps DEF PhaseOK, NotSent
  <1>7. TreesInOrder'
    BY <1>1, <1>2, <1>3, DropOrder DEF q
  <1>8. EventsTell'
    <2>. HIDE DEF q
    <2>1. PICK i \in 1..Len(q) : IsBarrier(q[i])
      BY <1>1, <1>2, <1>5 DEF EventsTell, q
    <2>2. i - 1 \in 1..Len(Tail(q)) /\ Tail(q)[i - 1] = q[i]
      <3>1. /\ Head(q) = q[1] /\ Len(Tail(q)) = Len(q) - 1 /\ Len(q) \in Nat
            /\ \A j \in 1..Len(Tail(q)) : Tail(q)[j] = q[j + 1]
        BY <1>3, HeadAndTail
      <3>2. i # 1
        BY <1>2, <2>1, <3>1
      <3>3. i - 1 \in 1..Len(Tail(q)) /\ (i - 1) + 1 = i
        BY <3>1, <3>2
      <3>. QED BY <3>1, <3>3
    <2>3. ASSUME NEW k \in Keys
          PROVE  \E v \in Values(k) : Brings(Tail(q), k, v, runtime[k])
      <3>1. PICK v \in Values(k) : Brings(q, k, v, runtime[k])
        BY <1>1, <1>2, <1>5 DEF EventsTell, q
      <3>2. Brings(Tail(q), k, After(Head(q), k, v), runtime[k])
        BY <1>3, <3>1, TailBrings
      <3>3. After(Head(q), k, v) \in Values(k)
        BY <1>3, EventTyped, HeadAndTail DEF After
      <3>. QED BY <3>2, <3>3
    <2>4. reader' = reader /\ runtime' = runtime
      BY <1>2
    <2>5. \E j \in 1..Len(channel'.queue) :
            channel'.queue[j].type = "resynced" /\ channel'.queue[j].barrier = reader'.barrier
      <3>1. q[i].type = "resynced" /\ q[i].barrier = reader'.barrier
        BY <2>1, <2>4 DEF IsBarrier
      <3>. QED BY <1>3, <2>2, <3>1
    <2>6. \A k \in Keys : \E v \in Values(k) : Brings(channel'.queue, k, v, runtime'[k])
      BY <1>3, <2>3, <2>4
    <2>. QED BY <1>2, <2>4, <2>5, <2>6 DEF EventsTell, IsBarrier
  <1>. QED BY <1>4, <1>6, <1>7, <1>8 DEF EventsInv

\* The barrier goes to the wire behind the notice of the lag, and tells all to everybody.
LEMMA BarrierStep == EventsInv /\ BarrierReached => EventsInv'
  <1>. SUFFICES ASSUME EventsInv, BarrierReached PROVE EventsInv'
    OBVIOUS
  <1>. DEFINE q == channel.queue
              e == Head(channel.queue)
              es == <<Failed, e>>
  <1>1. TypeOK /\ PhaseOK /\ RevisionsOK /\ TreesInOrder /\ EventsTell
    BY DEF EventsInv
  <1>2. /\ reader.by # "nobody" /\ reader.at = "await" /\ ~channel.lagged /\ channel.queue # <<>>
        /\ e.type = "resynced" /\ Take /\ Emit(es)
        /\ reader' = [reader EXCEPT !.at = "receive"]
        /\ UNCHANGED <<runtime, changes, phase, result, ui, barriers>>
    BY DEF BarrierReached, Reading, readerVars, IsBarrier, GoTo
  <1>3. /\ channel' \in [queue : Seq(Events), lagged : BOOLEAN] /\ Len(channel'.queue) <= Capacity
        /\ channel'.queue = Tail(q) /\ q \in Seq(Events) /\ q # <<>> /\ e \in Events
        /\ Tail(q) \in Seq(Events)
    <2>1. channel \in [queue : Seq(Events), lagged : BOOLEAN]
      BY <1>1 DEF TypeOK
    <2>2. channel'.queue = Tail(q) /\ q \in Seq(Events)
      BY <1>2, <2>1 DEF Take
    <2>. QED BY <1>1, <1>2, <2>2, DropTyped, HeadAndTail
  <1>. HIDE DEF q
  <1>4. /\ reader' \in [by : {"nobody", "flush", "listener"},
                        at : {"receive", "discard", "publish", "await"}, barrier : Nat]
        /\ reader'.by = reader.by /\ reader'.at = "receive"
    <2>1. reader \in [by : {"nobody", "flush", "listener"},
                      at : {"receive", "discard", "publish", "await"}, barrier : Nat]
      BY <1>1 DEF TypeOK
    <2>. QED BY <1>2, <2>1
  <1>. HIDE DEF e
  <1>5. /\ es \in Seq(Events) /\ Len(es) = 2 /\ es[1] = Failed /\ es[2] = e
        /\ \A k \in Keys : ~Bears(Failed, k) /\ Bears(e, k)
    BY <1>2, <1>3, MadeEvents DEF Bears, Failed, Keys
  <1>6. \A k, v : Brings(es, k, v, After(e, k, After(Failed, k, v)))
    BY ShortBrings
  <1>. HIDE DEF es
  <1>7. /\ wire' \in Seq([revision : Nat, event : Events]) /\ revision' \in Nat
        /\ revision' = revision + Len(es)
        /\ Wired' = Wired \o es
        /\ \A i \in 1..Len(wire)' : wire'[i].revision > Heard /\ wire'[i].revision < revision'
        /\ \A i, j \in 1..Len(wire)' : i < j => wire'[i].revision < wire'[j].revision
    BY <1>1, <1>2, <1>5, EmitProperties
  <1>8. TypeOK'
    BY <1>1, <1>2, <1>3, <1>4, <1>7 DEF TypeOK, NotSent
  <1>9. phase \in {"started", "answering"}
    BY <1>1, <1>2 DEF PhaseOK, TypeOK
  <1>10. PhaseOK'
    BY <1>1, <1>2, <1>4, <1>9 DEF PhaseOK, NotSent
  <1>11. RevisionsOK'
    <2>1. /\ ui.latest >= -1 /\ Heard < revision /\ Heard \in Int /\ revision \in Nat
          /\ (ui.latest = -1 => ui.tree = 0)
      BY <1>1 DEF RevisionsOK, TypeOK, Heard
    <2>2. Heard < revision' /\ Heard' = Heard /\ ui' = ui
      BY <1>2, <1>5, <1>7, <2>1 DEF Heard
    <2>. QED BY <1>7, <2>1, <2>2 DEF RevisionsOK
  <1>12. TreesInOrder'
    <2>1. \A i \in 1..Len(es) : Bears(es[i], "tree") => i = Len(es) /\ es[i] = Head(channel.queue)
      BY <1>5 DEF Keys, e
    <2>. QED BY <1>1, <1>2, <1>5, <2>1, EmitOrder
  <1>13. EventsTell'
    <2>1. ASSUME NEW k \in Keys, NEW v \in Values(k)
          PROVE  \E m \in Values(k) : Brings(Wired', k, v, m)
                                      /\ Brings(channel'.queue, k, m, runtime'[k])
      <3>1. After(e, k, v) = Value(e, k) /\ Value(e, k) \in Values(k) /\ Bears(e, k)
        BY <1>3, <1>5, EventTyped DEF After
      <3>2. Brings(es, k, v, Value(e, k))
        BY <1>5, <1>6, <3>1 DEF After
      <3>3. Mentions(es, k)
        BY <1>5, <3>1 DEF Mentions
      <3>4. Brings(Wired', k, v, Value(e, k))
        <4>1. Wired \in Seq(Events)
          BY <1>1, WiredProperties
        <4>. QED BY <1>5, <1>7, <3>2, <3>3, <4>1, MentionDecides
      <3>5. PICK u \in Values(k) : Brings(q, k, u, runtime[k])
        BY <1>1, <1>2, <1>9 DEF EventsTell, q
      <3>6. Brings(Tail(q), k, After(e, k, u), runtime[k])
        BY <1>3, <3>5, TailBrings DEF e, q
      <3>7. After(e, k, u) = Value(e, k)
        BY <3>1 DEF After
      <3>. QED BY <1>2, <1>3, <3>1, <3>4, <3>6, <3>7
    <2>. QED BY <1>4, <2>1 DEF EventsTell
  <1>. QED BY <1>8, <1>10, <1>11, <1>12, <1>13 DEF EventsInv

\* The snapshot that the start will answer with has the tree of the start.
LEMMA TakeSnapshotStep == EventsInv /\ TakeSnapshot => EventsInv'
  <1>. SUFFICES ASSUME EventsInv, TakeSnapshot PROVE EventsInv'
    OBVIOUS
  <1>1. TypeOK /\ PhaseOK /\ RevisionsOK /\ TreesInOrder /\ EventsTell
    BY DEF EventsInv
  <1>2. /\ phase = "watching" /\ phase' = "started" /\ reader' = [reader EXCEPT !.by = "flush"]
        /\ result' = [status |-> "held", snapshot |-> runtime]
        /\ UNCHANGED <<runtime, changes, channel, barriers, revision, wire, ui>>
    BY DEF TakeSnapshot
  <1>3. /\ reader' \in [by : {"nobody", "flush", "listener"},
                        at : {"receive", "discard", "publish", "await"}, barrier : Nat]
        /\ reader'.by = "flush" /\ reader'.at = reader.at /\ reader'.barrier = reader.barrier
    <2>1. reader \in [by : {"nobody", "flush", "listener"},
                      at : {"receive", "discard", "publish", "await"}, barrier : Nat]
      BY <1>1 DEF TypeOK
    <2>. QED BY <1>2, <2>1
  <1>4. /\ result' \in [status : {"held"}, snapshot : Snapshots] /\ result'.status = "held"
        /\ result'.snapshot.tree = 1
    BY <1>1, <1>2 DEF TypeOK, PhaseOK
  <1>5. TypeOK'
    BY <1>1, <1>2, <1>3, <1>4 DEF TypeOK, NotSent
  <1>6. PhaseOK'
    BY <1>1, <1>2, <1>3, <1>4 DEF PhaseOK
  <1>7. RevisionsOK' /\ Wired' = Wired /\ \A k : Shown(k)' = Shown(k)
    BY <1>2, QuietKeeps
  <1>8. TreesInOrder'
    BY <1>1, <1>2, <1>4, <1>7 DEF TreesInOrder
  <1>9. EventsTell'
    <2>1. reader.at = "receive" /\ reader'.at = "receive"
      BY <1>1, <1>2, <1>3 DEF PhaseOK
    <2>. QED BY <1>1, <1>2, <1>7, <2>1 DEF EventsTell
  <1>. QED BY <1>5, <1>6, <1>7, <1>8, <1>9 DEF EventsInv

\* The flush cannot end before an awaited barrier, which only a lag takes from the channel.
LEMMA FlushEndsStep == EventsInv /\ FlushEnds => EventsInv'
  <1>. SUFFICES ASSUME EventsInv, FlushEnds PROVE EventsInv'
    OBVIOUS
  <1>1. TypeOK /\ PhaseOK /\ RevisionsOK /\ TreesInOrder /\ EventsTell
    BY DEF EventsInv
  <1>2. /\ reader.by = "flush" /\ reader.at \in {"receive", "await"} /\ NothingHeld
        /\ reader' = [by |-> "listener", at |-> "receive", barrier |-> 0]
        /\ phase' = "answering" /\ result' = [result EXCEPT !.status = "sent"]
        /\ UNCHANGED <<runtime, changes, channel, barriers, revision, wire, ui>>
    BY DEF FlushEnds
  <1>3. phase = "started" /\ result \in [status : {"held"}, snapshot : Snapshots]
    BY <1>1, <1>2 DEF PhaseOK
  <1>4. /\ result' \in [status : {"held", "sent", "received"}, snapshot : Snapshots]
        /\ result'.status = "sent" /\ result'.snapshot = result.snapshot /\ result # NotSent
    BY <1>2, <1>3 DEF NotSent
  <1>5. TypeOK'
    BY <1>1, <1>2, <1>4 DEF TypeOK, NotSent
  <1>6. PhaseOK'
    BY <1>2, <1>4 DEF PhaseOK
  <1>7. RevisionsOK' /\ Wired' = Wired /\ \A k : Shown(k)' = Shown(k)
    BY <1>2, QuietKeeps
  <1>8. TreesInOrder'
    BY <1>1, <1>2, <1>4, <1>7 DEF TreesInOrder
  <1>9. EventsTell'
    <2>1. channel.queue = <<>> /\ ~channel.lagged
      BY <1>2 DEF NothingHeld
    <2>2. reader.at = "receive"
      <3>1. ASSUME reader.at = "await" PROVE FALSE
        <4>1. \E i \in 1..Len(channel.queue) : IsBarrier(channel.queue[i])
          BY <1>1, <1>3, <2>1, <3>1 DEF EventsTell
        <4>. QED BY <2>1, <4>1
      <3>. QED BY <1>2, <3>1
    <2>3. \A k \in Keys : \A v \in Values(k) : ui.latest = -1 \/ v = Shown(k) =>
            \E m \in Values(k) : Brings(Wired, k, v, m) /\ Brings(channel.queue, k, m, runtime[k])
      BY <1>1, <1>3, <2>1, <2>2 DEF EventsTell
    <2>4. reader'.at = "receive"
      BY <1>2
    <2>. QED BY <1>2, <1>7, <2>3, <2>4 DEF EventsTell
  <1>. QED BY <1>5, <1>6, <1>7, <1>8, <1>9 DEF EventsInv

LEMMA StopStep == EventsInv /\ StopDocumentSession => EventsInv'
  <1>. SUFFICES ASSUME EventsInv, StopDocumentSession PROVE EventsInv'
    OBVIOUS
  <1>1. TypeOK /\ PhaseOK /\ RevisionsOK /\ TreesInOrder
    BY DEF EventsInv
  <1>2. /\ phase' = "stopped" /\ reader' = [reader EXCEPT !.by = "nobody"] /\ wire' = <<>>
        /\ result' = NotSent
        /\ UNCHANGED <<runtime, changes, channel, barriers, revision, ui>>
    BY DEF StopDocumentSession
  <1>3. /\ reader' \in [by : {"nobody", "flush", "listener"},
                        at : {"receive", "discard", "publish", "await"}, barrier : Nat]
        /\ reader'.by = "nobody"
    BY <1>1, <1>2 DEF TypeOK
  <1>4. TypeOK'
    BY <1>1, <1>2, <1>3 DEF TypeOK, NotSent
  <1>5. PhaseOK' /\ EventsTell'
    BY <1>2, <1>3 DEF PhaseOK, EventsTell, NotSent
  <1>6. RevisionsOK'
    BY <1>1, <1>2 DEF RevisionsOK, Heard
  <1>7. TreesInOrder'
    <2>1. Wired' = <<>>
      BY <1>2 DEF Wired
    <2>. QED BY <1>1, <1>2, <2>1 DEF TreesInOrder, InOrder, Before, NotSent
  <1>. QED BY <1>4, <1>5, <1>6, <1>7 DEF EventsInv

\* An envelope that arrives is newer than all the window has had, and so is its tree.
LEMMA EventReceivedStep ==
  EventsInv /\ DocumentEventReceived => EventsInv' /\ ui.tree <= ui'.tree
  <1>. SUFFICES ASSUME EventsInv, DocumentEventReceived PROVE EventsInv' /\ ui.tree <= ui'.tree
    OBVIOUS
  <1>. DEFINE m == Head(wire)
              e == m.event
  <1>1. TypeOK /\ PhaseOK /\ RevisionsOK /\ TreesInOrder /\ EventsTell
    BY DEF EventsInv
  <1>2. /\ wire # <<>> /\ wire' = Tail(wire)
        /\ UNCHANGED <<runtime, changes, phase, channel, barriers, reader, revision, result>>
    BY DEF DocumentEventReceived
  <1>3. /\ wire \in Seq([revision : Nat, event : Events])
        /\ Len(wire) \in Nat /\ Len(wire) > 0 /\ m = wire[1]
        /\ wire' \in Seq([revision : Nat, event : Events]) /\ Len(wire') = Len(wire) - 1
        /\ \A i \in 1..Len(wire') : i + 1 \in 1..Len(wire) /\ wire'[i] = wire[i + 1]
    <2>1. wire \in Seq([revision : Nat, event : Events])
      BY <1>1 DEF TypeOK
    <2>2. Len(wire) \in Nat /\ Len(wire) > 0 /\ m = wire[1]
      BY <1>2, <2>1, LenProperties, EmptySeq
    <2>3. /\ Tail(wire) \in Seq([revision : Nat, event : Events]) /\ Len(Tail(wire)) = Len(wire) - 1
          /\ \A i \in 1..Len(Tail(wire)) : Tail(wire)[i] = wire[i + 1]
      BY <1>2, <2>1, HeadTailProperties
    <2>. QED BY <1>2, <2>1, <2>2, <2>3
  <1>4. m \in [revision : Nat, event : Events] /\ m.revision > Heard /\ m.revision < revision
        /\ m.revision \in Nat /\ e \in Events
    <2>1. m \in [revision : Nat, event : Events]
      <3>1. wire \in Seq([revision : Nat, event : Events]) /\ 1 \in 1..Len(wire)
        BY <1>3
      <3>2. wire[1] \in [revision : Nat, event : Events]
        BY <3>1, ElementOfSeq
      <3>. QED BY <1>3, <3>2
    <2>2. m.revision > Heard /\ m.revision < revision
      BY <1>1, <1>3 DEF RevisionsOK
    <2>. QED BY <2>1, <2>2
  <1>5. /\ Wired \in Seq(Events) /\ Wired # <<>> /\ Head(Wired) = e /\ Wired' = Tail(Wired)
    <2>1. /\ Wired \in Seq(Events) /\ Len(Wired) = Len(wire)
          /\ \A i \in 1..Len(wire) : Wired[i] = wire[i].event
      BY <1>1, WiredProperties
    <2>2. Wired # <<>>
      BY <1>3, <2>1
    <2>3. /\ Head(Wired) = Wired[1] /\ Tail(Wired) \in Seq(Events) /\ Len(Tail(Wired)) = Len(Wired) - 1
          /\ \A i \in 1..Len(Tail(Wired)) : Tail(Wired)[i] = Wired[i + 1]
      BY <2>1, <2>2, HeadAndTail
    <2>4. \A i \in 1..Len(wire') : wire'[i].event = Tail(Wired)[i]
      BY <1>3, <2>1, <2>3
    <2>5. Wired' = [i \in 1..Len(wire') |-> Tail(Wired)[i]]
      BY <2>4 DEF Wired
    <2>6. Len(wire') = Len(Tail(Wired))
      BY <1>3, <2>1, <2>3
    <2>7. Wired' = Tail(Wired)
      BY <2>3, <2>5, <2>6, LenProperties
    <2>. QED BY <1>3, <2>1, <2>2, <2>3, <2>7
  <1>6. ui' = [AfterEvent(e) EXCEPT !.latest = m.revision]
    <2>1. ~(m.revision <= ui.latest)
      BY <1>1, <1>4 DEF Heard, TypeOK, RevisionsOK
    <2>. QED BY <2>1 DEF DocumentEventReceived
  <1>. HIDE DEF m, e
  <1>7. /\ ui' \in [status : {"starting", "ready"}, latest : Int, tree : Nat, index : Statuses]
        /\ ui'.latest = m.revision
        /\ ui'.tree = After(e, "tree", ui.tree) /\ ui'.index = After(e, "status", ui.index)
    <2>1. ui \in [status : {"starting", "ready"}, latest : Int, tree : Nat, index : Statuses]
          /\ m.revision \in Int
      BY <1>1, <1>4 DEF TypeOK
    <2>2. CASE e.type = "tree"
      <3>1. ui' = [ui EXCEPT !.tree = e.tree, !.latest = m.revision] /\ e.tree \in Nat
        BY <1>4, <1>6, <2>1, <2>2 DEF AfterEvent, Events, Failed
      <3>. QED BY <2>1, <2>2, <3>1 DEF After, Bears, Value
    <2>3. CASE e.type = "status"
      <3>1. ui' = [ui EXCEPT !.index = e.status, !.latest = m.revision] /\ e.status \in Statuses
        BY <1>4, <1>6, <2>1, <2>3 DEF AfterEvent, Events, Failed
      <3>. QED BY <2>1, <2>3, <3>1 DEF After, Bears, Value
    <2>4. CASE e.type = "failed"
      <3>1. ui' = [ui EXCEPT !.latest = m.revision]
        BY <1>6, <2>1, <2>4 DEF AfterEvent
      <3>. QED BY <2>1, <2>4, <3>1 DEF After, Bears, Value
    <2>5. CASE e.type = "resynced"
      <3>1. e.snapshot \in Snapshots
        BY <1>4, <2>5 DEF Events, Failed
      <3>2. ui' = [[ui EXCEPT !.tree = e.snapshot.tree, !.index = e.snapshot.status]
                      EXCEPT !.latest = m.revision]
        BY <1>6, <2>5 DEF AfterEvent, Adopted
      <3>. QED BY <2>1, <2>5, <3>1, <3>2 DEF After, Bears, Value, Snapshots
    <2>. QED BY <1>4, <2>2, <2>3, <2>4, <2>5 DEF Events, Failed
  <1>8. TypeOK'
    BY <1>1, <1>2, <1>3, <1>7 DEF TypeOK, NotSent
  <1>9. phase \notin {"prepared", "stopped"}
    BY <1>1, <1>2 DEF PhaseOK
  <1>10. PhaseOK'
    BY <1>1, <1>2, <1>9 DEF PhaseOK, NotSent
  <1>11. Heard \in Nat /\ m.revision > 0 /\ Heard' = m.revision
    BY <1>1, <1>4, <1>7 DEF Heard, TypeOK, RevisionsOK
  <1>12. RevisionsOK'
    <2>1. revision' = revision /\ revision \in Nat /\ ui'.latest \in Int
      BY <1>1, <1>2, <1>4, <1>7 DEF TypeOK
    <2>2. ASSUME NEW i \in 1..Len(wire')
          PROVE  wire'[i].revision > m.revision /\ wire'[i].revision < revision
      <3>1. i + 1 \in 1..Len(wire) /\ 1 \in 1..Len(wire) /\ 1 < i + 1 /\ wire'[i] = wire[i + 1]
            /\ wire[i + 1].revision \in Nat
        <4>1. i + 1 \in 1..Len(wire) /\ 1 \in 1..Len(wire) /\ 1 < i + 1 /\ wire'[i] = wire[i + 1]
          BY SMTT(30), <1>3
        <4>2. wire[i + 1] \in [revision : Nat, event : Events]
          BY <1>3, <4>1, ElementOfSeq
        <4>. QED BY <4>1, <4>2
      <3>2. wire[1].revision < wire[i + 1].revision /\ wire[i + 1].revision < revision
        BY <1>1, <3>1 DEF RevisionsOK
      <3>. QED BY <1>3, <1>4, <3>1, <3>2 DEF m
    <2>3. \A i, j \in 1..Len(wire') : i < j => wire'[i].revision < wire'[j].revision
      <3>1. ASSUME NEW i \in 1..Len(wire'), NEW j \in 1..Len(wire'), i < j
            PROVE  wire'[i].revision < wire'[j].revision
        <4>1. i + 1 \in 1..Len(wire) /\ j + 1 \in 1..Len(wire) /\ i + 1 < j + 1
              /\ wire'[i] = wire[i + 1] /\ wire'[j] = wire[j + 1]
          BY <1>3, <3>1
        <4>. QED BY <1>1, <4>1 DEF RevisionsOK
      <3>. QED BY <3>1
    <2>4. ui'.latest >= -1 /\ Heard' < revision' /\ ui'.latest # -1
      BY <1>4, <1>7, <1>11, <2>1
    <2>. QED BY <1>11, <2>1, <2>2, <2>3, <2>4 DEF RevisionsOK
  <1>13. TreesInOrder' /\ ui.tree <= ui'.tree
    <2>. DEFINE W == Wired
                t == ui'.tree
    <2>1. /\ W \in Seq(Events) /\ W # <<>> /\ W[1] = e /\ Tail(W) \in Seq(Events)
          /\ Len(W) \in Nat /\ Len(W) > 0
          /\ \A i \in 1..Len(Tail(W)) : i + 1 \in 1..Len(W) /\ Tail(W)[i] = W[i + 1]
          /\ \A lo, hi : InOrder(W, lo, hi) => InOrder(Tail(W), lo, hi)
          /\ \A u : Before(W, u) => Before(Tail(W), u)
      BY <1>5, HeadAndTail
    <2>. HIDE DEF W, t
    <2>2. /\ ui.tree <= runtime.tree /\ runtime.tree >= 1 /\ Before(W, channel.queue)
          /\ InOrder(W, ui.tree, runtime.tree) /\ InOrder(W, 1, runtime.tree)
          /\ InOrder(channel.queue, ui.tree, runtime.tree) /\ InOrder(channel.queue, 1, runtime.tree)
          /\ result # NotSent => result.snapshot.tree = 1
      BY <1>1 DEF TreesInOrder, W
    <2>3. ui.tree \in Nat /\ runtime.tree \in Nat
      BY <1>1 DEF TypeOK, Snapshots
    <2>4. ui.tree <= t /\ t <= runtime.tree /\ InOrder(Tail(W), t, runtime.tree)
          /\ InOrder(channel.queue, t, runtime.tree)
      <3>1. CASE ~Bears(e, "tree")
        <4>1. t = ui.tree
          BY <1>7, <3>1 DEF After, t
        <4>. QED BY <2>1, <2>2, <2>3, <4>1
      <3>2. CASE Bears(e, "tree")
        <4>1. t = Value(e, "tree")
          BY <1>7, <3>2 DEF After, t
        <4>2. t \in ui.tree..runtime.tree /\ 1 \in 1..Len(W)
          BY <2>1, <2>2, <3>2, <4>1 DEF InOrder
        <4>3. ASSUME NEW x, Bears(x, "tree"), Value(x, "tree") \in ui.tree..runtime.tree,
                     Value(e, "tree") <= Value(x, "tree")
              PROVE  Value(x, "tree") \in t..runtime.tree
          BY <2>3, <4>1, <4>2, <4>3
        <4>4. InOrder(Tail(W), t, runtime.tree)
          <5>1. ASSUME NEW i \in 1..Len(Tail(W)), Bears(Tail(W)[i], "tree")
                PROVE  Value(Tail(W)[i], "tree") \in t..runtime.tree
            <6>1. i + 1 \in 1..Len(W) /\ Tail(W)[i] = W[i + 1] /\ 1 < i + 1
              BY <2>1
            <6>2. Value(W[1], "tree") <= Value(W[i + 1], "tree")
                  /\ Value(W[i + 1], "tree") \in ui.tree..runtime.tree
              BY <2>1, <2>2, <3>2, <4>2, <5>1, <6>1 DEF InOrder
            <6>. QED BY <2>1, <4>3, <5>1, <6>1, <6>2
          <5>2. InOrder(Tail(W), ui.tree, runtime.tree)
            BY <2>1, <2>2
          <5>. QED BY <5>1, <5>2 DEF InOrder
        <4>5. InOrder(channel.queue, t, runtime.tree)
          <5>1. ASSUME NEW i \in 1..Len(channel.queue), Bears(channel.queue[i], "tree")
                PROVE  Value(channel.queue[i], "tree") \in t..runtime.tree
            <6>1. Value(W[1], "tree") <= Value(channel.queue[i], "tree")
                  /\ Value(channel.queue[i], "tree") \in ui.tree..runtime.tree
              BY <2>1, <2>2, <3>2, <4>2, <5>1 DEF InOrder, Before
            <6>. QED BY <2>1, <4>3, <5>1, <6>1
          <5>. QED BY <2>2, <5>1 DEF InOrder
        <4>. QED BY <2>3, <4>2, <4>4, <4>5
      <3>. QED BY <3>1, <3>2
    <2>5. InOrder(Tail(W), 1, runtime.tree) /\ Before(Tail(W), channel.queue)
      BY <2>1, <2>2
    <2>6. /\ Wired' = Tail(W) /\ runtime' = runtime /\ channel' = channel /\ result' = result
          /\ ui'.tree = t
      BY <1>2, <1>5 DEF W, t
    <2>. QED BY <2>2, <2>4, <2>5, <2>6 DEF TreesInOrder, NotSent
  <1>14. EventsTell'
    <2>1. ASSUME ~channel.lagged, reader.at = "receive", NEW k \in Keys
          PROVE  \E x \in Values(k) : Brings(Wired', k, Shown(k)', x)
                                      /\ Brings(channel.queue, k, x, runtime[k])
      <3>1. Shown(k) \in Values(k) /\ Shown(k)' = After(e, k, Shown(k))
        BY <1>1, <1>7 DEF Shown, Keys, Values, TypeOK
      <3>2. PICK x \in Values(k) : /\ Brings(Wired, k, Shown(k), x)
                                   /\ Brings(channel.queue, k, x, runtime[k])
        BY <1>1, <1>9, <2>1, <3>1 DEF EventsTell
      <3>3. Brings(Tail(Wired), k, After(e, k, Shown(k)), x)
        BY <1>5, <3>2, TailBrings
      <3>. QED BY <1>5, <3>1, <3>2, <3>3
    <2>2. ui'.latest # -1
      BY <1>7, <1>11
    <2>3. ASSUME ~channel.lagged, reader.at = "await"
          PROVE  /\ \E i \in 1..Len(channel.queue) : IsBarrier(channel.queue[i])
                 /\ \A k \in Keys : \E v \in Values(k) : Brings(channel.queue, k, v, runtime[k])
      BY <1>1, <1>9, <2>3 DEF EventsTell
    <2>4. runtime' = runtime /\ channel' = channel /\ reader' = reader
      BY <1>2
    <2>. QED BY <2>1, <2>2, <2>3, <2>4 DEF EventsTell, IsBarrier
  <1>. QED BY <1>8, <1>10, <1>12, <1>13, <1>14 DEF EventsInv

\* The result of the start counts only before the first envelope.
LEMMA SessionStartedStep ==
  EventsInv /\ SessionStarted => EventsInv' /\ ui.tree <= ui'.tree
  <1>. SUFFICES ASSUME EventsInv, SessionStarted PROVE EventsInv' /\ ui.tree <= ui'.tree
    OBVIOUS
  <1>1. TypeOK /\ PhaseOK /\ RevisionsOK /\ TreesInOrder /\ EventsTell
    BY DEF EventsInv
  <1>2. /\ result.status = "sent" /\ result' = [result EXCEPT !.status = "received"]
        /\ UNCHANGED <<runtime, changes, phase, channel, barriers, reader, revision, wire>>
        /\ ui' = IF 0 <= ui.latest THEN [ui EXCEPT !.status = "ready"]
                 ELSE [Adopted(result.snapshot) EXCEPT !.latest = 0, !.status = "ready"]
    BY DEF SessionStarted
  <1>3. /\ result \in [status : {"held", "sent", "received"}, snapshot : Snapshots]
        /\ result.snapshot \in Snapshots /\ result.snapshot.tree = 1 /\ result # NotSent
    BY <1>1, <1>2 DEF TypeOK, TreesInOrder, NotSent
  <1>4. /\ result' \in [status : {"held", "sent", "received"}, snapshot : Snapshots]
        /\ result'.status = "received" /\ result'.snapshot = result.snapshot
    BY <1>2, <1>3
  <1>5. phase = "answering"
    BY <1>1, <1>2 DEF PhaseOK
  <1>6. ui \in [status : {"starting", "ready"}, latest : Int, tree : Nat, index : Statuses]
    BY <1>1 DEF TypeOK
  <1>7. /\ ui' \in [status : {"starting", "ready"}, latest : Int, tree : Nat, index : Statuses]
        /\ \/ /\ 0 <= ui.latest /\ ui'.latest = ui.latest
              /\ ui'.tree = ui.tree /\ ui'.index = ui.index
           \/ ui.latest = -1 /\ ui'.latest = 0 /\ ui'.tree = 1
    <2>1. CASE 0 <= ui.latest
      <3>1. ui' = [ui EXCEPT !.status = "ready"]
        BY <1>2, <2>1
      <3>. QED BY <1>6, <2>1, <3>1
    <2>2. CASE ~(0 <= ui.latest)
      <3>1. ui.latest = -1
        BY <1>1, <1>6, <2>2 DEF RevisionsOK
      <3>2. ui' = [[ui EXCEPT !.tree = result.snapshot.tree, !.index = result.snapshot.status]
                      EXCEPT !.latest = 0, !.status = "ready"]
        BY <1>2, <2>2 DEF Adopted
      <3>3. result.snapshot.tree \in Nat /\ result.snapshot.status \in Statuses
        BY <1>3 DEF Snapshots
      <3>. DEFINE adopted == [ui EXCEPT !.tree = result.snapshot.tree,
                                       !.index = result.snapshot.status]
      <3>4. adopted \in [status : {"starting", "ready"}, latest : Int, tree : Nat, index : Statuses]
            /\ adopted.tree = 1
        BY <1>3, <1>6, <3>3
      <3>5. ui' = [adopted EXCEPT !.latest = 0, !.status = "ready"]
        BY <3>2
      <3>. HIDE DEF adopted
      <3>6. ui' = [status |-> "ready", latest |-> 0, tree |-> adopted.tree, index |-> adopted.index]
            /\ adopted.index \in Statuses
        BY <3>4, <3>5
      <3>7. ui'.tree = 1 /\ ui'.latest = 0
            /\ ui' \in [status : {"starting", "ready"}, latest : Int, tree : Nat, index : Statuses]
        BY <3>4, <3>6
      <3>. QED BY <3>1, <3>7
    <2>. QED BY <2>1, <2>2
  <1>8. TypeOK'
    BY <1>1, <1>2, <1>4, <1>7 DEF TypeOK
  <1>9. PhaseOK'
    BY <1>1, <1>2, <1>4, <1>5 DEF PhaseOK
  <1>10. Wired' = Wired
    BY <1>2 DEF Wired
  <1>11. RevisionsOK'
    <2>1. Heard' = Heard /\ ui'.latest >= -1 /\ (ui'.latest = -1 => ui'.tree = 0)
      BY <1>6, <1>7 DEF Heard
    <2>2. revision' = revision /\ wire' = wire
      BY <1>2
    <2>. QED BY <1>1, <2>1, <2>2 DEF RevisionsOK
  <1>12. TreesInOrder'
    <2>1. /\ ui'.tree <= runtime.tree /\ InOrder(Wired, ui'.tree, runtime.tree)
          /\ InOrder(channel.queue, ui'.tree, runtime.tree)
      <3>1. CASE ui'.tree = ui.tree
        BY <1>1, <3>1 DEF TreesInOrder
      <3>2. CASE ui'.tree = 1
        BY <1>1, <3>2 DEF TreesInOrder, TypeOK, Snapshots
      <3>. QED BY <1>7, <3>1, <3>2
    <2>2. /\ runtime.tree >= 1 /\ Before(Wired, channel.queue)
          /\ InOrder(Wired, 1, runtime.tree) /\ InOrder(channel.queue, 1, runtime.tree)
      BY <1>1 DEF TreesInOrder
    <2>3. result'.snapshot.tree = 1 /\ runtime' = runtime /\ channel' = channel
      BY <1>2, <1>3, <1>4
    <2>. QED BY <1>10, <2>1, <2>2, <2>3 DEF TreesInOrder
  <1>13. EventsTell'
    <2>1. ASSUME ~channel.lagged, reader.at = "receive", NEW k \in Keys, NEW v \in Values(k),
                 v = Shown(k)'
          PROVE  \E x \in Values(k) : /\ Brings(Wired, k, v, x)
                                      /\ Brings(channel.queue, k, x, runtime[k])
      <3>1. ui.latest = -1 \/ v = Shown(k)
        BY <1>7, <2>1 DEF Shown
      <3>. QED BY <1>1, <1>5, <2>1, <3>1 DEF EventsTell
    <2>2. ui'.latest # -1
      BY <1>6, <1>7
    <2>3. ASSUME ~channel.lagged, reader.at = "await"
          PROVE  /\ \E i \in 1..Len(channel.queue) : IsBarrier(channel.queue[i])
                 /\ \A k \in Keys : \E v \in Values(k) : Brings(channel.queue, k, v, runtime[k])
      BY <1>1, <1>5, <2>3 DEF EventsTell
    <2>4. runtime' = runtime /\ channel' = channel /\ reader' = reader
      BY <1>2
    <2>. QED BY <1>10, <2>1, <2>2, <2>3, <2>4 DEF EventsTell, IsBarrier
  <1>14. ui.tree <= ui'.tree
    <2>1. ui.latest = -1 => ui.tree = 0
      BY <1>1 DEF RevisionsOK
    <2>. QED BY <1>6, <1>7, <2>1
  <1>. QED BY <1>8, <1>9, <1>11, <1>12, <1>13, <1>14 DEF EventsInv

-----------------------------------------------------------------------------
(***************************************************************************)
(* The theorems.                                                           *)
(***************************************************************************)

LEMMA StepInv == EventsInv /\ [Next]_vars => EventsInv'
  <1>. SUFFICES ASSUME EventsInv, [Next]_vars PROVE EventsInv'
    OBVIOUS
  <1>1. CASE StartSteps
    BY <1>1, PublishStartStep, TakeSnapshotStep DEF StartSteps
  <1>2. CASE RuntimeSteps
    BY <1>2, RuntimeStepsKept
  <1>3. CASE ReaderSteps
    BY <1>3, ReceiveEventStep, LagSteps, PublishBarrierStep, SkipStep, BarrierStep, FlushEndsStep
       DEF ReaderSteps
  <1>4. CASE StopDocumentSession
    BY <1>4, StopStep
  <1>5. CASE DocumentEventReceived
    BY <1>5, EventReceivedStep
  <1>6. CASE SessionStarted
    BY <1>6, SessionStartedStep
  <1>7. CASE UNCHANGED vars
    <2>1. UNCHANGED <<runtime, changes, phase, channel, barriers, reader, revision, wire, result, ui>>
      BY <1>7 DEF vars
    <2>2. RevisionsOK' /\ Wired' = Wired /\ \A k : Shown(k)' = Shown(k)
      BY <2>1, QuietKeeps
    <2>3. TypeOK' /\ PhaseOK'
      BY <2>1 DEF EventsInv, TypeOK, PhaseOK, NothingHeld, NotSent
    <2>4. EventsTell' /\ TreesInOrder'
      BY <2>1, <2>2 DEF EventsInv, EventsTell, TreesInOrder, IsBarrier, NotSent
    <2>. QED BY <2>2, <2>3, <2>4 DEF EventsInv
  <1>. QED BY <1>1, <1>2, <1>3, <1>4, <1>5, <1>6, <1>7 DEF Next

\* What holds of every reachable state of the stream.
THEOREM StreamHolds == Spec => []EventsInv
  BY InitInv, StepInv, PTL DEF Spec

\* Every variable keeps its type, and the channel never retains more than its capacity.
THEOREM EventsTyped == Spec => []TypeOK
  <1>1. EventsInv => TypeOK
    BY DEF EventsInv
  <1>. QED BY <1>1, StreamHolds, PTL

\* When all is read and received, the window shows the tree and the index status of the
\* runtime: whatever was overwritten in the channel, dropped behind a barrier, or
\* overtaken by the result of the start (recover_lagged_document_events, documentsReducer).
THEOREM WindowAgrees == Spec => []WindowAgreesWithRuntime
  <1>1. EventsInv => WindowAgreesWithRuntime
    <2>. SUFFICES ASSUME EventsInv, CaughtUp
                  PROVE  ui.tree = runtime.tree /\ ui.index = runtime.status
      BY DEF WindowAgreesWithRuntime
    <2>1. TypeOK /\ PhaseOK /\ EventsTell
      BY DEF EventsInv
    <2>2. /\ phase = "answering" /\ reader.at = "receive" /\ ~channel.lagged
          /\ channel.queue = <<>> /\ Wired = <<>>
      BY <2>1 DEF CaughtUp, PhaseOK, NothingHeld, Wired
    <2>3. ASSUME NEW k \in Keys PROVE Shown(k) = runtime[k]
      <3>1. Shown(k) \in Values(k)
        BY <2>1 DEF TypeOK, Shown, Keys, Values
      <3>2. PICK m \in Values(k) : Brings(<<>>, k, Shown(k), m) /\ Brings(<<>>, k, m, runtime[k])
        BY <2>1, <2>2, <3>1 DEF EventsTell
      <3>. QED BY <3>2 DEF Brings
    <2>. QED BY <2>3 DEF Keys, Shown
  <1>. QED BY <1>1, StreamHolds, PTL

\* The order of EventFeed: every step of the stream adopts a tree, shows a later one of
\* those adopted, closes the feed, or does nothing to it.  So the window never goes back
\* to an earlier tree, neither for a late start result nor for an event from before a
\* resync.
THEOREM FeedInOrder == Spec => Feed!FeedInit /\ [][Feed!FeedNext]_(Feed!feedVars)
  <1>1. Init => Feed!FeedInit
    BY DEF Init, Feed!FeedInit
  <1>2. EventsInv /\ EventsInv' /\ [Next]_vars => [Feed!FeedNext]_(Feed!feedVars)
    <2>. SUFFICES ASSUME EventsInv, EventsInv', [Next]_vars, ~UNCHANGED Feed!feedVars
                  PROVE  Feed!FeedNext
      OBVIOUS
    <2>1. /\ ui.tree \in Nat /\ ui'.tree \in Nat /\ runtime.tree \in Nat /\ ui'.tree <= runtime'.tree
          /\ runtime \in Snapshots
      BY DEF EventsInv, TypeOK, TreesInOrder, Snapshots
    <2>2. ~UNCHANGED <<runtime.tree, ui.tree, phase>>
      BY DEF Feed!feedVars
    <2>3. CASE UNCHANGED vars
      BY <2>2, <2>3 DEF vars
    <2>4. CASE StartSteps
      <3>1. runtime' = runtime /\ ui' = ui /\ phase \in {"prepared", "watching"}
            /\ phase' \in {"watching", "started"}
        BY <2>4 DEF StartSteps, PublishStart, TakeSnapshot, Publish, uiVars
      <3>. QED BY <3>1 DEF Feed!feedVars
    <2>5. CASE RuntimeSteps
      <3>1. phase' = phase /\ ui' = ui /\ phase # "stopped"
        BY <2>5 DEF RuntimeSteps, Reconcile, ReconcileFails, MarkWatcherDegraded, Reconciling, uiVars
      <3>2. runtime'.tree \in {runtime.tree, runtime.tree + 1}
        <4>1. CASE Reconcile
          BY <4>1 DEF Reconcile, Publish
        <4>2. CASE ReconcileFails
          BY <4>2 DEF ReconcileFails, Publish
        <4>3. CASE MarkWatcherDegraded
          BY <2>1, <4>3 DEF MarkWatcherDegraded, Degrade, Publish, Snapshots
        <4>. QED BY <2>5, <4>1, <4>2, <4>3 DEF RuntimeSteps
      <3>. QED BY <3>1, <3>2 DEF Feed!feedVars, Feed!FeedNext, Feed!Adopt
    <2>6. CASE ReaderSteps
      <3>1. runtime' = runtime /\ ui' = ui /\ (phase # "stopped") = (phase' # "stopped")
        <4>1. CASE FlushEnds
          <5>1. phase = "started"
            BY <4>1 DEF FlushEnds, EventsInv, PhaseOK
          <5>. QED BY <4>1, <5>1 DEF FlushEnds
        <4>2. CASE PublishResyncBarrier
          BY <4>2 DEF PublishResyncBarrier, Publish, uiVars
        <4>3. CASE ~FlushEnds /\ ~PublishResyncBarrier
          BY <2>6, <4>3 DEF ReaderSteps, ReceiveEvent, FindLag, DiscardRetained, RetainedDiscarded,
                            SkipToBarrier, BarrierReached, LagBeforeBarrier, readerVars
        <4>. QED BY <4>1, <4>2, <4>3
      <3>. QED BY <3>1 DEF Feed!feedVars
    <2>7. CASE StopDocumentSession
      <3>1. runtime' = runtime /\ ui' = ui /\ phase # "stopped" /\ phase' = "stopped"
        BY <2>7 DEF StopDocumentSession, EventsInv, PhaseOK
      <3>. QED BY <3>1 DEF Feed!FeedNext, Feed!Close
    <2>8. CASE DocumentEventReceived \/ SessionStarted
      <3>1. runtime' = runtime /\ phase' = phase
        BY <2>8 DEF DocumentEventReceived, SessionStarted
      <3>2. phase # "stopped"
        <4>1. wire # <<>> \/ result.status = "sent"
          BY <2>8 DEF DocumentEventReceived, SessionStarted
        <4>. QED BY <4>1 DEF EventsInv, PhaseOK
      <3>3. ui.tree <= ui'.tree
        BY <2>8, EventReceivedStep, SessionStartedStep
      <3>4. ui'.tree \in ui.tree + 1..runtime.tree
        BY <2>1, <2>2, <3>1, <3>3
      <3>. QED BY <3>1, <3>2, <3>4 DEF Feed!FeedNext, Feed!Show
    <2>. QED BY <2>3, <2>4, <2>5, <2>6, <2>7, <2>8 DEF Next
  <1>. QED BY <1>1, <1>2, StreamHolds, PTL DEF Spec

====
