----------------------------- MODULE AudioProofs ------------------------------
(***************************************************************************)
(* Proofs about AudioSession for any tracks, requests and their parts, any *)
(* limits and any number of failures and of things people ask for: the     *)
(* types, where every item is, why a track vanishes, what a clear has      *)
(* emptied, and in which order utterances are heard.                       *)
(***************************************************************************)
EXTENDS AudioSession, FiniteSetTheorems, TLAPS

-------------------------------------------------------------------------------
(* What the worker and the overlay task have in their hands                *)

Steps == {"none", "new", "want", "mixing", "metric", "next", "restore", "restoring", "restored",
          "broken", "fallback", "final", "dead"}
Carrying == {"new", "want", "mixing", "metric", "broken", "fallback"}
Resting == {"look", "sleep", "hold"}
Playing == {"begin", "prepare", "ready", "starting", "play", "cancelling"}

\* What the overlay task may put back; what it reports as heard is done with.
InOverlay == IF overlay.step = "metric" THEN Nil ELSE overlay.speech

\* Who works on what: the worker holds an item from Take to the end of the round.
Works == [pc : Resting \union Playing \union {"put"}, tries : Nat, eof : BOOLEAN,
          resolved : BOOLEAN, quiet : BOOLEAN, over : BOOLEAN,
          outcome : {Nil, "completed", "failed", "refused", "cut", "held", "front", "back"},
          target : Items \union {Nil}]
Overlaid == [step : Steps, speech : Speech \union {Nil}, same : BOOLEAN, cut : BOOLEAN]
Calls == [step : {"idle", "asked", "waiting"},
          kind : {Nil, "skip", "seek", "clear", "leave", "suspend"}, waits : BOOLEAN]

Hands ==
    /\ work \in Works /\ overlay \in Overlaid /\ op \in Calls
    /\ work.pc \in Resting <=> work.target = Nil
    /\ current = IF work.pc \in Playing THEN work.target ELSE Nil
    /\ work.pc = "cancelling" => work.outcome \in {"completed", "failed", "refused", "cut"}
    /\ work.pc = "put" => work.outcome \in {"held", "front", "back"}
    /\ overlay.step \in Carrying <=> overlay.speech # Nil
    /\ voice = "playing" => work.pc \in {"starting", "play"}

\* Each item is in one place at most, and in one if it was accepted and nothing
\* became of it; an utterance that is lost may be anywhere.
Sound(mq, sq, target, carried, f) ==
    /\ mq \in Seq(Music) /\ sq \in Seq(Speech)
    /\ target \in Items \union {Nil} /\ carried \in Speech \union {Nil}
    /\ f \in [Items -> Fates]
    /\ IsInjective(mq) /\ IsInjective(sq)
    /\ target \notin Range(mq) \union Range(sq) /\ carried \notin Range(sq)
    /\ target # Nil => target # carried
    /\ \A i \in Items : f[i] \notin {"in", "lost"} =>
            i \notin Range(mq) \union Range(sq) \union {target, carried}
    /\ \A i \in Items : f[i] = "in" => i \in Range(mq) \union Range(sq) \union {target, carried}
    /\ \A m \in Music : f[m] # "lost"

Placement == Sound(music, speech, work.target, InOverlay, fate)

\* The parts of a request are committed in order, and a reservation is for parts
\* to come.
Committed(r, n, f) == \A k \in 1 .. Len(Parts[r]) : f[Parts[r][k]] = "new" <=> k > n

Reservations ==
    /\ line \in Seq(Requests) /\ IsInjective(line)
    /\ \A r \in Requests : \E n \in 0 .. Len(Parts[r]) :
          Committed(r, n, fate) /\ (r \in Range(line) => n < Len(Parts[r]))

\* Whoever stops the current item has said why.
Why ==
    /\ flags \subseteq Flags
    /\ work.pc \in Playing =>
          /\ work.quiet => flags # {}
          /\ "skip" \in flags => work.target \in skipped

\* A track that was not refused for good vanishes unheard after a skip or the last
\* of its failures.
Drops ==
    /\ fails \in [Music -> Nat]
    /\ \A m \in Music : fate[m] = "dropped" /\ fails[m] + 1 < MaxFailures => m \in skipped

\* A cleared item in the worker's hand is about to end: nothing has the worker
\* keep it, and the clear waits for that.
Ending ==
    /\ work.pc \in {"starting", "play", "cancelling"} /\ work.over /\ work.quiet
    /\ work.pc = "cancelling" => work.outcome = "completed"
    /\ "discard" \in flags /\ flags \subseteq {"skip", "discard"}
    /\ op.step = "waiting" /\ op.waits /\ op.kind \in {"clear", "leave"}

Wiped ==
    /\ wiped \subseteq Items
    /\ \A i \in wiped :
          /\ fate[i] # "new" /\ i \notin Range(music) \union Range(speech) /\ i # overlay.speech
          /\ work.target = i => Ending
    /\ overlay.step = "metric" => fate[overlay.speech] = "heard"

AudioInv == AudioTypeOK /\ Hands /\ Placement /\ Reservations /\ Why /\ Drops /\ Wiped

-------------------------------------------------------------------------------
(* Sequences that list each of their elements once                         *)

LEMMA AppendFacts ==
  ASSUME NEW S, NEW s \in Seq(S), NEW x \in S
  PROVE  /\ Append(s, x) \in Seq(S)
         /\ Range(Append(s, x)) = Range(s) \union {x}
         /\ IsInjective(s) /\ x \notin Range(s) => IsInjective(Append(s, x))
<1> DEFINE t == Append(s, x)
<1>1. /\ t \in Seq(S) /\ DOMAIN t = 1 .. Len(s) + 1 /\ DOMAIN s = 1 .. Len(s) /\ Len(s) \in Nat
      /\ \A k \in 1 .. Len(s) : t[k] = s[k]
      /\ t[Len(s) + 1] = x
  OBVIOUS
<1> HIDE DEF t
<1>2. Range(t) = Range(s) \union {x}
  <2>1. ASSUME NEW k \in DOMAIN t PROVE t[k] \in Range(s) \union {x}
    BY <1>1 DEF Range
  <2>2. ASSUME NEW k \in DOMAIN s PROVE s[k] \in Range(t)
    BY <1>1 DEF Range
  <2>3. x \in Range(t)
    BY <1>1 DEF Range
  <2> QED BY <2>1, <2>2, <2>3 DEF Range
<1>3. ASSUME IsInjective(s), x \notin Range(s) PROVE IsInjective(t)
  BY <1>1, <1>3 DEF IsInjective, Range
<1> QED BY <1>1, <1>2, <1>3 DEF t

LEMMA FrontFacts ==
  ASSUME NEW S, NEW s \in Seq(S), NEW x \in S
  PROVE  /\ InFront(x, s) \in Seq(S)
         /\ Range(InFront(x, s)) = Range(s) \union {x}
         /\ IsInjective(s) /\ x \notin Range(s) => IsInjective(InFront(x, s))
<1> DEFINE t == <<x>> \o s
<1>1. /\ t \in Seq(S) /\ DOMAIN t = 1 .. Len(s) + 1 /\ DOMAIN s = 1 .. Len(s) /\ Len(s) \in Nat
      /\ \A k \in 1 .. Len(s) : t[k + 1] = s[k]
      /\ \A k \in 2 .. Len(s) + 1 : t[k] = s[k - 1]
      /\ t[1] = x
  OBVIOUS
<1>a. InFront(x, s) = t
  BY DEF InFront
<1> HIDE DEF t
<1>2. Range(t) = Range(s) \union {x}
  <2>1. ASSUME NEW k \in DOMAIN t PROVE t[k] \in Range(s) \union {x}
    <3>1. k = 1 \/ (k - 1 \in DOMAIN s /\ t[k] = s[k - 1])
      BY <1>1
    <3> QED BY <1>1, <3>1 DEF Range
  <2>2. ASSUME NEW k \in DOMAIN s PROVE s[k] \in Range(t)
    <3>1. k + 1 \in DOMAIN t /\ t[k + 1] = s[k]
      BY <1>1
    <3> QED BY <3>1 DEF Range
  <2>3. x \in Range(t)
    BY <1>1 DEF Range
  <2> QED BY <2>1, <2>2, <2>3 DEF Range
<1>3. ASSUME IsInjective(s), x \notin Range(s) PROVE IsInjective(t)
  <2>1. ASSUME NEW a \in DOMAIN t, NEW b \in DOMAIN t, t[a] = t[b] PROVE a = b
    <3>1. a = 1 \/ (a - 1 \in DOMAIN s /\ t[a] = s[a - 1])
      BY <1>1
    <3>2. b = 1 \/ (b - 1 \in DOMAIN s /\ t[b] = s[b - 1])
      BY <1>1
    <3> QED BY <1>1, <1>3, <2>1, <3>1, <3>2 DEF IsInjective, Range
  <2> QED BY <2>1 DEF IsInjective
<1> QED BY <1>1, <1>a, <1>2, <1>3

LEMMA TailFacts ==
  ASSUME NEW S, NEW s \in Seq(S), s # <<>>, IsInjective(s)
  PROVE  /\ Tail(s) \in Seq(S) /\ Head(s) \in S /\ Head(s) \in Range(s)
         /\ Range(Tail(s)) = Range(s) \ {Head(s)}
         /\ IsInjective(Tail(s))
<1> DEFINE t == Tail(s)
<1>1. /\ t \in Seq(S) /\ Len(s) \in Nat \ {0} /\ DOMAIN t = 1 .. Len(s) - 1 /\ DOMAIN s = 1 .. Len(s)
      /\ \A k \in 1 .. Len(s) - 1 : t[k] = s[k + 1]
      /\ Head(s) = s[1] /\ Head(s) \in S
  OBVIOUS
<1> HIDE DEF t
<1>2. Range(t) = Range(s) \ {s[1]}
  <2>1. ASSUME NEW k \in DOMAIN t PROVE t[k] \in Range(s) \ {s[1]}
    <3>1. k + 1 \in DOMAIN s /\ 1 \in DOMAIN s /\ t[k] = s[k + 1] /\ k + 1 # 1
      BY <1>1
    <3> QED BY <3>1 DEF Range, IsInjective
  <2>2. ASSUME NEW k \in DOMAIN s, s[k] # s[1] PROVE s[k] \in Range(t)
    <3>1. k - 1 \in DOMAIN t /\ t[k - 1] = s[k]
      BY <1>1, <2>2
    <3> QED BY <3>1 DEF Range
  <2> QED BY <2>1, <2>2 DEF Range
<1>3. IsInjective(t)
  <2>1. ASSUME NEW a \in DOMAIN t, NEW b \in DOMAIN t, t[a] = t[b] PROVE a = b
    <3>1. a + 1 \in DOMAIN s /\ b + 1 \in DOMAIN s /\ s[a + 1] = s[b + 1]
      BY <1>1, <2>1
    <3>2. a + 1 = b + 1
      BY <3>1 DEF IsInjective
    <3> QED BY <1>1, <3>2
  <2> QED BY <2>1 DEF IsInjective
<1>4. Head(s) \in Range(s)
  BY <1>1 DEF Range
<1> QED BY <1>1, <1>2, <1>3, <1>4 DEF t

LEMMA ConcatFacts ==
  ASSUME NEW S, NEW s \in Seq(S), NEW t \in Seq(S)
  PROVE  /\ s \o t \in Seq(S) /\ DOMAIN (s \o t) = 1 .. Len(s) + Len(t)
         /\ \A k \in 1 .. Len(s) : (s \o t)[k] = s[k]
         /\ \A k \in Len(s) + 1 .. Len(s) + Len(t) : (s \o t)[k] = t[k - Len(s)]
OBVIOUS

LEMMA RemoveAtFacts ==
  ASSUME NEW S, NEW s \in Seq(S), IsInjective(s), NEW n \in DOMAIN s
  PROVE  /\ RemoveAt(s, n) \in Seq(S)
         /\ Range(RemoveAt(s, n)) = Range(s) \ {s[n]}
         /\ IsInjective(RemoveAt(s, n))
<1> DEFINE t == SubSeq(s, 1, n - 1) \o SubSeq(s, n + 1, Len(s))
           at(k) == IF k < n THEN k ELSE k + 1
<1>1. Len(s) \in Nat /\ n \in 1 .. Len(s) /\ DOMAIN s = 1 .. Len(s)
  OBVIOUS
<1>2. /\ SubSeq(s, 1, n - 1) \in Seq(S) /\ Len(SubSeq(s, 1, n - 1)) = n - 1
      /\ \A k \in 1 .. n - 1 : SubSeq(s, 1, n - 1)[k] = s[k]
  BY <1>1
<1>3. /\ SubSeq(s, n + 1, Len(s)) \in Seq(S) /\ Len(SubSeq(s, n + 1, Len(s))) = Len(s) - n
      /\ \A k \in 1 .. Len(s) - n : SubSeq(s, n + 1, Len(s))[k] = s[n + k]
  BY <1>1
<1>4. /\ t \in Seq(S) /\ DOMAIN t = 1 .. Len(s) - 1
      /\ \A k \in DOMAIN t : at(k) \in DOMAIN s /\ at(k) # n /\ t[k] = s[at(k)]
  <2>1. t \in Seq(S) /\ DOMAIN t = 1 .. Len(s) - 1
    <3>1. /\ t \in Seq(S)
          /\ DOMAIN t = 1 .. Len(SubSeq(s, 1, n - 1)) + Len(SubSeq(s, n + 1, Len(s)))
      BY <1>2, <1>3, ConcatFacts, Zenon
    <3> QED BY <1>1, <1>2, <1>3, <3>1
  <2>2. ASSUME NEW k \in 1 .. Len(s) - 1, k < n PROVE t[k] = s[k]
    BY <1>1, <1>2, <1>3, <2>2
  <2>3. ASSUME NEW k \in 1 .. Len(s) - 1, ~(k < n) PROVE t[k] = s[k + 1]
    <3>1. t[k] = SubSeq(s, n + 1, Len(s))[k - (n - 1)]
      <4> DEFINE a == SubSeq(s, 1, n - 1)
                 b == SubSeq(s, n + 1, Len(s))
      <4>1. /\ a \in Seq(S) /\ b \in Seq(S) /\ Len(a) = n - 1 /\ Len(b) = Len(s) - n
        BY <1>2, <1>3
      <4> HIDE DEF a, b
      <4>2. k \in Len(a) + 1 .. Len(a) + Len(b)
        BY <1>1, <4>1, <2>3
      <4>3. (a \o b)[k] = b[k - Len(a)]
        BY <4>1, <4>2, ConcatFacts, Zenon
      <4> QED BY <4>1, <4>3 DEF a, b
    <3>2. k - (n - 1) \in 1 .. Len(s) - n /\ n + (k - (n - 1)) = k + 1
      BY <1>1, <2>3
    <3> QED BY <1>3, <3>1, <3>2
  <2> HIDE DEF t
  <2>4. ASSUME NEW k \in 1 .. Len(s) - 1 PROVE at(k) \in DOMAIN s /\ at(k) # n
    BY <1>1
  <2> QED BY <2>1, <2>2, <2>3, <2>4
<1>5. RemoveAt(s, n) = t
  BY DEF RemoveAt
<1> HIDE DEF t
<1>6. Range(t) = Range(s) \ {s[n]}
  <2>1. ASSUME NEW k \in DOMAIN t PROVE t[k] \in Range(s) \ {s[n]}
    BY <1>4 DEF Range, IsInjective
  <2>2. ASSUME NEW k \in DOMAIN s, s[k] # s[n] PROVE s[k] \in Range(t)
    <3> DEFINE j == IF k < n THEN k ELSE k - 1
    <3>1. j \in DOMAIN t /\ at(j) = k
      BY <1>1, <1>4, <2>2
    <3> QED BY <1>4, <3>1 DEF Range
  <2> QED BY <2>1, <2>2 DEF Range
<1>7. IsInjective(t)
  <2>1. ASSUME NEW a \in DOMAIN t, NEW b \in DOMAIN t, t[a] = t[b] PROVE a = b
    <3>1. at(a) = at(b)
      BY <1>4, <2>1 DEF IsInjective
    <3> QED BY <1>1, <1>4, <3>1
  <2> QED BY <2>1 DEF IsInjective
<1> QED BY <1>4, <1>5, <1>6, <1>7

LEMMA EmptyFacts == Range(<<>>) = {} /\ IsInjective(<<>>)
BY DEF Range, IsInjective

LEMMA SeqOver == ASSUME NEW S, NEW s \in Seq(S) PROVE Range(s) \subseteq S
BY DEF Range

LEMMA ConcatRange ==
  ASSUME NEW S, NEW T, NEW s \in Seq(S), NEW t \in Seq(T)
  PROVE  Range(s \o t) = Range(s) \union Range(t)
<1>1. /\ DOMAIN (s \o t) = 1 .. Len(s) + Len(t) /\ DOMAIN s = 1 .. Len(s) /\ DOMAIN t = 1 .. Len(t)
      /\ Len(s) \in Nat /\ Len(t) \in Nat
      /\ \A k \in 1 .. Len(s) : (s \o t)[k] = s[k]
      /\ \A k \in 1 .. Len(t) : (s \o t)[Len(s) + k] = t[k]
      /\ \A k \in Len(s) + 1 .. Len(s) + Len(t) : (s \o t)[k] = t[k - Len(s)]
  OBVIOUS
<1> DEFINE u == s \o t
<1> HIDE DEF u
<1>2. ASSUME NEW k \in DOMAIN u PROVE u[k] \in Range(s) \union Range(t)
  <2>1. (k \in DOMAIN s /\ u[k] = s[k]) \/ (k - Len(s) \in DOMAIN t /\ u[k] = t[k - Len(s)])
    BY <1>1 DEF u
  <2> QED BY <2>1 DEF Range
<1>3. ASSUME NEW k \in DOMAIN s PROVE s[k] \in Range(u)
  <2>1. k \in DOMAIN u /\ u[k] = s[k]
    BY <1>1 DEF u
  <2> QED BY <2>1 DEF Range
<1>4. ASSUME NEW k \in DOMAIN t PROVE t[k] \in Range(u)
  <2>1. Len(s) + k \in DOMAIN u /\ u[Len(s) + k] = t[k]
    BY <1>1 DEF u
  <2> QED BY <2>1 DEF Range
<1>5. Range(u) = Range(s) \union Range(t)
  BY <1>2, <1>3, <1>4 DEF Range
<1> QED BY <1>5 DEF u

-------------------------------------------------------------------------------
(* How items move between the queues and the hands                         *)

LEMMA NilFacts ==
  /\ Nil \notin Items /\ Nil \notin Music /\ Nil \notin Speech
  /\ Music \intersect Speech = {} /\ Items = Music \union Speech
BY AudioAssumption DEF Items

\* An item that is new is accepted into a queue or the overlay's hand.
LEMMA Enters ==
  ASSUME NEW mq, NEW sq, NEW t, NEW c, NEW f, Sound(mq, sq, t, c, f),
         NEW x \in Items, f[x] = "new"
  PROVE  /\ x \in Music => Sound(Append(mq, x), sq, t, c, [f EXCEPT ![x] = "in"])
         /\ x \in Speech => Sound(mq, Append(sq, x), t, c, [f EXCEPT ![x] = "in"])
         /\ x \in Speech /\ c = Nil => Sound(mq, sq, t, x, [f EXCEPT ![x] = "in"])
<1> DEFINE g == [f EXCEPT ![x] = "in"]
<1>1. /\ g \in [Items -> Fates] /\ g[x] = "in" /\ \A i \in Items : i # x => g[i] = f[i]
  BY DEF Sound, Fates
<1>2. x \notin Range(mq) \union Range(sq) \union {t, c}
  BY DEF Sound
<1> HIDE DEF g
<1>3. ASSUME x \in Music PROVE Sound(Append(mq, x), sq, t, c, g)
  <2>1. /\ Append(mq, x) \in Seq(Music) /\ Range(Append(mq, x)) = Range(mq) \union {x}
        /\ IsInjective(Append(mq, x))
    BY <1>2, <1>3, AppendFacts DEF Sound
  <2> QED BY <1>1, <1>2, <1>3, <2>1, NilFacts DEF Sound
<1>4. ASSUME x \in Speech PROVE Sound(mq, Append(sq, x), t, c, g)
  <2>1. /\ Append(sq, x) \in Seq(Speech) /\ Range(Append(sq, x)) = Range(sq) \union {x}
        /\ IsInjective(Append(sq, x))
    BY <1>2, <1>4, AppendFacts DEF Sound
  <2> QED BY <1>1, <1>2, <1>4, <2>1, NilFacts DEF Sound
<1>5. ASSUME x \in Speech, c = Nil PROVE Sound(mq, sq, t, x, g)
  BY <1>1, <1>2, <1>5, NilFacts DEF Sound
<1> QED BY <1>3, <1>4, <1>5 DEF g

\* The head of a queue is taken into an empty hand.
LEMMA Taken ==
  ASSUME NEW mq, NEW sq, NEW t, NEW c, NEW f, Sound(mq, sq, t, c, f)
  PROVE  /\ t = Nil /\ mq # <<>> => Sound(Tail(mq), sq, Head(mq), c, f)
         /\ t = Nil /\ sq # <<>> => Sound(mq, Tail(sq), Head(sq), c, f)
         /\ c = Nil /\ sq # <<>> => Sound(mq, Tail(sq), t, Head(sq), f)
<1>1. ASSUME t = Nil, mq # <<>> PROVE Sound(Tail(mq), sq, Head(mq), c, f)
  <2>1. /\ Tail(mq) \in Seq(Music) /\ Head(mq) \in Music /\ Head(mq) \in Range(mq)
        /\ Range(Tail(mq)) = Range(mq) \ {Head(mq)} /\ IsInjective(Tail(mq))
    BY <1>1, TailFacts DEF Sound
  <2>2. Head(mq) \notin Range(sq)
    BY <2>1, NilFacts, SeqOver DEF Sound
  <2> QED BY <1>1, <2>1, <2>2, NilFacts DEF Sound
<1>2. ASSUME sq # <<>>
      PROVE  /\ Tail(sq) \in Seq(Speech) /\ Head(sq) \in Speech /\ Head(sq) \in Range(sq)
             /\ Range(Tail(sq)) = Range(sq) \ {Head(sq)} /\ IsInjective(Tail(sq))
             /\ Head(sq) \notin Range(mq)
  <2>1. /\ Tail(sq) \in Seq(Speech) /\ Head(sq) \in Speech /\ Head(sq) \in Range(sq)
        /\ Range(Tail(sq)) = Range(sq) \ {Head(sq)} /\ IsInjective(Tail(sq))
    BY <1>2, TailFacts DEF Sound
  <2> QED BY <2>1, NilFacts, SeqOver DEF Sound
<1>3. ASSUME t = Nil, sq # <<>> PROVE Sound(mq, Tail(sq), Head(sq), c, f)
  BY <1>2, <1>3, NilFacts DEF Sound
<1>4. ASSUME c = Nil, sq # <<>> PROVE Sound(mq, Tail(sq), t, Head(sq), f)
  BY <1>2, <1>4, NilFacts DEF Sound
<1> QED BY <1>1, <1>3, <1>4

\* What the worker holds goes back to its queue, or comes to its end.
LEMMA Given ==
  ASSUME NEW mq, NEW sq, NEW t, NEW c, NEW f, Sound(mq, sq, t, c, f), t # Nil
  PROVE  /\ t \in Music => Sound(InFront(t, mq), sq, Nil, c, f) /\ Sound(Append(mq, t), sq, Nil, c, f)
         /\ t \in Speech => Sound(mq, InFront(t, sq), Nil, c, f) /\ Sound(mq, Append(sq, t), Nil, c, f)
         /\ f[t] # "in" => Sound(mq, sq, Nil, c, f)
         /\ \A x \in Fates \ {"in", "lost"} : Sound(mq, sq, Nil, c, [f EXCEPT ![t] = x])
<1>0. Nil \notin Range(mq) \union Range(sq)
  BY NilFacts, SeqOver DEF Sound
<1>1. ASSUME t \in Music PROVE Sound(InFront(t, mq), sq, Nil, c, f) /\ Sound(Append(mq, t), sq, Nil, c, f)
  <2>1. /\ Append(mq, t) \in Seq(Music) /\ Range(Append(mq, t)) = Range(mq) \union {t}
        /\ IsInjective(Append(mq, t))
    BY <1>1, AppendFacts DEF Sound
  <2>2. /\ InFront(t, mq) \in Seq(Music) /\ Range(InFront(t, mq)) = Range(mq) \union {t}
        /\ IsInjective(InFront(t, mq))
    BY <1>1, FrontFacts DEF Sound
  <2> QED BY <1>0, <1>1, <2>1, <2>2, NilFacts DEF Sound
<1>2. ASSUME t \in Speech PROVE Sound(mq, InFront(t, sq), Nil, c, f) /\ Sound(mq, Append(sq, t), Nil, c, f)
  <2>1. /\ Append(sq, t) \in Seq(Speech) /\ Range(Append(sq, t)) = Range(sq) \union {t}
        /\ IsInjective(Append(sq, t))
    BY <1>2, AppendFacts DEF Sound
  <2>2. /\ InFront(t, sq) \in Seq(Speech) /\ Range(InFront(t, sq)) = Range(sq) \union {t}
        /\ IsInjective(InFront(t, sq))
    BY <1>2, FrontFacts DEF Sound
  <2> QED BY <1>0, <1>2, <2>1, <2>2, NilFacts DEF Sound
<1>3. ASSUME f[t] # "in" PROVE Sound(mq, sq, Nil, c, f)
  BY <1>0, <1>3, NilFacts DEF Sound
<1>4. ASSUME NEW x \in Fates \ {"in", "lost"} PROVE Sound(mq, sq, Nil, c, [f EXCEPT ![t] = x])
  <2> DEFINE g == [f EXCEPT ![t] = x]
  <2>1. /\ g \in [Items -> Fates] /\ g[t] = x /\ \A i \in Items : i # t => g[i] = f[i]
    BY DEF Sound
  <2> HIDE DEF g
  <2>2. Sound(mq, sq, Nil, c, g)
    BY <1>0, <1>4, <2>1, NilFacts DEF Sound
  <2> QED BY <2>2 DEF g
<1> QED BY <1>1, <1>2, <1>3, <1>4

\* A track is taken out of its queue.
LEMMA Removed ==
  ASSUME NEW mq, NEW sq, NEW t, NEW c, NEW f, Sound(mq, sq, t, c, f), NEW n \in DOMAIN mq
  PROVE  Sound(RemoveAt(mq, n), sq, t, c, [f EXCEPT ![mq[n]] = "cleared"])
<1> DEFINE g == [f EXCEPT ![mq[n]] = "cleared"]
<1>1. /\ RemoveAt(mq, n) \in Seq(Music) /\ Range(RemoveAt(mq, n)) = Range(mq) \ {mq[n]}
      /\ IsInjective(RemoveAt(mq, n))
  BY RemoveAtFacts DEF Sound
<1>2. mq[n] \in Music /\ mq[n] \in Range(mq)
  BY DEF Sound, Range
<1>3. /\ g \in [Items -> Fates] /\ g[mq[n]] = "cleared" /\ \A i \in Items : i # mq[n] => g[i] = f[i]
  BY <1>2, NilFacts DEF Sound, Fates
<1>4. mq[n] \notin Range(sq) \union {t, c}
  BY <1>2, NilFacts, SeqOver DEF Sound
<1> HIDE DEF g
<1>5. Sound(RemoveAt(mq, n), sq, t, c, g)
  BY <1>1, <1>2, <1>3, <1>4, NilFacts DEF Sound
<1> QED BY <1>5 DEF g

\* A clear takes what is queued.
LEMMA Cleared ==
  ASSUME NEW mq, NEW sq, NEW t, NEW c, NEW f, Sound(mq, sq, t, c, f)
  PROVE  Sound(<<>>, <<>>, t, c,
               [i \in Items |-> IF i \in Range(mq) \union Range(sq) THEN "cleared" ELSE f[i]])
<1> DEFINE g == [i \in Items |-> IF i \in Range(mq) \union Range(sq) THEN "cleared" ELSE f[i]]
<1>1. /\ g \in [Items -> Fates]
      /\ \A i \in Items : g[i] = IF i \in Range(mq) \union Range(sq) THEN "cleared" ELSE f[i]
  BY DEF Sound, Fates
<1>2. /\ <<>> \in Seq(Music) /\ <<>> \in Seq(Speech)
      /\ Range(<<>>) = {} /\ IsInjective(<<>>)
  BY EmptyFacts
<1>3. c \notin Range(mq)
  BY NilFacts, SeqOver DEF Sound
<1> HIDE DEF g
<1>4. Sound(<<>>, <<>>, t, c, g)
  BY <1>1, <1>2, <1>3, NilFacts DEF Sound
<1> QED BY <1>4 DEF g

\* What the overlay holds goes to the front of the queue, or comes to its end.
LEMMA HandedOver ==
  ASSUME NEW mq, NEW sq, NEW t, NEW c, NEW f, Sound(mq, sq, t, c, f), c # Nil
  PROVE  /\ Sound(mq, InFront(c, sq), t, Nil, f)
         /\ \A x \in {"in", "lost"} : Sound(mq, InFront(c, sq), t, Nil, [f EXCEPT ![c] = x])
         /\ \A x \in Fates \ {"in"} : Sound(mq, sq, t, Nil, [f EXCEPT ![c] = x])
<1>0. Nil \notin Range(sq) /\ c \in Speech /\ c \in Items /\ c \notin Range(mq)
  BY NilFacts, SeqOver DEF Sound
<1>1. /\ InFront(c, sq) \in Seq(Speech) /\ Range(InFront(c, sq)) = Range(sq) \union {c}
      /\ IsInjective(InFront(c, sq))
  BY <1>0, FrontFacts DEF Sound
<1>2. Sound(mq, InFront(c, sq), t, Nil, f)
  BY <1>0, <1>1, NilFacts DEF Sound
<1>3. ASSUME NEW x \in Fates
      PROVE  /\ x \in {"in", "lost"} => Sound(mq, InFront(c, sq), t, Nil, [f EXCEPT ![c] = x])
             /\ x # "in" => Sound(mq, sq, t, Nil, [f EXCEPT ![c] = x])
  <2> DEFINE g == [f EXCEPT ![c] = x]
  <2>1. /\ g \in [Items -> Fates] /\ g[c] = x /\ \A i \in Items : i # c => g[i] = f[i]
    BY <1>0 DEF Sound
  <2> HIDE DEF g
  <2>2. ASSUME x \in {"in", "lost"} PROVE Sound(mq, InFront(c, sq), t, Nil, g)
    BY <1>0, <1>1, <2>1, <2>2, NilFacts DEF Sound
  <2>3. ASSUME x # "in" PROVE Sound(mq, sq, t, Nil, g)
    BY <1>0, <2>1, <2>3, NilFacts DEF Sound
  <2> QED BY <2>2, <2>3 DEF g
<1> QED BY <1>2, <1>3 DEF Fates

\* An utterance loses its file, or was heard and is queued again.
LEMMA Recalled ==
  ASSUME NEW mq, NEW sq, NEW t, NEW c, NEW f, Sound(mq, sq, t, c, f), NEW s \in Speech
  PROVE  /\ Sound(mq, sq, t, c, [f EXCEPT ![s] = "lost"])
         /\ c = Nil /\ f[s] = "heard" => Sound(mq, InFront(s, sq), t, Nil, [f EXCEPT ![s] = "in"])
<1>1. ASSUME NEW x \in Fates
      PROVE  LET g == [f EXCEPT ![s] = x]
             IN  /\ g \in [Items -> Fates] /\ g[s] = x /\ \A i \in Items : i # s => g[i] = f[i]
  BY NilFacts DEF Sound
<1>2. Sound(mq, sq, t, c, [f EXCEPT ![s] = "lost"])
  <2> DEFINE g == [f EXCEPT ![s] = "lost"]
  <2>1. /\ g \in [Items -> Fates] /\ g[s] = "lost" /\ \A i \in Items : i # s => g[i] = f[i]
    BY <1>1 DEF Fates
  <2> HIDE DEF g
  <2>2. Sound(mq, sq, t, c, g)
    BY <2>1, NilFacts DEF Sound
  <2> QED BY <2>2 DEF g
<1>3. ASSUME c = Nil, f[s] = "heard" PROVE Sound(mq, InFront(s, sq), t, Nil, [f EXCEPT ![s] = "in"])
  <2> DEFINE g == [f EXCEPT ![s] = "in"]
  <2>1. /\ g \in [Items -> Fates] /\ g[s] = "in" /\ \A i \in Items : i # s => g[i] = f[i]
    BY <1>1 DEF Fates
  <2> HIDE DEF g
  <2>2. s \notin Range(mq) \union Range(sq) \union {t}
    BY <1>3, NilFacts DEF Sound
  <2>3. /\ InFront(s, sq) \in Seq(Speech) /\ Range(InFront(s, sq)) = Range(sq) \union {s}
        /\ IsInjective(InFront(s, sq))
    BY <2>2, FrontFacts DEF Sound
  <2>4. Nil \notin Range(sq)
    BY NilFacts, SeqOver DEF Sound
  <2>5. Sound(mq, InFront(s, sq), t, Nil, g)
    BY <1>3, <2>1, <2>2, <2>3, <2>4, NilFacts DEF Sound
  <2> QED BY <2>5 DEF g
<1> QED BY <1>2, <1>3

-------------------------------------------------------------------------------
(* Counting                                                                *)

\* A sequence that repeats nothing has an element at one position or at none.
LEMMA Positions ==
  ASSUME NEW S, NEW s \in Seq(S), IsInjective(s), NEW x
  PROVE  Cardinality({n \in 1 .. Len(s) : s[n] = x}) = IF x \in Range(s) THEN 1 ELSE 0
<1> DEFINE P == {n \in 1 .. Len(s) : s[n] = x}
<1>1. DOMAIN s = 1 .. Len(s)
  OBVIOUS
<1>2. CASE x \in Range(s)
  <2>1. PICK n \in DOMAIN s : s[n] = x
    BY <1>2 DEF Range
  <2>2. P = {n}
    BY <1>1, <2>1 DEF IsInjective
  <2> QED BY <1>2, <2>2, FS_Singleton
<1>3. CASE x \notin Range(s)
  <2>1. P = {}
    BY <1>1, <1>3 DEF Range
  <2> QED BY <1>3, <2>1, FS_EmptySet
<1> QED BY <1>2, <1>3

\* The parts that are to come are as many as the reservation has slots left.
LEMMA LeftCounts ==
  ASSUME NEW r \in Requests, NEW n \in 0 .. Len(Parts[r]), Committed(r, n, fate)
  PROVE  Left(r) = Len(Parts[r]) - n
<1> DEFINE p == Parts[r]
           N == {s \in Range(p) : fate[s] = "new"}
           b == [k \in 1 .. Len(p) - n |-> p[n + k]]
<1>1. p \in Seq(Speech) /\ IsInjective(p) /\ Len(p) \in Nat /\ DOMAIN p = 1 .. Len(p)
  <2>1. p \in Seq(Speech) /\ IsInjective(p)
    BY AudioAssumption
  <2> QED BY <2>1
<1>2. \A k \in 1 .. Len(p) : fate[p[k]] = "new" <=> k > n
  BY DEF Committed
<1> HIDE DEF p
<1>3. ASSUME NEW k \in 1 .. Len(p) - n PROVE b[k] \in N
  <2>1. n + k \in DOMAIN p /\ n + k > n
    BY <1>1
  <2> QED BY <1>1, <1>2, <2>1 DEF Range
<1>4. ASSUME NEW j \in 1 .. Len(p) - n, NEW k \in 1 .. Len(p) - n, b[j] = b[k] PROVE j = k
  <2>1. n + j \in DOMAIN p /\ n + k \in DOMAIN p /\ p[n + j] = p[n + k]
    BY <1>1, <1>4
  <2>2. n + j = n + k
    BY <1>1, <2>1 DEF IsInjective
  <2> QED BY <2>2
<1>5. ASSUME NEW s \in N PROVE \E k \in 1 .. Len(p) - n : b[k] = s
  <2>1. PICK k \in DOMAIN p : p[k] = s
    BY DEF Range
  <2>2. k > n /\ k - n \in 1 .. Len(p) - n /\ n + (k - n) = k
    BY <1>1, <1>2, <2>1
  <2> QED BY <2>1, <2>2
<1>6. b \in Bijection(1 .. Len(p) - n, N)
  <2>1. b \in [1 .. Len(p) - n -> N]
    BY <1>3
  <2>2. DOMAIN b = 1 .. Len(p) - n
    OBVIOUS
  <2> HIDE DEF b, N
  <2>3. IsInjective(b)
    BY <1>4, <2>2 DEF IsInjective
  <2> QED BY <1>5, <2>1, <2>3 DEF Bijection, Injection, Surjection
<1>7. Cardinality(N) = Len(p) - n
  <2> HIDE DEF b, N
  <2>1. Len(p) - n \in Nat
    BY <1>1 DEF p
  <2> QED BY <1>6, <2>1, FS_CountingElements DEF ExistsBijection
<1> QED BY <1>7 DEF Left, p

\* What the invariant says of where an item is.
LEMMA PlaceFacts ==
  ASSUME AudioInv
  PROVE  Accounted /\ ClearEmpties
<1>1. Sound(music, speech, work.target, InOverlay, fate) /\ Hands /\ Drops /\ Wiped
  BY DEF AudioInv, Placement
<1>2. ASSUME NEW i \in Items
      PROVE  Places(i) = (IF i \in Range(music) THEN 1 ELSE 0) + (IF i \in Range(speech) THEN 1 ELSE 0)
                       + (IF work.target = i THEN 1 ELSE 0) + (IF InOverlay = i THEN 1 ELSE 0)
  <2>1. /\ Cardinality({n \in 1 .. Len(music) : music[n] = i}) = IF i \in Range(music) THEN 1 ELSE 0
        /\ Cardinality({n \in 1 .. Len(speech) : speech[n] = i}) = IF i \in Range(speech) THEN 1 ELSE 0
    BY <1>1, Positions DEF Sound
  <2>2. (overlay.speech = i /\ overlay.step # "metric") <=> InOverlay = i
    BY NilFacts DEF InOverlay
  <2> QED BY <2>1, <2>2 DEF Places
<1>3. ASSUME NEW i \in Items
      PROVE  CASE fate[i] = "in" -> Places(i) = 1
               [] fate[i] = "lost" -> Places(i) <= 1
               [] OTHER -> Places(i) = 0
  <2> DEFINE a == i \in Range(music)
             b == i \in Range(speech)
             c == work.target = i
             d == InOverlay = i
  <2>1. ~(a /\ b) /\ ~(a /\ c) /\ ~(a /\ d) /\ ~(b /\ c) /\ ~(b /\ d) /\ ~(c /\ d)
    <3>1. Range(music) \subseteq Music /\ Range(speech) \subseteq Speech
      BY <1>1, SeqOver DEF Sound
    <3> QED BY <1>1, <3>1, NilFacts DEF Sound
  <2>2. /\ fate[i] = "in" => a \/ b \/ c \/ d
        /\ fate[i] \notin {"in", "lost"} => ~a /\ ~b /\ ~c /\ ~d
    BY <1>1 DEF Sound
  <2>3. Places(i) = (IF a THEN 1 ELSE 0) + (IF b THEN 1 ELSE 0) + (IF c THEN 1 ELSE 0) + (IF d THEN 1 ELSE 0)
    BY <1>2
  <2> HIDE DEF a, b, c, d
  <2> QED BY <2>1, <2>2, <2>3
<1>4. Accounted
  BY <1>1, <1>3 DEF Accounted, Drops
<1>5. ASSUME NEW i \in wiped, op.step = "idle" PROVE fate[i] # "in"
  <2>1. i \in Items /\ i \notin Range(music) \union Range(speech) /\ i # overlay.speech /\ work.target # i
    BY <1>1, <1>5 DEF Wiped, Ending
  <2>2. i # InOverlay
    BY <2>1, NilFacts DEF InOverlay
  <2> QED BY <1>1, <2>1, <2>2 DEF Sound
<1> QED BY <1>4, <1>5 DEF ClearEmpties

-------------------------------------------------------------------------------
(* The invariant                                                           *)

LEMMA AudioStarts == AudioInit => AudioInv
<1> SUFFICES ASSUME AudioInit PROVE AudioInv
  OBVIOUS
<1>0. work = Idle /\ overlay = NoOverlay /\ op = NoOp
  BY DEF AudioInit
<1>1. /\ work \in Works /\ work.pc = "look" /\ work.target = Nil /\ overlay \in Overlaid
      /\ overlay.step = "none" /\ overlay.speech = Nil /\ op \in Calls
  BY <1>0 DEF Idle, NoOverlay, NoOp, Works, Overlaid, Calls, Steps, Resting
<1>2. AudioTypeOK
  <2>1. <<>> \in Seq(Music) /\ <<>> \in Seq(Speech) /\ <<>> \in Seq(Requests)
    OBVIOUS
  <2>2. fate \in [Items -> Fates]
    BY DEF AudioInit, Fates
  <2> QED BY <2>1, <2>2, Zenon DEF AudioInit, AudioTypeOK
<1>3. Hands
  BY <1>1 DEF AudioInit, Hands, Resting, Playing, Carrying
<1>4. InOverlay = Nil /\ Range(<<>>) = {} /\ IsInjective(<<>>)
  BY <1>1, EmptyFacts DEF InOverlay
<1>5. Placement
  BY <1>1, <1>4, NilFacts DEF AudioInit, Placement, Sound, Fates
<1>6. Reservations
  <2>1. ASSUME NEW r \in Requests PROVE Committed(r, 0, fate) /\ 0 \in 0 .. Len(Parts[r])
    <3>1. /\ Parts[r] \in Seq(Speech) /\ DOMAIN Parts[r] = 1 .. Len(Parts[r])
          /\ Len(Parts[r]) \in Nat
      BY AudioAssumption
    <3>2. ASSUME NEW k \in 1 .. Len(Parts[r]) PROVE fate[Parts[r][k]] = "new" /\ k > 0
      BY <3>1, NilFacts DEF AudioInit
    <3> QED BY <3>1, <3>2 DEF Committed
  <2> QED BY <1>4, <2>1 DEF AudioInit, Reservations
<1>7. Why /\ Drops /\ Wiped
  BY <1>1, NilFacts DEF AudioInit, Why, Drops, Wiped, Playing, Flags
<1> QED BY <1>2, <1>3, <1>5, <1>6, <1>7 DEF AudioInv

LEMMA PlacementStays ==
  ASSUME Placement, UNCHANGED <<music, speech, fate>>,
         work'.target = work.target, InOverlay' = InOverlay
  PROVE  Placement'
BY DEF Placement

\* Nothing was committed, and no reservation taken.
LEMMA ReservationsStay ==
  ASSUME Reservations, UNCHANGED line,
         \A i \in Speech : fate'[i] = "new" <=> fate[i] = "new"
  PROVE  Reservations'
<1>1. ASSUME NEW r \in Requests, NEW n \in 0 .. Len(Parts[r]), Committed(r, n, fate)
      PROVE  Committed(r, n, fate')
  <2>1. ASSUME NEW k \in 1 .. Len(Parts[r]) PROVE Parts[r][k] \in Speech
    BY AudioAssumption
  <2> QED BY <1>1, <2>1 DEF Committed
<1> QED BY <1>1 DEF Reservations

LEMMA WhyStays ==
  ASSUME Why, UNCHANGED flags, skipped \subseteq skipped',
         work'.pc \in Playing => work.pc \in Playing /\ work'.target = work.target
                                 /\ (work'.quiet => work.quiet)
  PROVE  Why'
<1>1. flags' \subseteq Flags
  BY DEF Why
<1>2. ASSUME work'.pc \in Playing
      PROVE  (work'.quiet => flags' # {}) /\ ("skip" \in flags' => work'.target \in skipped')
  <2>1. /\ work.quiet => flags # {}
        /\ "skip" \in flags => work.target \in skipped
    BY <1>2 DEF Why
  <2> QED BY <1>2, <2>1
<1> QED BY <1>1, <1>2 DEF Why

LEMMA DropsStay ==
  ASSUME Drops, UNCHANGED <<fails, skipped>>,
         \A m \in Music : fate'[m] = "dropped" => fate[m] = "dropped"
  PROVE  Drops'
BY DEF Drops

LEMMA WipedStays ==
  ASSUME Wiped, UNCHANGED wiped,
         \A i \in wiped : fate'[i] # "new",
         \A i \in wiped : i \in Range(music') \union Range(speech') =>
                                i \in Range(music) \union Range(speech) \union {overlay.speech},
         overlay'.speech \in {Nil, overlay.speech} \union Range(speech),
         overlay'.step = "metric" => fate'[overlay'.speech] = "heard",
         work'.target \in {Nil, work.target} \union Range(music) \union Range(speech),
         work'.target \in wiped /\ Ending => Ending'
  PROVE  Wiped'
<1>1. ASSUME NEW i \in wiped
      PROVE  /\ fate'[i] # "new" /\ i \notin Range(music') \union Range(speech') /\ i # overlay'.speech
             /\ work'.target = i => Ending'
  <2>1. i \in Items /\ i # Nil
    BY NilFacts DEF Wiped
  <2>2. /\ i \notin Range(music) \union Range(speech) /\ i # overlay.speech
        /\ work.target = i => Ending
    BY DEF Wiped
  <2>3. fate'[i] # "new" /\ i \notin Range(music') \union Range(speech')
    BY <2>2
  <2>4. i # overlay'.speech
    BY <2>1, <2>2
  <2>5. ASSUME work'.target = i PROVE Ending'
    <3>1. work.target = i
      BY <2>1, <2>2, <2>5
    <3> QED BY <2>2, <2>5, <3>1
  <2> QED BY <2>3, <2>4, <2>5
<1> QED BY <1>1 DEF Wiped

\* A step that moves no item, and after which nothing new is said of one.
LEMMA Unmoved ==
  ASSUME AudioInv, AudioTypeOK', Hands',
         UNCHANGED <<music, speech, line, fate, fails, wiped, flags>>, skipped \subseteq skipped',
         work'.target = work.target, InOverlay' = InOverlay,
         overlay'.speech \in {Nil, overlay.speech},
         overlay'.step = "metric" => overlay.step = "metric" /\ overlay'.speech = overlay.speech,
         work'.pc \in Playing => work.pc \in Playing /\ (work'.quiet => work.quiet),
         work.target \in wiped /\ Ending => Ending'
  PROVE  AudioInv'
<1>1. Placement'
  BY PlacementStays DEF AudioInv
<1>2. Reservations'
  BY ReservationsStay DEF AudioInv
<1>3. Why'
  BY WhyStays DEF AudioInv
<1>4. Drops'
  BY DEF AudioInv, Drops
<1>5. Wiped'
  BY WipedStays DEF AudioInv, Wiped
<1> QED BY <1>1, <1>2, <1>3, <1>4, <1>5 DEF AudioInv

\* The same, when something was asked of the current item.
LEMMA Unplaced ==
  ASSUME AudioInv, AudioTypeOK', Hands', Why',
         UNCHANGED <<music, speech, line, fate, fails, wiped>>, skipped \subseteq skipped',
         UNCHANGED overlay, work'.target = work.target,
         work.target \in wiped /\ Ending => Ending'
  PROVE  AudioInv'
<1>0. InOverlay' = InOverlay
  BY DEF InOverlay
<1>1. Placement'
  BY <1>0, PlacementStays DEF AudioInv
<1>2. Reservations'
  BY ReservationsStay DEF AudioInv
<1>4. Drops'
  BY DEF AudioInv, Drops
<1>5. Wiped'
  BY WipedStays DEF AudioInv, Wiped
<1> QED BY <1>1, <1>2, <1>4, <1>5 DEF AudioInv

-------------------------------------------------------------------------------
(* The worker rests                                                        *)

LEMMA Rests ==
  ASSUME NEW pc \in Resting
  PROVE  /\ [Idle EXCEPT !.pc = pc] \in Works /\ [Idle EXCEPT !.pc = pc].pc = pc
         /\ [Idle EXCEPT !.pc = pc].target = Nil
         /\ Idle \in Works /\ Idle.pc = "look" /\ Idle.target = Nil
BY DEF Idle, Works, Resting

\* The worker goes from one rest to another.
LEMMA RestKeeps ==
  ASSUME AudioInv, AudioTypeOK', work.pc \in Resting, work' \in Works, work'.pc \in Resting,
         work'.target = Nil, UNCHANGED <<queues, current, flags, voice, overlay, op, fate, fails, history>>
  PROVE  AudioInv'
<1>1. work.target = Nil /\ work.pc \notin Playing /\ work'.pc \notin Playing
      /\ work.pc \notin {"put", "cancelling", "starting", "play"}
      /\ work'.pc \notin {"put", "cancelling", "starting", "play"}
  BY DEF AudioInv, Hands, Resting, Playing
<1>2. Hands'
  BY <1>1 DEF AudioInv, Hands
<1>3. InOverlay' = InOverlay
  BY DEF InOverlay
<1>4. ~Ending
  BY <1>1 DEF Ending
<1> QED BY <1>1, <1>2, <1>3, <1>4, Unmoved DEF queues, history

LEMMA RestSteps ==
  ASSUME AudioInv, Suspended \/ Unconnected \/ Hold \/ Awake
  PROVE  AudioInv'
<1>1. work' \in Works /\ work'.pc \in Resting /\ work'.target = Nil
  BY Rests DEF Suspended, Unconnected, Hold, Awake, Sleeps, Resting
<1>2. work.pc \in Resting
  BY DEF Suspended, Unconnected, Hold, Awake, Resting
<1>3. UNCHANGED <<queues, current, flags, voice, overlay, op, fate, fails, history>>
  BY DEF Suspended, Unconnected, Hold, Awake, session
<1>4. AudioTypeOK'
  <2>1. UNCHANGED <<queues, current, started, active, flags, voice, joining, fate, bound>>
    BY DEF Suspended, Unconnected, Hold, Awake, session
  <2>2. suspended' \in BOOLEAN /\ wake' \in BOOLEAN
    BY Zenon DEF Suspended, Unconnected, Hold, Awake, session, AudioInv, AudioTypeOK
  <2> QED BY <2>1, <2>2 DEF AudioInv, AudioTypeOK, queues
<1> QED BY <1>1, <1>2, <1>3, <1>4, RestKeeps

-------------------------------------------------------------------------------
(* The connection and the callers that change nothing yet                  *)

LEMMA DropKeeps == ASSUME AudioInv, Drop PROVE AudioInv'
<1>1. UNCHANGED <<round, started, work, overlay, op, line, bound, joining, history>> /\ voice' = "gone"
  BY DEF Drop
<1>2. AudioTypeOK' /\ Hands' /\ InOverlay' = InOverlay /\ (Ending => Ending')
  BY <1>1 DEF AudioInv, AudioTypeOK, Hands, InOverlay, Ending, round
<1> QED BY <1>1, <1>2, Unmoved DEF round, history

LEMMA ConnectKeeps == ASSUME AudioInv, Connect PROVE AudioInv'
<1>1. UNCHANGED <<round, started, voice, work, overlay, op, line, bound, history>> /\ joining' = TRUE
  BY DEF Connect
<1>2. AudioTypeOK' /\ Hands' /\ InOverlay' = InOverlay /\ (Ending => Ending')
  BY <1>1 DEF AudioInv, AudioTypeOK, Hands, InOverlay, Ending, round
<1> QED BY <1>1, <1>2, Unmoved DEF round, history

LEMMA ConnectedKeeps == ASSUME AudioInv, Connected PROVE AudioInv'
<1>1. /\ UNCHANGED <<music, speech, current, started, active, flags, fate, fails, work,
                     overlay, op, line, history>>
      /\ joining' = FALSE /\ bound' = TRUE /\ suspended' = FALSE /\ wake' = TRUE
      /\ voice' \in {"gone", "idle", "playing"} /\ (voice' = "playing" => voice = "playing")
  BY DEF Connected, AudioInv, AudioTypeOK
<1>2. AudioTypeOK' /\ Hands' /\ InOverlay' = InOverlay /\ (Ending => Ending')
  BY <1>1 DEF AudioInv, AudioTypeOK, Hands, InOverlay, Ending
<1> QED BY <1>1, <1>2, Unmoved DEF history

\* A call begins or ends; none of them is a clear that waits for the worker.
LEMMA CallKeeps ==
  ASSUME AudioInv, UNCHANGED <<round, started, work, overlay, line, joining, history>>,
         voice' \in {voice, "gone"}, bound' \in BOOLEAN, op' \in Calls, Ending => FALSE
  PROVE  AudioInv'
<1>2. AudioTypeOK' /\ Hands' /\ InOverlay' = InOverlay
  BY DEF AudioInv, AudioTypeOK, Hands, InOverlay, round
<1> QED BY <1>2, Unmoved DEF round, history

LEMMA AskKeeps == ASSUME AudioInv, NEW kind \in {"skip", "seek", "clear", "leave"}, Ask(kind) PROVE AudioInv'
<1>1. op' \in Calls /\ op.step = "idle"
  BY DEF Ask, Calls, TransportFree, NoCaller
<1>2. UNCHANGED <<round, started, voice, work, overlay, line, bound, joining, history>>
  BY DEF Ask
<1>3. bound' \in BOOLEAN /\ ~Ending
  BY <1>1, <1>2 DEF AudioInv, AudioTypeOK, Ending
<1> QED BY <1>1, <1>2, <1>3, CallKeeps

LEMMA RefusedKeeps == ASSUME AudioInv, Refused PROVE AudioInv'
<1>1. op' \in Calls /\ op.step = "asked"
  BY DEF Refused, Calls, NoOp
<1>2. UNCHANGED <<round, started, voice, work, overlay, line, bound, joining, history>>
  BY DEF Refused, rest
<1>3. bound' \in BOOLEAN /\ ~Ending
  BY <1>1, <1>2 DEF AudioInv, AudioTypeOK, Ending
<1> QED BY <1>1, <1>2, <1>3, CallKeeps

LEMMA WaitedKeeps == ASSUME AudioInv, Waited PROVE AudioInv'
<1>1. op' \in Calls
  BY DEF Waited, Calls, NoOp
<1>2. /\ UNCHANGED <<round, started, work, overlay, line, joining, history>>
      /\ voice' \in {voice, "gone"}
  BY DEF Waited
<1>3. bound' \in BOOLEAN
  BY DEF Waited, AudioInv, AudioTypeOK
<1>4. ~Ending
  BY DEF Waited, Ending
<1> QED BY <1>1, <1>2, <1>3, <1>4, CallKeeps

-------------------------------------------------------------------------------
(* What is asked of the current item                                       *)

LEMMA Stopped ==
  ASSUME Hands, Stop
  PROVE  /\ work' \in Works /\ UNCHANGED <<work.pc, work.target, work.outcome>>
         /\ work'.quiet = TRUE /\ (voice = "playing" => work'.over)
         /\ (work.over => work'.over)
         /\ voice' # "playing" /\ voice' \in {"idle", voice}
<1>1. work \in Works
  BY DEF Hands
<1>2. /\ work' = [work EXCEPT !.quiet = TRUE, !.over = @ \/ voice = "playing"]
      /\ voice' = IF voice = "playing" THEN "idle" ELSE voice
  BY DEF Stop
<1> QED BY <1>1, <1>2 DEF Works

\* A caller acts, with or without stopping what plays.
LEMMA ActKeeps ==
  ASSUME AudioInv, Stop \/ UNCHANGED <<voice, work>>, op' \in Calls, flags' \subseteq Flags,
         UNCHANGED <<music, speech, current, started, active, wake, overlay, line, bound, joining, fate, fails, wiped>>,
         suspended' \in BOOLEAN, skipped \subseteq skipped', flags # {} => flags' # {},
         work'.quiet => work.quiet \/ flags' # {},
         work.pc \in Playing /\ "skip" \in flags' => "skip" \in flags \/ work.target \in skipped',
         ~Ending
  PROVE  AudioInv'
<1>1. /\ work' \in Works /\ UNCHANGED <<work.pc, work.target, work.outcome>>
      /\ voice' \in {"idle", voice} /\ (voice' = "playing" => voice = "playing")
  <2>1. CASE Stop
    BY <2>1, Stopped DEF AudioInv
  <2>2. CASE UNCHANGED <<voice, work>>
    BY <2>2 DEF AudioInv, Hands
  <2> QED BY <2>1, <2>2
<1>2. AudioTypeOK'
  BY <1>1 DEF AudioInv, AudioTypeOK
<1>3. Hands'
  BY <1>1 DEF AudioInv, Hands
<1>4. Why'
  <2>1. ASSUME work.pc \in Playing
        PROVE  (work'.quiet => flags' # {}) /\ ("skip" \in flags' => work.target \in skipped')
    <3>1. (work.quiet => flags # {}) /\ ("skip" \in flags => work.target \in skipped)
      BY <2>1 DEF AudioInv, Why
    <3> QED BY <2>1, <3>1
  <2> QED BY <1>1, <2>1 DEF Why
<1> QED BY <1>1, <1>2, <1>3, <1>4, Unplaced

LEMMA SkipKeeps == ASSUME AudioInv, Skip PROVE AudioInv'
<1>1. /\ op.step = "asked" /\ op' \in Calls /\ flags' = flags \union {"skip"} /\ Stop
      /\ skipped' = skipped \union {current}
      /\ UNCHANGED <<music, speech, current, started, active, suspended, wake, overlay, line, bound,
                     joining, fate, fails, wiped>>
  BY DEF Skip, NoOp, Calls, unasked
<1>2. flags' \subseteq Flags /\ suspended' \in BOOLEAN
  BY <1>1 DEF AudioInv, AudioTypeOK, Flags
<1>3. work.pc \in Playing => work.target \in skipped'
  BY <1>1 DEF AudioInv, Hands
<1>4. ~Ending
  BY <1>1 DEF Ending
<1> QED BY <1>1, <1>2, <1>3, <1>4, ActKeeps

LEMMA SeekKeeps == ASSUME AudioInv, Seek PROVE AudioInv'
<1>1. /\ op.step = "asked" /\ flags' = flags \union {"restart"} /\ Stop
      /\ op' = [op EXCEPT !.step = "waiting"]
      /\ UNCHANGED <<music, speech, current, started, active, suspended, wake, overlay, line, bound,
                     joining, fate, fails, wiped, skipped>>
  BY DEF Seek, unasked
<1>2. flags' \subseteq Flags /\ suspended' \in BOOLEAN /\ op' \in Calls
  BY <1>1 DEF AudioInv, AudioTypeOK, Flags, Hands, Calls
<1>3. "skip" \in flags' => "skip" \in flags
  BY <1>1
<1>4. ~Ending
  BY <1>1 DEF Ending
<1> QED BY <1>1, <1>2, <1>3, <1>4, ActKeeps

LEMMA SuspendKeeps == ASSUME AudioInv, Suspend PROVE AudioInv'
<1>1. /\ op.step = "idle" /\ flags' = flags \union {"suspend"} /\ suspended' = TRUE
      /\ Stop \/ UNCHANGED <<voice, work>>
      /\ UNCHANGED <<music, speech, current, started, active, wake, overlay, line, bound,
                     joining, fate, fails, wiped, skipped>>
  BY DEF Suspend, TransportFree, NoCaller, history
<1>2. flags' \subseteq Flags /\ op' \in Calls
  BY <1>1 DEF AudioInv, AudioTypeOK, Flags, Suspend, Calls
<1>3. "skip" \in flags' => "skip" \in flags
  BY <1>1
<1>4. ~Ending
  BY <1>1 DEF Ending
<1> QED BY <1>1, <1>2, <1>3, <1>4, ActKeeps

\* A clear takes what is queued and, if it plays, the current item.
LEMMA ClearKeeps == ASSUME AudioInv, Clear PROVE AudioInv'
<1> DEFINE gone == Range(music) \union Range(speech)
           ending == IF voice = "playing" /\ flags \subseteq {"skip"} THEN {current} ELSE {}
<1>0. Hands /\ Sound(music, speech, work.target, InOverlay, fate) /\ Wiped /\ Why /\ Drops
  BY DEF AudioInv, Placement
<1>1. Range(music \o speech) = gone
  BY <1>0, ConcatRange DEF Sound
<1>2. /\ op.kind \in {"clear", "leave"} /\ op.step = "asked"
      /\ fate' = [i \in Items |-> IF i \in gone THEN "cleared" ELSE fate[i]]
      /\ wiped' = wiped \union gone \union ending
      /\ music' = <<>> /\ speech' = <<>> /\ line' = <<>>
      /\ flags' = flags \union {"discard"}
      /\ IF current # Nil THEN Stop ELSE UNCHANGED <<voice, work>>
      /\ op' = [op EXCEPT !.step = "waiting", !.waits = current # Nil]
      /\ UNCHANGED <<current, started, active, suspended, wake, overlay, fails, bound, joining, skipped>>
  BY <1>1 DEF Clear
<1> HIDE DEF gone, ending
<1>3. /\ work' \in Works /\ UNCHANGED <<work.pc, work.target, work.outcome>>
      /\ voice' \in {"idle", voice} /\ (voice' = "playing" => voice = "playing")
      /\ current # Nil => work'.quiet /\ (voice = "playing" => work'.over)
      /\ current = Nil => UNCHANGED work
  <2>1. CASE current # Nil
    BY <1>0, <1>2, <2>1, Stopped
  <2>2. CASE current = Nil
    BY <1>0, <1>2, <2>2 DEF Hands
  <2> QED BY <2>1, <2>2
<1>4. /\ gone \subseteq Items /\ Range(music) \subseteq Music
      /\ \A i \in gone : i # work.target /\ i # InOverlay /\ fate[i] \in {"in", "lost"}
  <2>1. Range(music) \subseteq Music /\ Range(speech) \subseteq Speech
    BY <1>0, SeqOver DEF Sound
  <2> QED BY <1>0, <2>1, NilFacts DEF Sound, gone
<1>5. \A i \in Items : fate'[i] = IF i \in gone THEN "cleared" ELSE fate[i]
  BY <1>2
<1>6. ending \subseteq Items
      /\ \A i \in ending : i = work.target /\ work.pc \in {"starting", "play"} /\ voice = "playing"
                           /\ flags \subseteq {"skip"} /\ i = current /\ i # Nil
  <2>1. voice = "playing" => /\ work.pc \in {"starting", "play"} /\ current = work.target
                             /\ current # Nil /\ current \in Items
    BY <1>0 DEF Hands, Playing, Resting, Works
  <2> QED BY <2>1 DEF ending
<1>7. AudioTypeOK'
  <2>1. fate' \in [Items -> Fates]
    BY <1>0, <1>2 DEF Sound, Fates
  <2> QED BY <1>2, <1>3, <2>1 DEF AudioInv, AudioTypeOK, Flags
<1>8. op' \in Calls /\ op'.step = "waiting" /\ (current # Nil => op'.waits) /\ op'.kind = op.kind
  BY <1>0, <1>2 DEF Hands, Calls
<1>9. Hands'
  BY <1>0, <1>2, <1>3, <1>8 DEF Hands
<1>10. Placement'
  <2>1. Sound(<<>>, <<>>, work.target, InOverlay, fate')
    BY <1>0, <1>2, Cleared DEF gone
  <2>2. InOverlay' = InOverlay
    BY <1>2 DEF InOverlay
  <2> QED BY <1>2, <1>3, <2>1, <2>2 DEF Placement
<1>11. Reservations'
  <2>1. ASSUME NEW r \in Requests, NEW n \in 0 .. Len(Parts[r]), Committed(r, n, fate)
        PROVE  Committed(r, n, fate')
    <3>1. ASSUME NEW k \in 1 .. Len(Parts[r]) PROVE Parts[r][k] \in Items
      BY AudioAssumption, NilFacts
    <3> QED BY <1>4, <1>5, <2>1, <3>1 DEF Committed
  <2>2. line' \in Seq(Requests) /\ IsInjective(line') /\ Range(line') = {}
    BY <1>2, EmptyFacts
  <2> QED BY <2>1, <2>2 DEF AudioInv, Reservations
<1>12. Why'
  <2>1. flags' \subseteq Flags /\ flags' # {} /\ ("skip" \in flags' => "skip" \in flags)
    BY <1>0, <1>2 DEF Why, Flags
  <2> QED BY <1>0, <1>2, <1>3, <2>1 DEF Why
<1>13. Drops'
  BY <1>0, <1>2, <1>5, NilFacts DEF Drops
<1>14. Wiped'
  <2>1. wiped' \subseteq Items
    BY <1>0, <1>2, <1>4, <1>6 DEF Wiped
  <2>2. Range(music') = {} /\ Range(speech') = {}
    BY <1>2, EmptyFacts
  <2>3. overlay.step = "metric" => fate'[overlay.speech] = "heard" /\ fate[overlay.speech] = "heard"
    <3>1. overlay.step = "metric" => overlay.speech \in Items /\ fate[overlay.speech] = "heard"
      BY <1>0, NilFacts DEF Hands, Wiped, Carrying, Overlaid
    <3> QED BY <1>4, <1>5, <3>1
  <2>4. ASSUME NEW i \in gone PROVE fate'[i] # "new" /\ i # overlay.speech /\ work'.target # i
    <3>1. i \in Items /\ fate'[i] = "cleared"
      BY <1>4, <1>5
    <3>2. i # overlay.speech
      BY <1>4, <2>3 DEF InOverlay
    <3> QED BY <1>3, <1>4, <3>1, <3>2
  <2>5. ASSUME NEW i \in ending, i \notin gone PROVE fate'[i] # "new" /\ i # overlay.speech /\ Ending'
    <3>1. i \in Items /\ i = work.target /\ fate[i] \in {"in", "lost"}
      BY <1>0, <1>6, NilFacts DEF Sound
    <3>2. i # overlay.speech
      BY <1>0, <1>6, <2>3, <3>1 DEF InOverlay, Sound
    <3>3. Ending'
      BY <1>2, <1>3, <1>6, <1>8 DEF Ending
    <3> QED BY <1>5, <2>5, <3>1, <3>2, <3>3
  <2>6. ASSUME NEW i \in wiped, i \notin gone, i \notin ending
        PROVE  fate'[i] # "new" /\ i # overlay.speech /\ work'.target # i
    <3>1. ~Ending
      BY <1>2 DEF Ending
    <3> QED BY <1>0, <1>3, <1>5, <2>6, <3>1 DEF Wiped
  <2>7. ASSUME NEW i \in wiped'
        PROVE  /\ fate'[i] # "new" /\ i \notin Range(music') \union Range(speech') /\ i # overlay'.speech
               /\ work'.target = i => Ending'
    BY <1>2, <2>2, <2>4, <2>5, <2>6
  <2> QED BY <1>2, <2>1, <2>3, <2>7 DEF Wiped
<1> QED BY <1>7, <1>9, <1>10, <1>11, <1>12, <1>13, <1>14 DEF AudioInv

-------------------------------------------------------------------------------
(* The end of a round                                                      *)

\* What the worker holds is put somewhere, or nowhere.
LEMMA PlacedFacts ==
  ASSUME Sound(music, speech, work.target, InOverlay, fate), work.target # Nil,
         NEW where, Placed(work.target, where)
  PROVE  /\ where \in {"held", "front", "back"} => Sound(music', speech', Nil, InOverlay, fate)
         /\ where = "nowhere" => UNCHANGED <<music, speech>>
         /\ Range(music') \union Range(speech') \subseteq Range(music) \union Range(speech) \union {work.target}
         /\ wake' \in {TRUE, FALSE, wake}
<1> DEFINE i == work.target
<1>1. i \in Music \/ i \in Speech
  BY NilFacts DEF Sound
<1>2. /\ music' = IF i \in Music
                  THEN CASE where \in {"held", "front"} -> InFront(i, music)
                         [] where = "back" -> Append(music, i)
                         [] OTHER -> music
                  ELSE music
      /\ speech' = IF i \in Speech
                   THEN CASE where \in {"held", "front"} -> InFront(i, speech)
                          [] where = "back" -> Append(speech, i)
                          [] OTHER -> speech
                   ELSE speech
      /\ wake' = CASE where = "held" -> FALSE [] where = "front" -> TRUE [] OTHER -> wake
  BY DEF Placed
<1>3. i \in Music => /\ Range(InFront(i, music)) = Range(music) \union {i}
                     /\ Range(Append(music, i)) = Range(music) \union {i}
                     /\ Sound(InFront(i, music), speech, Nil, InOverlay, fate)
                     /\ Sound(Append(music, i), speech, Nil, InOverlay, fate)
  <2> SUFFICES ASSUME i \in Music
               PROVE  /\ Range(InFront(i, music)) = Range(music) \union {i}
                      /\ Range(Append(music, i)) = Range(music) \union {i}
                      /\ Sound(InFront(i, music), speech, Nil, InOverlay, fate)
                      /\ Sound(Append(music, i), speech, Nil, InOverlay, fate)
    OBVIOUS
  <2>1. music \in Seq(Music)
    BY DEF Sound
  <2>2. /\ Range(InFront(i, music)) = Range(music) \union {i}
        /\ Range(Append(music, i)) = Range(music) \union {i}
    BY <2>1, FrontFacts, AppendFacts
  <2>3. /\ Sound(InFront(i, music), speech, Nil, InOverlay, fate)
        /\ Sound(Append(music, i), speech, Nil, InOverlay, fate)
    BY Given
  <2> QED BY <2>2, <2>3
<1>4. i \in Speech => /\ Range(InFront(i, speech)) = Range(speech) \union {i}
                      /\ Range(Append(speech, i)) = Range(speech) \union {i}
                      /\ Sound(music, InFront(i, speech), Nil, InOverlay, fate)
                      /\ Sound(music, Append(speech, i), Nil, InOverlay, fate)
  <2> SUFFICES ASSUME i \in Speech
               PROVE  /\ Range(InFront(i, speech)) = Range(speech) \union {i}
                      /\ Range(Append(speech, i)) = Range(speech) \union {i}
                      /\ Sound(music, InFront(i, speech), Nil, InOverlay, fate)
                      /\ Sound(music, Append(speech, i), Nil, InOverlay, fate)
    OBVIOUS
  <2>1. speech \in Seq(Speech)
    BY DEF Sound
  <2>2. /\ Range(InFront(i, speech)) = Range(speech) \union {i}
        /\ Range(Append(speech, i)) = Range(speech) \union {i}
    BY <2>1, FrontFacts, AppendFacts
  <2>3. /\ Sound(music, InFront(i, speech), Nil, InOverlay, fate)
        /\ Sound(music, Append(speech, i), Nil, InOverlay, fate)
    BY Given
  <2> QED BY <2>2, <2>3
<1> HIDE DEF i
<1>5. wake' \in {TRUE, FALSE, wake}
  BY <1>2
<1>6. CASE i \in Music
  <2>1. i \notin Speech
    BY <1>6, NilFacts
  <2> QED BY <1>2, <1>3, <1>5, <1>6, <2>1 DEF i
<1>7. CASE i \in Speech
  <2>1. i \notin Music
    BY <1>7, NilFacts
  <2> QED BY <1>2, <1>4, <1>5, <1>7, <2>1 DEF i
<1> QED BY <1>1, <1>6, <1>7

\* Where an item goes follows from what was asked of it and from its failures.
LEMMA WhitherFacts ==
  ASSUME Hands, Placement, Why, work.pc \in Playing,
         NEW outcome \in {"completed", "failed", "refused", "cut"}
  PROVE  LET i == work.target
             where == Whither(i, outcome)
         IN  /\ where \in {"held", "front", "back", "nowhere"}
             /\ where = "back" => i \in Music /\ fate[i] = "in"
             /\ where = "nowhere" => outcome # "cut"
             /\ outcome = "completed" /\ flags \subseteq {"skip", "discard"} => where = "nowhere"
             /\ where = "nowhere" /\ Ended(outcome) = "dropped" /\ i \in Music =>
                    i \in skipped \/ ~(fails[i] + 1 < MaxFailures)
<1> DEFINE i == work.target
           where == Whither(i, outcome)
<1>1. /\ work.quiet => flags # {}
      /\ "skip" \in flags => i \in skipped
      /\ flags \subseteq {"skip", "discard", "suspend", "restart"}
  BY DEF Why, Flags
<1>2. i \in Items /\ fate[i] \in {"in", "lost"} /\ (i \in Music => fate[i] = "in")
  <2>1. i \in Items
    BY NilFacts DEF Hands, Works, Playing, Resting
  <2> QED BY <2>1, NilFacts DEF Placement, Sound
<1>3. /\ where \in {"held", "front", "back", "nowhere"}
      /\ where = "back" => i \in Music
      /\ where = "nowhere" => outcome # "cut"
      /\ outcome = "completed" /\ flags \subseteq {"skip", "discard"} => where = "nowhere"
  BY DEF Whither
<1>4. ASSUME where = "nowhere", Ended(outcome) = "dropped", i \in Music, fails[i] + 1 < MaxFailures
      PROVE  i \in skipped
  <2>1. "discard" \notin flags /\ (outcome # "completed" \/ work.quiet)
    BY <1>4 DEF Ended
  <2>2. /\ outcome # "cut" /\ "suspend" \notin flags
        /\ flags \intersect {"suspend", "restart"} # {"restart"}
        /\ ~(outcome = "failed" /\ flags = {})
        /\ ~(outcome = "refused" /\ flags = {})
    BY <1>4 DEF Whither, Ended
  <2>3. "restart" \notin flags
    BY <2>2
  <2>4. flags # {}
    BY <1>1, <2>1, <2>2
  <2>5. "skip" \in flags
    BY <1>1, <2>1, <2>2, <2>3, <2>4
  <2> QED BY <1>1, <2>5
<1> QED BY <1>2, <1>3, <1>4

LEMMA RetireKeeps ==
  ASSUME AudioInv, work.pc \in Playing, NEW outcome \in {"completed", "failed", "refused", "cut"}, Retire(outcome),
         Ending => outcome = "completed",
         voice' # "playing", voice' \in {"gone", "idle"},
         op' = [op EXCEPT !.waits = FALSE], overlay' \in Overlaid,
         InOverlay' = InOverlay, UNCHANGED overlay.speech,
         overlay'.step \in Carrying <=> overlay'.speech # Nil,
         overlay'.step = "metric" => overlay.step = "metric",
         UNCHANGED <<line, bound, joining, history>>
  PROVE  AudioInv'
<1> DEFINE i == work.target
           where == Whither(i, outcome)
<1>0. Hands /\ Sound(music, speech, i, InOverlay, fate) /\ Wiped /\ Why /\ Drops /\ Placement
  BY DEF AudioInv, Placement
<1>1. /\ current' = Nil /\ started' = FALSE /\ active' = FALSE /\ flags' = {}
      /\ suspended' = (suspended \/ outcome = "cut")
      /\ fails' = IF where = "back" THEN [fails EXCEPT ![i] = @ + 1] ELSE fails
      /\ fate' = IF where = "nowhere" /\ fate[i] = "in"
                 THEN [fate EXCEPT ![i] = Ended(outcome)] ELSE fate
      /\ IF where # "nowhere" /\ ~LockFree
         THEN /\ work' = [work EXCEPT !.pc = "put", !.outcome = where]
              /\ UNCHANGED <<music, speech, wake>>
         ELSE /\ Placed(i, where)
              /\ work' = Idle
  BY DEF Retire
<1>2. i # Nil /\ i \in Items /\ (i \in Music => fate[i] = "in") /\ fate[i] \in {"in", "lost"}
  <2>1. i # Nil /\ i \in Items
    BY <1>0 DEF Hands, Works, Playing, Resting
  <2> QED BY <1>0, <2>1, NilFacts DEF Sound
<1>3. /\ where \in {"held", "front", "back", "nowhere"}
      /\ where = "back" => i \in Music /\ fate[i] = "in"
      /\ outcome = "completed" /\ flags \subseteq {"skip", "discard"} => where = "nowhere"
      /\ where = "nowhere" /\ Ended(outcome) = "dropped" /\ i \in Music =>
             i \in skipped \/ ~(fails[i] + 1 < MaxFailures)
  BY <1>0, WhitherFacts
<1>4. Ended(outcome) \in {"heard", "cleared", "dropped", "refused"}
  BY DEF Ended
<1>5. i \in wiped => Ending /\ where = "nowhere"
  BY <1>0, <1>3 DEF Wiped, Ending
<1> HIDE DEF i, where
<1>6. \/ /\ where \in {"held", "front", "back"} /\ ~LockFree
         /\ work' \in Works /\ work'.pc = "put" /\ work'.outcome = where /\ work'.target = i
         /\ UNCHANGED <<music, speech, wake, fate>>
      \/ /\ where \in {"held", "front", "back"} /\ Placed(i, where)
         /\ work' \in Works /\ work'.pc = "look" /\ work'.target = Nil /\ UNCHANGED fate
      \/ /\ where = "nowhere" /\ Placed(i, where)
         /\ work' \in Works /\ work'.pc = "look" /\ work'.target = Nil
  <2>1. CASE where # "nowhere" /\ ~LockFree
    BY <1>0, <1>1, <1>3, <2>1 DEF Hands, Works, i
  <2>2. CASE where # "nowhere" /\ LockFree
    BY <1>1, <1>3, <2>2, Rests, Zenon DEF Resting
  <2>3. CASE where = "nowhere"
    BY <1>1, <2>3, Rests, Zenon DEF Resting
  <2> QED BY <2>1, <2>2, <2>3
<1>7. /\ where \in {"held", "front", "back"} /\ Placed(i, where) => Sound(music', speech', Nil, InOverlay, fate)
      /\ where = "nowhere" /\ Placed(i, where) => UNCHANGED <<music, speech>>
      /\ Placed(i, where) => Range(music') \union Range(speech') \subseteq Range(music) \union Range(speech) \union {i}
      /\ Placed(i, where) => wake' \in {TRUE, FALSE, wake}
  BY <1>0, <1>2, PlacedFacts DEF i
<1>8. Placement'
  <2>1. CASE where # "nowhere" /\ work'.pc = "put"
    <3>1. UNCHANGED <<music, speech, fate>> /\ work'.target = i
      BY <1>6, <2>1
    <3> QED BY <1>0, <3>1 DEF Placement, i
  <2>2. CASE where # "nowhere" /\ work'.pc # "put"
    <3>1. Placed(i, where) /\ work'.target = Nil /\ UNCHANGED fate /\ where \in {"held", "front", "back"}
      BY <1>6, <2>2
    <3> QED BY <1>7, <3>1 DEF Placement
  <2>3. CASE where = "nowhere"
    <3>1. UNCHANGED <<music, speech>> /\ work'.target = Nil
      BY <1>6, <1>7, <2>3
    <3>2. Sound(music, speech, Nil, InOverlay, fate')
      <4>1. CASE fate[i] = "in"
        <5>1. fate' = [fate EXCEPT ![i] = Ended(outcome)] /\ Ended(outcome) \in Fates \ {"in", "lost"}
          BY <1>1, <1>4, <2>3, <4>1 DEF Fates
        <5> QED BY <1>0, <1>2, <5>1, Given
      <4>2. CASE fate[i] = "lost"
        <5>1. fate' = fate
          BY <1>1, <4>2
        <5> QED BY <1>0, <1>2, <4>2, <5>1, Given
      <4> QED BY <1>2, <4>1, <4>2
    <3> QED BY <3>1, <3>2 DEF Placement
  <2> QED BY <2>1, <2>2, <2>3
<1>9. \A j \in Items : /\ fate'[j] = "new" <=> fate[j] = "new"
                       /\ fate'[j] # fate[j] => j = i /\ where = "nowhere" /\ fate'[i] = Ended(outcome)
  BY <1>0, <1>1, <1>2, <1>4 DEF Sound
<1>10. AudioTypeOK'
  <2>1. music' \in Seq(Music) /\ speech' \in Seq(Speech) /\ fate' \in [Items -> Fates]
    BY <1>8 DEF Placement, Sound
  <2>2. wake' \in BOOLEAN /\ suspended' \in BOOLEAN
    <3>1. wake' \in {TRUE, FALSE, wake}
      BY <1>6, <1>7
    <3> QED BY <1>1, <3>1 DEF AudioInv, AudioTypeOK
  <2> QED BY <1>1, <2>1, <2>2 DEF AudioInv, AudioTypeOK
<1>11. Hands'
  <2>1. op' \in Calls
    BY <1>0 DEF Hands, Calls
  <2>2. work' \in Works /\ work'.pc \in {"put", "look"} /\ (work'.pc = "look" <=> work'.target = Nil)
        /\ (work'.pc = "put" => work'.outcome \in {"held", "front", "back"})
    BY <1>2, <1>6
  <2> QED BY <1>1, <2>1, <2>2 DEF Hands, Resting, Playing
<1>12. Reservations'
  BY <1>9, ReservationsStay, NilFacts DEF AudioInv
<1>13. Why'
  <2>1. work'.pc \notin Playing /\ flags' = {}
    BY <1>1, <1>6 DEF Playing
  <2> QED BY <2>1 DEF Why
<1>14. Drops'
  <2>1. fails' \in [Music -> Nat] /\ \A m \in Music : m # i \/ where # "back" => fails'[m] = fails[m]
    BY <1>0, <1>1, <1>3 DEF Drops
  <2>2. ASSUME NEW m \in Music, fate'[m] = "dropped", fails'[m] + 1 < MaxFailures PROVE m \in skipped
    <3>1. CASE fate[m] = "dropped"
      <4>1. m # i
        BY <1>2, <3>1
      <4> QED BY <1>0, <2>1, <2>2, <3>1, <4>1 DEF Drops
    <3>2. CASE fate[m] # "dropped"
      <4>1. m = i /\ where = "nowhere" /\ Ended(outcome) = "dropped"
        BY <1>9, <2>2, <3>2, NilFacts
      <4> QED BY <1>3, <2>1, <2>2, <4>1
    <3> QED BY <3>1, <3>2
  <2> QED BY <2>1, <2>2 DEF Drops, history
<1>15. Wiped'
  <2>1. ASSUME NEW j \in wiped PROVE fate'[j] # "new"
    BY <1>0, <1>9 DEF Wiped
  <2>2. ASSUME NEW j \in wiped, j \in Range(music') \union Range(speech')
        PROVE  j \in Range(music) \union Range(speech)
    <3>1. j = i => UNCHANGED <<music, speech>>
      BY <1>5, <1>6, <1>7
    <3>2. j # i => j \in Range(music) \union Range(speech)
      BY <1>6, <1>7, <2>2
    <3> QED BY <2>2, <3>1, <3>2
  <2>3. overlay'.step = "metric" => fate'[overlay'.speech] = "heard"
    <3>1. ASSUME overlay'.step = "metric" PROVE fate'[overlay'.speech] = "heard"
      <4>1. overlay.step = "metric" /\ overlay'.speech \in Items /\ fate[overlay'.speech] = "heard"
        BY <1>0, <3>1, NilFacts DEF Wiped, Overlaid, Carrying
      <4>2. overlay'.speech # i
        BY <1>2, <4>1
      <4> QED BY <1>9, <4>1, <4>2
    <3> QED BY <3>1
  <2>4. work'.target \in {Nil, work.target} /\ work'.target \notin wiped
    <3>1. Nil \notin wiped
      BY <1>0, NilFacts DEF Wiped
    <3> QED BY <1>5, <1>6, <3>1 DEF i
  <2> QED BY <1>0, <2>1, <2>2, <2>3, <2>4, WipedStays DEF history
<1> QED BY <1>8, <1>10, <1>11, <1>12, <1>13, <1>14, <1>15 DEF AudioInv

LEMMA CancelledKeeps == ASSUME AudioInv, Cancelled PROVE AudioInv'
<1>1. /\ work.pc = "cancelling" /\ overlay.step = "dead" /\ Retire(work.outcome) /\ overlay' = NoOverlay
      /\ op' = [op EXCEPT !.waits = FALSE] /\ UNCHANGED <<line, bound, voice, joining, history>>
  BY DEF Cancelled
<1>2. Hands
  BY DEF AudioInv
<1>3. work.pc \in Playing /\ work.outcome \in {"completed", "failed", "refused", "cut"} /\ voice # "playing"
      /\ overlay.speech = Nil /\ voice \in {"gone", "idle"}
  BY <1>1, <1>2 DEF Hands, Playing, Carrying, AudioInv, AudioTypeOK
<1>4. Ending => work.outcome = "completed"
  BY <1>1 DEF Ending
<1>5. /\ overlay' \in Overlaid /\ overlay'.step = "none" /\ overlay'.speech = Nil
      /\ overlay'.step \notin Carrying
  BY <1>1 DEF NoOverlay, Overlaid, Steps, Carrying
<1>6. InOverlay' = InOverlay
  BY <1>1, <1>3, <1>5 DEF InOverlay
<1> QED BY <1>1, <1>3, <1>4, <1>5, <1>6, RetireKeeps

\* The round ends, or waits for the overlay task to die first.
LEMMA FinallyKeeps ==
  ASSUME AudioInv, work.pc \in Playing, NEW outcome \in {"completed", "failed", "refused", "cut"}, Finally(outcome),
         Ending => outcome = "completed",
         voice' # "playing", voice' \in {"gone", "idle"},
         UNCHANGED <<line, bound, joining, history>>
  PROVE  AudioInv'
<1>0. Hands
  BY DEF AudioInv
<1>1. CASE overlay.step # "none" /\ (outcome = "completed" \/ ~work.resolved)
  <2>1. /\ overlay' = [overlay EXCEPT !.cut = TRUE]
        /\ work' = [work EXCEPT !.pc = "cancelling", !.outcome = outcome]
        /\ UNCHANGED <<round, started, op>>
    BY <1>1 DEF Finally
  <2>2. /\ overlay' \in Overlaid /\ UNCHANGED <<overlay.step, overlay.speech>>
        /\ work' \in Works /\ work'.pc = "cancelling" /\ work'.outcome = outcome
        /\ UNCHANGED <<work.target, work.quiet, work.over>>
    BY <1>0, <2>1 DEF Hands, Overlaid, Works, Playing
  <2>3. InOverlay' = InOverlay
    BY <2>2 DEF InOverlay
  <2>4. AudioTypeOK'
    BY <2>1 DEF AudioInv, AudioTypeOK, round
  <2>5. work'.pc \in Playing /\ work'.pc \notin Resting /\ work.pc \notin Resting
    BY <2>2 DEF Playing, Resting
  <2>6. Hands'
    BY <1>0, <2>1, <2>2, <2>5 DEF Hands, round
  <2>7. Ending => Ending'
    BY <2>1, <2>2 DEF Ending, round
  <2> QED BY <2>1, <2>2, <2>3, <2>4, <2>5, <2>6, <2>7, Unmoved DEF round, history
<1>2. CASE ~(overlay.step # "none" /\ (outcome = "completed" \/ ~work.resolved))
  <2>1. /\ Retire(outcome) /\ overlay' = [overlay EXCEPT !.same = FALSE]
        /\ op' = [op EXCEPT !.waits = FALSE]
    BY <1>2 DEF Finally
  <2>2. overlay' \in Overlaid /\ UNCHANGED <<overlay.step, overlay.speech>>
    BY <1>0, <2>1 DEF Hands, Overlaid
  <2>3. InOverlay' = InOverlay /\ (overlay'.step \in Carrying <=> overlay'.speech # Nil)
    BY <1>0, <2>2 DEF InOverlay, Hands
  <2> QED BY <2>1, <2>2, <2>3, RetireKeeps
<1> QED BY <1>1, <1>2

\* The worker goes on with the item it holds.
LEMMA GoesOn ==
  ASSUME AudioInv, work.pc \in Playing, work' \in Works, work'.pc \in {"prepare", "ready"},
         UNCHANGED <<work.target, work.quiet>>, ~Ending,
         overlay' \in Overlaid, UNCHANGED <<overlay.step, overlay.speech>>, op' \in Calls,
         voice' # "playing", voice' \in {"gone", "idle"},
         UNCHANGED <<round, started, line, bound, joining, history>>
  PROVE  AudioInv'
<1>1. work'.pc \in Playing /\ work'.pc \notin Resting /\ work.pc \notin Resting
      /\ work'.pc \notin {"cancelling", "put"}
  BY DEF Playing, Resting
<1>2. InOverlay' = InOverlay
  BY DEF InOverlay
<1>3. AudioTypeOK'
  BY DEF AudioInv, AudioTypeOK, round
<1>4. Hands'
  BY <1>1 DEF AudioInv, Hands, round
<1> QED BY <1>1, <1>2, <1>3, <1>4, Unmoved DEF round, history

LEMMA AttemptKeeps ==
  ASSUME AudioInv, work.pc \in Playing, NEW pc \in {"prepare", "ready"}, NEW tries \in Nat, Attempt(pc, tries),
         ~Ending, voice' # "playing", voice' \in {"gone", "idle"},
         UNCHANGED <<line, bound, joining, history>>
  PROVE  AudioInv'
<1>1. /\ work' = [work EXCEPT !.pc = pc, !.tries = tries] /\ UNCHANGED <<round, started, overlay, op>>
  BY DEF Attempt
<1>2. work \in Works /\ overlay \in Overlaid /\ op \in Calls
  BY DEF AudioInv, Hands
<1>3. work' \in Works /\ work'.pc = pc /\ UNCHANGED <<work.target, work.quiet>>
  BY <1>1, <1>2 DEF Works, Playing
<1> QED BY <1>1, <1>2, <1>3, GoesOn

LEMMA AttemptFailsKeeps ==
  ASSUME AudioInv, work.pc \in Playing, NEW error \in {"failed", "refused"}, AttemptFails(error),
         ~Ending, voice' # "playing", voice' \in {"gone", "idle"},
         UNCHANGED <<line, bound, joining, history>>
  PROVE  AudioInv'
<1>1. \/ \E outcome \in {"cut", "failed", "refused"} : Finally(outcome)
      \/ \E pc \in {"prepare", "ready"} : Attempt(pc, work.tries + 1)
  BY DEF AttemptFails
<1>2. work.tries + 1 \in Nat
  BY DEF AudioInv, Hands, Works
<1>3. ASSUME NEW outcome \in {"cut", "failed", "refused"}, Finally(outcome) PROVE AudioInv'
  BY <1>3, FinallyKeeps
<1>4. ASSUME NEW pc \in {"prepare", "ready"}, Attempt(pc, work.tries + 1) PROVE AudioInv'
  BY <1>2, <1>4, AttemptKeeps
<1> QED BY <1>1, <1>3, <1>4

-------------------------------------------------------------------------------
(* The worker plays                                                        *)

\* Outside of the playback itself nothing plays, and no clear waits for its end.
LEMMA Silences ==
  ASSUME AudioInv
  PROVE  /\ work.pc \in {"begin", "prepare", "ready"} => ~Ending /\ voice # "playing" /\ voice \in {"gone", "idle"}
         /\ Silent # "playing" /\ Silent \in {"gone", "idle"}
BY DEF AudioInv, AudioTypeOK, Hands, Ending, Silent

LEMMA BeginKeeps == ASSUME AudioInv, Begin PROVE AudioInv'
<1>1. work.pc = "begin" /\ UNCHANGED <<voice, line, bound, joining, history>>
  BY DEF Begin, rest
<1>2. \/ Finally("cut")
      \/ Attempt("ready", 1)
      \/ Attempt("prepare", 1)
  BY DEF Begin
<1>3. work.pc \in Playing
  BY <1>1 DEF Playing
<1> QED BY <1>1, <1>2, <1>3, Silences, FinallyKeeps, AttemptKeeps

LEMMA ResolvedKeeps == ASSUME AudioInv, Resolved PROVE AudioInv'
<1>0. Hands
  BY DEF AudioInv
<1>1. /\ work.pc = "prepare" /\ work' = [work EXCEPT !.pc = "ready", !.resolved = TRUE]
      /\ overlay' = [overlay EXCEPT !.same = FALSE] /\ op' = [op EXCEPT !.waits = FALSE]
      /\ UNCHANGED <<round, started, voice, line, bound, joining, history>>
  BY DEF Resolved, rest
<1>2. /\ work' \in Works /\ work'.pc = "ready" /\ UNCHANGED <<work.target, work.quiet>>
      /\ overlay' \in Overlaid /\ UNCHANGED <<overlay.step, overlay.speech>> /\ op' \in Calls
      /\ work.pc \in Playing
  BY <1>0, <1>1 DEF Hands, Works, Overlaid, Calls, Playing
<1> QED BY <1>1, <1>2, Silences, GoesOn

LEMMA ResolveFailsKeeps == ASSUME AudioInv, ResolveFails PROVE AudioInv'
<1>1. work.pc = "prepare" /\ (AttemptFails("failed") \/ AttemptFails("refused"))
      /\ UNCHANGED <<voice, line, bound, joining, history>>
  BY DEF ResolveFails, rest
<1>2. work.pc \in Playing
  BY <1>1 DEF Playing
<1> QED BY <1>1, <1>2, Silences, AttemptFailsKeeps

LEMMA PlayKeeps == ASSUME AudioInv, Play PROVE AudioInv'
<1>0. Hands
  BY DEF AudioInv
<1>1. work.pc = "ready" /\ UNCHANGED <<line, bound, joining, history>> /\ work.pc \in Playing
  BY DEF Play, rest, Playing
<1>2. \/ Finally("cut") /\ UNCHANGED voice
      \/ AttemptFails("failed") /\ UNCHANGED voice
      \/ /\ voice' = "playing" /\ started' = FALSE
         /\ work' = [work EXCEPT !.pc = "starting", !.quiet = FALSE, !.over = FALSE]
         /\ UNCHANGED <<round, overlay, op>>
  BY DEF Play
<1>3. CASE Finally("cut") /\ UNCHANGED voice
  BY <1>1, <1>3, Silences, FinallyKeeps
<1>4. CASE AttemptFails("failed") /\ UNCHANGED voice
  BY <1>1, <1>4, Silences, AttemptFailsKeeps
<1>5. CASE /\ voice' = "playing" /\ started' = FALSE
           /\ work' = [work EXCEPT !.pc = "starting", !.quiet = FALSE, !.over = FALSE]
           /\ UNCHANGED <<round, overlay, op>>
  <2>1. work' \in Works /\ work'.pc = "starting" /\ UNCHANGED work.target /\ work'.quiet = FALSE
    BY <1>0, <1>5 DEF Hands, Works, Playing
  <2>2. work'.pc \in Playing /\ work'.pc \notin Resting /\ work.pc \notin Resting
    BY <1>1, <2>1 DEF Playing, Resting
  <2>3. AudioTypeOK'
    BY <1>1, <1>5 DEF AudioInv, AudioTypeOK, round
  <2>4. Hands'
    BY <1>0, <1>1, <1>5, <2>1, <2>2 DEF Hands, round
  <2>5. InOverlay' = InOverlay
    BY <1>5 DEF InOverlay
  <2> QED BY <1>1, <1>5, <2>1, <2>2, <2>3, <2>4, <2>5, Silences, Unmoved DEF round, history
<1> QED BY <1>2, <1>3, <1>4, <1>5

LEMMA CompletedKeeps == ASSUME AudioInv, Completed PROVE AudioInv'
<1>1. work.pc = "play" /\ Finally("completed") /\ voice' = Silent /\ UNCHANGED <<line, bound, joining, history>>
  BY DEF Completed, rest
<1>2. work.pc \in Playing
  BY <1>1 DEF Playing
<1> QED BY <1>1, <1>2, Silences, FinallyKeeps

\* A track ends early, or its playback fails, only when nobody stopped it.
LEMMA EarlyEndKeeps == ASSUME AudioInv, EarlyEnd PROVE AudioInv'
<1>0. Hands
  BY DEF AudioInv
<1>1. /\ work.pc = "play" /\ ~work.quiet /\ voice' = Silent /\ UNCHANGED <<line, bound, joining, history>>
      /\ work.pc \in Playing
  BY DEF EarlyEnd, rest, Playing
<1>2. ~Ending
  BY <1>1 DEF Ending
<1>3. \/ \E outcome \in {"cut", "failed", "refused"} : Finally(outcome)
      \/ /\ work' = [work EXCEPT !.pc = "prepare", !.eof = TRUE]
         /\ UNCHANGED <<round, started, overlay, op>>
  BY DEF EarlyEnd
<1>4. ASSUME NEW outcome \in {"cut", "failed", "refused"}, Finally(outcome) PROVE AudioInv'
  BY <1>1, <1>2, <1>4, Silences, FinallyKeeps
<1>5. CASE /\ work' = [work EXCEPT !.pc = "prepare", !.eof = TRUE]
           /\ UNCHANGED <<round, started, overlay, op>>
  <2>1. work' \in Works /\ work'.pc = "prepare" /\ UNCHANGED <<work.target, work.quiet>>
    BY <1>0, <1>5 DEF Hands, Works, Playing
  <2>2. overlay' \in Overlaid /\ op' \in Calls
    BY <1>0, <1>5 DEF Hands
  <2> QED BY <1>1, <1>2, <1>5, <2>1, <2>2, Silences, GoesOn
<1> QED BY <1>3, <1>4, <1>5

LEMMA PlayFailsKeeps == ASSUME AudioInv, PlayFails PROVE AudioInv'
<1>1. /\ work.pc = "play" /\ ~work.over /\ AttemptFails("failed") /\ voice' = Silent
      /\ UNCHANGED <<line, bound, joining, history>> /\ work.pc \in Playing
  BY DEF PlayFails, rest, Playing
<1>2. ~Ending
  BY <1>1 DEF Ending
<1> QED BY <1>1, <1>2, Silences, AttemptFailsKeeps

\* The worker's steps that leave its item in its hand.
LEMMA WorkFacts ==
  ASSUME AudioInv, UNCHANGED work \/ (work.pc = "starting" /\ work' = [work EXCEPT !.pc = "play"])
  PROVE  /\ work' \in Works /\ UNCHANGED <<work.target, work.quiet, work.over, work.outcome>>
         /\ work'.pc \in Playing <=> work.pc \in Playing
         /\ work'.pc \in Resting <=> work.pc \in Resting
         /\ \A pc \in {"cancelling", "put"} : work'.pc = pc <=> work.pc = pc
         /\ work'.pc \in {"starting", "play"} <=> work.pc \in {"starting", "play"}
<1>1. work \in Works
  BY DEF AudioInv, Hands
<1>2. CASE work' = work
  BY <1>1, <1>2
<1>3. CASE work.pc = "starting" /\ work' = [work EXCEPT !.pc = "play"]
  BY <1>1, <1>3 DEF Works, Playing, Resting
<1> QED BY <1>2, <1>3

\* The overlay task takes the head of the queue.
LEMMA MixesHead ==
  ASSUME AudioInv, UNCHANGED work \/ (work.pc = "starting" /\ work' = [work EXCEPT !.pc = "play"]),
         speech # <<>>, InOverlay = Nil, speech' = Tail(speech),
         overlay' \in Overlaid, overlay'.speech = Head(speech), overlay'.step \in Carrying \ {"metric"},
         started' \in BOOLEAN, active' \in BOOLEAN,
         UNCHANGED <<music, current, flags, suspended, wake, fate, fails, voice, op, line, bound, joining, history>>
  PROVE  AudioInv'
<1>0. Hands /\ Sound(music, speech, work.target, InOverlay, fate) /\ Wiped
  BY DEF AudioInv, Placement
<1>1. /\ work' \in Works /\ UNCHANGED <<work.target, work.quiet, work.over, work.outcome>>
      /\ work'.pc \in Playing <=> work.pc \in Playing
      /\ work'.pc \in Resting <=> work.pc \in Resting
      /\ \A pc \in {"cancelling", "put"} : work'.pc = pc <=> work.pc = pc
      /\ work'.pc \in {"starting", "play"} <=> work.pc \in {"starting", "play"}
  BY WorkFacts
<1>2. Sound(music, Tail(speech), work.target, Head(speech), fate)
  BY <1>0, Taken
<1>3. InOverlay' = Head(speech)
  BY DEF InOverlay
<1>4. Placement'
  BY <1>1, <1>2, <1>3 DEF Placement
<1>5. /\ Head(speech) \in Range(speech) /\ Head(speech) \in Speech /\ Head(speech) # Nil
      /\ Range(speech') \subseteq Range(speech) /\ speech' \in Seq(Speech)
  BY <1>0, TailFacts, NilFacts DEF Sound
<1>6. AudioTypeOK'
  BY <1>5 DEF AudioInv, AudioTypeOK
<1>7. Hands'
  <2>1. overlay'.step \in Carrying /\ overlay'.speech # Nil
    BY <1>5
  <2> QED BY <1>0, <1>1, <2>1 DEF Hands
<1>8. Reservations'
  BY ReservationsStay DEF AudioInv
<1>9. Why'
  BY <1>1, WhyStays DEF AudioInv, history
<1>10. Drops'
  BY DropsStay DEF AudioInv, history
<1>11. Wiped'
  <2>1. Ending => Ending'
    BY <1>1 DEF Ending
  <2> QED BY <1>0, <1>1, <1>5, <2>1, WipedStays DEF history, Wiped
<1> QED BY <1>4, <1>6, <1>7, <1>8, <1>9, <1>10, <1>11 DEF AudioInv

LEMMA MixesFacts ==
  ASSUME NEW s \in Speech
  PROVE  /\ Mixes(s) \in Overlaid /\ Mixes(s).speech = s /\ Mixes(s).step = "new"
         /\ Mixes(s).step \in Carrying \ {"metric"}
         /\ NoOverlay \in Overlaid /\ NoOverlay.speech = Nil /\ NoOverlay.step = "none"
         /\ NoOverlay.step \notin Carrying
BY DEF Mixes, NoOverlay, Overlaid, Steps, Carrying

LEMMA StartedKeeps == ASSUME AudioInv, Started PROVE AudioInv'
<1>0. Hands
  BY DEF AudioInv
<1>1. /\ work.pc = "starting" /\ started' = TRUE /\ work' = [work EXCEPT !.pc = "play"]
      /\ UNCHANGED <<music, current, flags, suspended, wake, fate, fails, op, voice, line, bound, joining, history>>
  BY DEF Started, rest
<1>2. CASE /\ overlay.step = "none" /\ speech # <<>>
           /\ overlay' = Mixes(Head(speech)) /\ active' = TRUE
           /\ speech' = Tail(speech)
  <2>1. Head(speech) \in Speech
    BY <1>2 DEF AudioInv, AudioTypeOK
  <2>2. InOverlay = Nil
    BY <1>0, <1>2 DEF InOverlay, Hands, Carrying
  <2> QED BY <1>1, <1>2, <2>1, <2>2, MixesFacts, MixesHead
<1>3. CASE UNCHANGED <<overlay, active, speech>>
  <2>1. /\ work' \in Works /\ UNCHANGED <<work.target, work.quiet, work.over, work.outcome>>
        /\ work'.pc \in Playing <=> work.pc \in Playing
        /\ work'.pc \in Resting <=> work.pc \in Resting
        /\ \A pc \in {"cancelling", "put"} : work'.pc = pc <=> work.pc = pc
        /\ work'.pc \in {"starting", "play"} <=> work.pc \in {"starting", "play"}
    BY <1>1, WorkFacts
  <2>2. AudioTypeOK' /\ InOverlay' = InOverlay
    BY <1>1, <1>3 DEF AudioInv, AudioTypeOK, InOverlay
  <2>3. Hands'
    BY <1>0, <1>1, <1>3, <2>1 DEF Hands
  <2>4. Ending => Ending'
    BY <1>1, <2>1 DEF Ending
  <2> QED BY <1>1, <1>3, <2>1, <2>2, <2>3, <2>4, Unmoved DEF history
<1> QED BY <1>2, <1>3 DEF Started

LEMMA PutBackKeeps == ASSUME AudioInv, PutBack PROVE AudioInv'
<1>0. Hands /\ Sound(music, speech, work.target, InOverlay, fate) /\ Wiped
  BY DEF AudioInv, Placement
<1>1. /\ work.pc = "put" /\ Placed(work.target, work.outcome) /\ work' = Idle
      /\ UNCHANGED <<line, current, started, active, flags, suspended, bound, voice, overlay, op, joining,
                     fate, fails, history>>
  BY DEF PutBack
<1>2. work.target # Nil /\ work.outcome \in {"held", "front", "back"} /\ work.target \notin wiped
      /\ voice # "playing" /\ current = Nil
  BY <1>0, <1>1 DEF Hands, Wiped, Ending, Resting, Playing
<1>3. /\ Sound(music', speech', Nil, InOverlay, fate)
      /\ Range(music') \union Range(speech') \subseteq Range(music) \union Range(speech) \union {work.target}
      /\ wake' \in {TRUE, FALSE, wake}
  BY <1>0, <1>1, <1>2, PlacedFacts
<1>4. work' \in Works /\ work'.pc = "look" /\ work'.target = Nil
  BY <1>1, Rests DEF Resting
<1>5. Placement' /\ music' \in Seq(Music) /\ speech' \in Seq(Speech)
  <2>1. InOverlay' = InOverlay
    BY <1>1 DEF InOverlay
  <2> QED BY <1>1, <1>3, <1>4, <2>1 DEF Placement, Sound
<1>6. AudioTypeOK'
  BY <1>1, <1>3, <1>5 DEF AudioInv, AudioTypeOK
<1>7. Hands'
  BY <1>0, <1>1, <1>2, <1>4 DEF Hands, Resting, Playing
<1>8. Reservations'
  BY <1>1, ReservationsStay DEF AudioInv
<1>9. Why' /\ Drops'
  <2>1. work'.pc \notin Playing
    BY <1>4 DEF Playing
  <2> QED BY <1>1, <2>1, WhyStays, DropsStay DEF AudioInv, history
<1>10. Wiped'
  BY <1>0, <1>1, <1>2, <1>3, <1>4, WipedStays, NilFacts DEF history, Wiped
<1> QED BY <1>5, <1>6, <1>7, <1>8, <1>9, <1>10 DEF AudioInv

LEMMA NextItemKeeps == ASSUME AudioInv, NextItem PROVE AudioInv'
<1>0. Hands /\ Sound(music, speech, work.target, InOverlay, fate) /\ Wiped
  BY DEF AudioInv, Placement
<1>1. /\ work.pc = "look"
      /\ UNCHANGED <<line, suspended, bound, voice, overlay, op, joining, fate, fails, history>>
  BY DEF NextItem
<1>2. work.target = Nil /\ voice # "playing" /\ ~Ending
  BY <1>0, <1>1 DEF Hands, Ending, Resting
<1>3. InOverlay' = InOverlay
  BY <1>1 DEF InOverlay
<1>4. /\ music # <<>> => /\ Sound(Tail(music), speech, Head(music), InOverlay, fate)
                         /\ Head(music) \in Range(music) /\ Range(Tail(music)) \subseteq Range(music)
      /\ speech # <<>> => /\ Sound(music, Tail(speech), Head(speech), InOverlay, fate)
                          /\ Head(speech) \in Range(speech) /\ Range(Tail(speech)) \subseteq Range(speech)
  <2>1. ASSUME music # <<>>
        PROVE  Head(music) \in Range(music) /\ Range(Tail(music)) \subseteq Range(music)
    BY <1>0, <2>1, TailFacts DEF Sound
  <2>2. ASSUME speech # <<>>
        PROVE  Head(speech) \in Range(speech) /\ Range(Tail(speech)) \subseteq Range(speech)
    BY <1>0, <2>2, TailFacts DEF Sound
  <2> QED BY <1>0, <1>2, <2>1, <2>2, Taken
<1>5. ASSUME NEW i, Take(i), Sound(music', speech', i, InOverlay, fate), i # Nil,
             i \in Range(music) \union Range(speech),
             Range(music') \union Range(speech') \subseteq Range(music) \union Range(speech)
      PROVE  AudioInv'
  <2>1. /\ current' = i /\ started' = FALSE /\ active' = (i \in Speech) /\ flags' = {}
        /\ work' = [Idle EXCEPT !.pc = "begin", !.target = i, !.tries = 1]
        /\ UNCHANGED wake
    BY <1>5 DEF Take
  <2>2. i \in Items
    BY <1>5 DEF Sound
  <2>3. work' \in Works /\ work'.pc = "begin" /\ work'.target = i /\ work'.quiet = FALSE
    BY <2>1, <2>2 DEF Idle, Works, Playing
  <2>4. Placement' /\ music' \in Seq(Music) /\ speech' \in Seq(Speech)
    BY <1>1, <1>3, <1>5, <2>3 DEF Placement, Sound
  <2>5. AudioTypeOK'
    <3>1. active' \in BOOLEAN
      <4>1. (i \in Speech) \in BOOLEAN
        OBVIOUS
      <4> QED BY <2>1, <4>1, Zenon
    <3>2. started' \in BOOLEAN /\ flags' \subseteq Flags /\ current' \in Items \union {Nil}
      BY <2>1, <2>2
    <3> QED BY <1>1, <2>1, <2>4, <3>1, <3>2 DEF AudioInv, AudioTypeOK
  <2>6. Hands'
    BY <1>0, <1>1, <1>2, <1>5, <2>1, <2>3 DEF Hands, Resting, Playing
  <2>7. Reservations'
    BY <1>1, ReservationsStay DEF AudioInv
  <2>8. Why'
    BY <2>1, <2>3 DEF Why
  <2>9. Drops'
    BY <1>1, DropsStay DEF AudioInv, history
  <2>10. Wiped'
    BY <1>0, <1>1, <1>2, <1>5, <2>3, WipedStays DEF history, Wiped
  <2> QED BY <2>4, <2>5, <2>6, <2>7, <2>8, <2>9, <2>10 DEF AudioInv
<1>6. CASE /\ speech # <<>> /\ Take(Head(speech)) /\ speech' = Tail(speech) /\ UNCHANGED music
  <2>1. Head(speech) # Nil
    BY <1>0, <1>4, <1>6, NilFacts, SeqOver DEF Sound
  <2> QED BY <1>4, <1>5, <1>6, <2>1
<1>7. CASE /\ music # <<>> /\ Take(Head(music)) /\ music' = Tail(music) /\ UNCHANGED speech
  <2>1. Head(music) # Nil
    BY <1>0, <1>4, <1>7, NilFacts, SeqOver DEF Sound
  <2> QED BY <1>4, <1>5, <1>7, <2>1
<1>8. CASE /\ wake' = FALSE /\ work' = Sleeps
           /\ UNCHANGED <<music, speech, current, started, active, flags>>
  <2>1. work' \in Works /\ work'.pc \in Resting /\ work'.target = Nil /\ work.pc \in Resting
    BY <1>1, <1>8, Rests DEF Sleeps, Resting
  <2>2. AudioTypeOK'
    BY <1>1, <1>8 DEF AudioInv, AudioTypeOK
  <2> QED BY <1>1, <1>8, <2>1, <2>2, RestKeeps DEF queues
<1> QED BY <1>6, <1>7, <1>8 DEF NextItem

-------------------------------------------------------------------------------
(* What is queued                                                          *)

LEMMA EnqueueKeeps == ASSUME AudioInv, NEW m \in Music, EnqueueMusic(m) PROVE AudioInv'
<1>0. Hands /\ Sound(music, speech, work.target, InOverlay, fate) /\ Wiped
  BY DEF AudioInv, Placement
<1>1. /\ fate[m] = "new" /\ music' = Append(music, m) /\ fate' = [fate EXCEPT ![m] = "in"] /\ wake' = TRUE
      /\ UNCHANGED <<speech, line, current, started, active, flags, suspended, bound,
                     voice, work, overlay, op, joining, fails, history>>
  BY DEF EnqueueMusic
<1>2. m \in Items /\ m \notin Speech /\ m \notin wiped
  BY <1>0, <1>1, NilFacts DEF Wiped
<1>3. Sound(music', speech, work.target, InOverlay, fate')
  BY <1>0, <1>1, <1>2, Enters
<1>4. Range(music') = Range(music) \union {m}
  BY <1>0, <1>1, AppendFacts DEF Sound
<1>5. \A i \in Items : i # m => fate'[i] = fate[i]
  BY <1>0, <1>1 DEF Sound
<1>6. Placement'
  <2>1. InOverlay' = InOverlay
    BY <1>1 DEF InOverlay
  <2> QED BY <1>1, <1>3, <2>1 DEF Placement
<1>7. AudioTypeOK'
  BY <1>1, <1>3 DEF AudioInv, AudioTypeOK, Sound
<1>8. Hands'
  BY <1>0, <1>1 DEF Hands
<1>9. Reservations'
  BY <1>1, <1>2, <1>5, ReservationsStay, NilFacts DEF AudioInv
<1>10. Why'
  BY <1>1, WhyStays DEF AudioInv, history
<1>11. Drops'
  <2>1. fate'[m] = "in"
    BY <1>0, <1>1, <1>2 DEF Sound
  <2> QED BY <1>1, <1>5, <2>1, DropsStay, NilFacts DEF AudioInv, history
<1>12. Wiped'
  <2>1. \A i \in wiped : i \in Items /\ i # m /\ fate[i] # "new"
    BY <1>0, <1>2 DEF Wiped
  <2>2. overlay.step = "metric" => fate'[overlay.speech] = "heard"
    <3>1. overlay.step = "metric" => overlay.speech \in Items /\ fate[overlay.speech] = "heard"
      BY <1>0, NilFacts DEF Hands, Wiped, Carrying, Overlaid
    <3> QED BY <1>1, <1>5, <3>1
  <2>3. Ending => Ending'
    BY <1>1 DEF Ending
  <2> QED BY <1>0, <1>1, <1>4, <1>5, <2>1, <2>2, <2>3, WipedStays DEF history
<1> QED BY <1>6, <1>7, <1>8, <1>9, <1>10, <1>11, <1>12 DEF AudioInv

LEMMA RemoveKeeps == ASSUME AudioInv, NEW n \in DOMAIN music, RemoveMusic(n) PROVE AudioInv'
<1> DEFINE m == music[n]
<1>0. Hands /\ Sound(music, speech, work.target, InOverlay, fate) /\ Wiped
  BY DEF AudioInv, Placement
<1>1. /\ music' = RemoveAt(music, n) /\ fate' = [fate EXCEPT ![m] = "cleared"]
      /\ UNCHANGED <<speech, line, current, started, active, flags, suspended, bound, wake,
                     voice, work, overlay, op, joining, fails, history>>
  BY DEF RemoveMusic, session
<1>2. m \in Items /\ m \in Music /\ m \notin Speech /\ m \in Range(music)
  BY <1>0, NilFacts DEF Sound, Range
<1>3. Sound(music', speech, work.target, InOverlay, fate')
  BY <1>0, <1>1, Removed
<1>4. Range(music') \subseteq Range(music)
  BY <1>0, <1>1, RemoveAtFacts DEF Sound
<1>5. \A i \in Items : fate'[i] = IF i = m THEN "cleared" ELSE fate[i]
  BY <1>0, <1>1, <1>2 DEF Sound
<1> HIDE DEF m
<1>6. Placement'
  <2>1. InOverlay' = InOverlay
    BY <1>1 DEF InOverlay
  <2> QED BY <1>1, <1>3, <2>1 DEF Placement
<1>7. AudioTypeOK'
  BY <1>1, <1>3 DEF AudioInv, AudioTypeOK, Sound
<1>8. Hands'
  BY <1>0, <1>1 DEF Hands
<1>9. Reservations'
  BY <1>1, <1>2, <1>5, ReservationsStay, NilFacts DEF AudioInv
<1>10. Why'
  BY <1>1, WhyStays DEF AudioInv, history
<1>11. Drops'
  BY <1>1, <1>5, DropsStay, NilFacts DEF AudioInv, history
<1>12. Wiped'
  <2>1. \A i \in wiped : i \in Items /\ fate[i] # "new"
    BY <1>0 DEF Wiped
  <2>2. overlay.step = "metric" => fate'[overlay.speech] = "heard"
    <3>1. overlay.step = "metric" => overlay.speech \in Speech /\ fate[overlay.speech] = "heard"
      BY <1>0, NilFacts DEF Hands, Wiped, Carrying, Overlaid
    <3> QED BY <1>1, <1>2, <1>5, <3>1, NilFacts
  <2>3. Ending => Ending'
    BY <1>1 DEF Ending
  <2> QED BY <1>0, <1>1, <1>4, <1>5, <2>1, <2>2, <2>3, WipedStays DEF history
<1> QED BY <1>6, <1>7, <1>8, <1>9, <1>10, <1>11, <1>12 DEF AudioInv

LEMMA ReserveKeeps == ASSUME AudioInv, NEW r \in Requests, Reserve(r) PROVE AudioInv'
<1>1. /\ r \notin Range(line) /\ Left(r) = Len(Parts[r]) /\ line' = Append(line, r)
      /\ UNCHANGED <<music, speech, current, started, active, flags, suspended, bound, wake, voice, work,
                     overlay, op, joining, fate, fails, history>>
  BY DEF Reserve, session
<1>2. line \in Seq(Requests) /\ IsInjective(line)
  BY DEF AudioInv, Reservations
<1>3. /\ line' \in Seq(Requests) /\ IsInjective(line') /\ Range(line') = Range(line) \union {r}
  BY <1>1, <1>2, AppendFacts
<1>4. Reservations'
  <2>1. ASSUME NEW q \in Requests
        PROVE  \E n \in 0 .. Len(Parts[q]) : Committed(q, n, fate') /\ (q \in Range(line') => n < Len(Parts[q]))
    <3>1. PICK n \in 0 .. Len(Parts[q]) : Committed(q, n, fate) /\ (q \in Range(line) => n < Len(Parts[q]))
      BY DEF AudioInv, Reservations
    <3>2. Parts[q] \in Seq(Speech) /\ Parts[q] # <<>>
      BY AudioAssumption
    <3>3. Len(Parts[q]) \in Nat /\ Len(Parts[q]) > 0
      BY <3>2
    <3>4. Committed(q, n, fate')
      BY <1>1, <3>1 DEF Committed
    <3>5. q = r => n < Len(Parts[q])
      <4>1. Left(q) = Len(Parts[q]) - n
        BY <3>1, LeftCounts
      <4> QED BY <1>1, <3>3, <4>1
    <3> QED BY <1>3, <3>1, <3>4, <3>5
  <2> QED BY <1>3, <2>1 DEF Reservations
<1>5. AudioTypeOK' /\ Hands'
  BY <1>1, <1>3 DEF AudioInv, AudioTypeOK, Hands
<1>6. InOverlay' = InOverlay /\ (Ending => Ending')
  BY <1>1 DEF InOverlay, Ending
<1>7. Placement'
  BY <1>1, <1>6, PlacementStays DEF AudioInv
<1>8. Why' /\ Drops'
  BY <1>1, WhyStays, DropsStay DEF AudioInv, history
<1>9. Wiped'
  BY <1>1, <1>6, WipedStays DEF AudioInv, Wiped, history
<1> QED BY <1>4, <1>5, <1>7, <1>8, <1>9 DEF AudioInv

LEMMA ReleaseKeeps == ASSUME AudioInv, NEW r \in Requests, Release(r) PROVE AudioInv'
<1>1. UNCHANGED <<music, speech, current, started, active, flags, suspended, bound, wake, voice, work,
                  overlay, op, joining, fate, fails, history>>
  BY DEF Release, session
<1>2. PICK n \in DOMAIN line : line[n] = r /\ line' = RemoveAt(line, n)
  BY DEF Release
<1>3. line' \in Seq(Requests) /\ IsInjective(line') /\ Range(line') \subseteq Range(line)
  BY <1>2, RemoveAtFacts DEF AudioInv, Reservations
<1>4. Reservations'
  <2>1. ASSUME NEW q \in Requests
        PROVE  \E p \in 0 .. Len(Parts[q]) : Committed(q, p, fate') /\ (q \in Range(line') => p < Len(Parts[q]))
    <3>1. PICK k \in 0 .. Len(Parts[q]) : Committed(q, k, fate) /\ (q \in Range(line) => k < Len(Parts[q]))
      BY DEF AudioInv, Reservations
    <3>2. Committed(q, k, fate')
      BY <1>1, <3>1 DEF Committed
    <3> QED BY <1>3, <3>1, <3>2
  <2> QED BY <1>3, <2>1 DEF Reservations
<1>5. AudioTypeOK' /\ Hands'
  BY <1>1, <1>3 DEF AudioInv, AudioTypeOK, Hands
<1>6. InOverlay' = InOverlay /\ (Ending => Ending')
  BY <1>1 DEF InOverlay, Ending
<1>7. Placement'
  BY <1>1, <1>6, PlacementStays DEF AudioInv
<1>8. Why' /\ Drops'
  BY <1>1, WhyStays, DropsStay DEF AudioInv, history
<1>9. Wiped'
  BY <1>1, <1>6, WipedStays DEF AudioInv, Wiped, history
<1> QED BY <1>4, <1>5, <1>7, <1>8, <1>9 DEF AudioInv

\* The next part of the request at the head of the line is the first one that
\* is new; the last one ends the reservation.
LEMMA CommitReserved ==
  ASSUME AudioInv, NEW r \in Requests, Commit(r),
         NEW s, s = Parts[r][Len(Parts[r]) - Left(r) + 1]
  PROVE  s \in Speech /\ fate[s] = "new" /\ Reservations'
<1>0. fate \in [Items -> Fates]
  BY DEF AudioInv, AudioTypeOK
<1>1. /\ line # <<>> /\ Head(line) = r /\ fate' = [fate EXCEPT ![s] = "in"]
      /\ line' = IF Left(r) = 1 THEN Tail(line) ELSE line
  BY DEF Commit
<1>2. line \in Seq(Requests) /\ IsInjective(line)
  BY DEF AudioInv, Reservations
<1>3. /\ r \in Range(line) /\ Tail(line) \in Seq(Requests) /\ IsInjective(Tail(line))
      /\ Range(Tail(line)) = Range(line) \ {r}
  BY <1>1, <1>2, TailFacts
<1>4. PICK n \in 0 .. Len(Parts[r]) : Committed(r, n, fate) /\ n < Len(Parts[r])
  BY <1>3 DEF AudioInv, Reservations
<1>5. Left(r) = Len(Parts[r]) - n
  BY <1>4, LeftCounts
<1>6. /\ Parts[r] \in Seq(Speech) /\ IsInjective(Parts[r]) /\ DOMAIN Parts[r] = 1 .. Len(Parts[r])
      /\ Len(Parts[r]) \in Nat
  <2>1. Parts[r] \in Seq(Speech) /\ IsInjective(Parts[r])
    BY AudioAssumption
  <2> QED BY <2>1
<1>7. s = Parts[r][n + 1] /\ n + 1 \in 1 .. Len(Parts[r]) /\ n + 1 \in DOMAIN Parts[r]
  BY <1>4, <1>5, <1>6
<1>8. s \in Speech /\ s \in Items /\ fate[s] = "new" /\ s \in Range(Parts[r])
  BY <1>4, <1>6, <1>7, NilFacts DEF Committed, Range
<1>9. \A i \in Items : fate'[i] = IF i = s THEN "in" ELSE fate[i]
  BY <1>0, <1>1, <1>8
<1>10. Committed(r, n + 1, fate')
  <2>1. ASSUME NEW k \in 1 .. Len(Parts[r]) PROVE fate'[Parts[r][k]] = "new" <=> k > n + 1
    <3>1. Parts[r][k] \in Items /\ (fate[Parts[r][k]] = "new" <=> k > n)
      BY <1>4, <1>6, NilFacts DEF Committed
    <3>2. Parts[r][k] = s <=> k = n + 1
      BY <1>6, <1>7 DEF IsInjective
    <3>3. CASE k = n + 1
      BY <1>9, <3>1, <3>2, <3>3
    <3>4. CASE k # n + 1
      <4>1. fate'[Parts[r][k]] = fate[Parts[r][k]]
        BY <1>9, <3>1, <3>2, <3>4
      <4> QED BY <1>6, <3>1, <3>4, <4>1
    <3> QED BY <3>3, <3>4
  <2> QED BY <2>1 DEF Committed
<1>11. line' \in Seq(Requests) /\ IsInjective(line') /\ Range(line') \subseteq Range(line)
       /\ (r \in Range(line') => n + 1 < Len(Parts[r]))
  <2>1. CASE Left(r) = 1
    BY <1>1, <1>3, <2>1
  <2>2. CASE Left(r) # 1
    <3>1. n + 1 < Len(Parts[r])
      BY <1>4, <1>5, <1>6, <2>2
    <3> QED BY <1>1, <1>2, <2>2, <3>1
  <2> QED BY <2>1, <2>2
<1>12. ASSUME NEW q \in Requests
       PROVE  \E k \in 0 .. Len(Parts[q]) : Committed(q, k, fate') /\ (q \in Range(line') => k < Len(Parts[q]))
  <2>1. CASE q = r
    BY <1>7, <1>10, <1>11, <2>1
  <2>2. CASE q # r
    <3>1. PICK k \in 0 .. Len(Parts[q]) : Committed(q, k, fate) /\ (q \in Range(line) => k < Len(Parts[q]))
      BY DEF AudioInv, Reservations
    <3>2. ASSUME NEW j \in 1 .. Len(Parts[q]) PROVE fate'[Parts[q][j]] = fate[Parts[q][j]]
      <4>1. Parts[q] \in Seq(Speech) /\ DOMAIN Parts[q] = 1 .. Len(Parts[q])
        BY AudioAssumption
      <4>2. Parts[q][j] \in Items /\ Parts[q][j] \in Range(Parts[q])
        BY <4>1, NilFacts DEF Range
      <4>3. Range(Parts[r]) \intersect Range(Parts[q]) = {}
        BY <2>2, AudioAssumption
      <4>4. Parts[q][j] # s
        BY <1>8, <4>2, <4>3
      <4> QED BY <1>9, <4>2, <4>4
    <3>3. Committed(q, k, fate')
      BY <3>1, <3>2 DEF Committed
    <3> QED BY <1>11, <3>1, <3>3
  <2> QED BY <2>1, <2>2
<1>13. Reservations'
  BY <1>11, <1>12 DEF Reservations
<1> QED BY <1>8, <1>13

LEMMA CommitKeeps == ASSUME AudioInv, NEW r \in Requests, Commit(r) PROVE AudioInv'
<1> DEFINE s == Parts[r][Len(Parts[r]) - Left(r) + 1]
<1>0. Hands /\ Sound(music, speech, work.target, InOverlay, fate) /\ Wiped
  BY DEF AudioInv, Placement
<1>1. /\ fate' = [fate EXCEPT ![s] = "in"]
      /\ \/ /\ overlay.step = "none" /\ overlay' = Mixes(s) /\ active' = TRUE /\ UNCHANGED speech
         \/ speech' = Append(speech, s) /\ UNCHANGED <<overlay, active>>
      /\ wake' = TRUE
      /\ UNCHANGED <<music, current, started, flags, suspended, bound, voice, work,
                     op, joining, fails, wiped, skipped>>
  BY DEF Commit
<1>2. s \in Speech /\ fate[s] = "new" /\ Reservations'
  BY CommitReserved
<1> HIDE DEF s
<1>3. s \in Items /\ s \notin Music /\ s \notin wiped /\ s # Nil
  BY <1>0, <1>2, NilFacts DEF Wiped
<1>4. \A i \in Items : fate'[i] = IF i = s THEN "in" ELSE fate[i]
  BY <1>0, <1>1, <1>3 DEF Sound
<1>5. \/ /\ overlay' \in Overlaid /\ overlay.step = "none" /\ overlay.speech = Nil
         /\ overlay'.step = "new" /\ overlay'.speech = s /\ active' = TRUE /\ UNCHANGED speech
      \/ speech' = Append(speech, s) /\ UNCHANGED <<overlay, active>>
  BY <1>0, <1>1, <1>2, MixesFacts DEF Hands, Carrying
<1>6. /\ Sound(music, Append(speech, s), work.target, InOverlay, fate')
      /\ InOverlay = Nil => Sound(music, speech, work.target, s, fate')
  BY <1>0, <1>1, <1>2, <1>3, Enters
<1>7. Placement'
  <2>1. CASE speech' = Append(speech, s) /\ UNCHANGED overlay
    BY <1>1, <1>6, <2>1 DEF Placement, InOverlay
  <2>2. CASE UNCHANGED speech /\ overlay.speech = Nil /\ overlay'.step = "new" /\ overlay'.speech = s
    <3>1. InOverlay = Nil /\ InOverlay' = s
      BY <2>2 DEF InOverlay
    <3> QED BY <1>1, <1>6, <2>2, <3>1 DEF Placement
  <2> QED BY <1>5, <2>1, <2>2
<1>8. Range(speech') \subseteq Range(speech) \union {s}
  <2>1. Range(Append(speech, s)) = Range(speech) \union {s}
    BY <1>0, <1>2, AppendFacts DEF Sound
  <2> QED BY <1>5, <2>1
<1>9. AudioTypeOK'
  <2>1. fate' \in [Items -> Fates] /\ speech' \in Seq(Speech) /\ line' \in Seq(Requests)
    BY <1>2, <1>7 DEF Placement, Sound, Reservations
  <2>2. active' \in BOOLEAN /\ wake' \in BOOLEAN
    BY <1>1, <1>5 DEF AudioInv, AudioTypeOK
  <2> QED BY <1>1, <2>1, <2>2 DEF AudioInv, AudioTypeOK
<1>10. Hands'
  <2>1. overlay' \in Overlaid /\ (overlay'.step \in Carrying <=> overlay'.speech # Nil)
    BY <1>0, <1>3, <1>5 DEF Hands, Carrying
  <2> QED BY <1>0, <1>1, <2>1 DEF Hands
<1>11. Why'
  BY <1>1, WhyStays DEF AudioInv
<1>12. Drops'
  BY <1>1, <1>3, <1>4, DropsStay, NilFacts DEF AudioInv
<1>13. Wiped'
  <2>1. ASSUME NEW i \in wiped
        PROVE  /\ fate'[i] # "new" /\ i \notin Range(music') \union Range(speech') /\ i # overlay'.speech
               /\ work'.target = i => Ending'
    <3>1. /\ i \in Items /\ i # s /\ i # Nil /\ fate[i] # "new" /\ i \notin Range(music) \union Range(speech)
          /\ i # overlay.speech /\ (work.target = i => Ending)
      BY <1>0, <1>3, NilFacts DEF Wiped
    <3>2. Ending => Ending'
      BY <1>1 DEF Ending
    <3> QED BY <1>1, <1>4, <1>5, <1>8, <3>1, <3>2
  <2>2. overlay'.step = "metric" => fate'[overlay'.speech] = "heard"
    <3>1. overlay.step = "metric" => overlay.speech \in Items /\ fate[overlay.speech] = "heard"
      BY <1>0, NilFacts DEF Hands, Wiped, Carrying, Overlaid
    <3> QED BY <1>2, <1>4, <1>5, <3>1
  <2> QED BY <1>0, <1>1, <2>1, <2>2 DEF Wiped
<1> QED BY <1>2, <1>7, <1>9, <1>10, <1>11, <1>12, <1>13 DEF AudioInv

-------------------------------------------------------------------------------
(* The overlay task                                                        *)

\* The task goes on, with what it carries or with nothing.
LEMMA OverlayGoesOn ==
  ASSUME AudioInv, overlay' \in Overlaid, InOverlay' = InOverlay, overlay'.speech \in {Nil, overlay.speech},
         overlay'.step \in Carrying <=> overlay'.speech # Nil,
         overlay'.step = "metric" => overlay.step = "metric" /\ UNCHANGED overlay.speech,
         active' \in BOOLEAN,
         UNCHANGED <<music, speech, current, started, flags, suspended, wake, fate, fails, voice, work, op,
                     line, bound, joining, history>>
  PROVE  AudioInv'
<1>1. AudioTypeOK' /\ Hands'
  BY DEF AudioInv, AudioTypeOK, Hands
<1>2. Ending => Ending'
  BY DEF Ending
<1> QED BY <1>1, <1>2, Unmoved DEF history

\* The task lets go of an utterance: to the queue, or for good.
LEMMA OverlayLetsGo ==
  ASSUME AudioInv, NEW s \in Speech, fate[s] # "new",
         Sound(music, speech', work.target, Nil, fate'),
         Range(speech') \subseteq Range(speech) \union {overlay.speech},
         overlay' \in Overlaid, overlay'.step \in {"none", "dead"}, overlay'.speech = Nil,
         \A i \in Items : i # s => fate'[i] = fate[i], fate'[s] \in {"in", "lost"},
         active' \in BOOLEAN, wake' \in BOOLEAN,
         Hands', Why', Ending => Ending',
         UNCHANGED <<music, current, started, suspended, fails, work.target, line, bound, joining, history>>,
         voice' \in {"gone", "idle", "playing"}
  PROVE  AudioInv'
<1>0. Hands /\ Wiped
  BY DEF AudioInv
<1>1. s \in Items /\ s \notin Music
  BY NilFacts
<1>3. Placement'
  <2>1. InOverlay' = Nil
    BY DEF InOverlay
  <2> QED BY <2>1 DEF Placement
<1>4. AudioTypeOK'
  BY <1>3 DEF AudioInv, AudioTypeOK, Placement, Sound, Why
<1>5. Reservations'
  <2>1. \A i \in Speech : fate'[i] = "new" <=> fate[i] = "new"
    BY <1>1, NilFacts
  <2> QED BY <2>1, ReservationsStay DEF AudioInv
<1>6. Drops'
  BY <1>1, DropsStay, NilFacts DEF AudioInv, history
<1>7. Wiped'
  <2>1. \A i \in wiped : i \in Items /\ fate[i] # "new"
    BY <1>0 DEF Wiped
  <2>2. \A i \in wiped : fate'[i] # "new"
    BY <1>1, <2>1
  <2> QED BY <1>0, <2>2, WipedStays DEF history
<1> QED BY <1>3, <1>4, <1>5, <1>6, <1>7 DEF AudioInv

LEMMA OverlaySame ==
  ASSUME AudioInv, UNCHANGED <<flags, voice, work, op, troubles, current>>, overlay' \in Overlaid,
         overlay'.step \in Carrying <=> overlay'.speech # Nil
  PROVE  Hands' /\ (Ending => Ending') /\ voice' \in {"gone", "idle", "playing"}
BY DEF AudioInv, AudioTypeOK, Hands, Ending

LEMMA HandBackKeeps ==
  ASSUME AudioInv, NEW s, NEW queue, HandBack(s, queue),
         \/ s = overlay.speech /\ InOverlay = s /\ s # Nil /\ queue = speech
         \/ InOverlay = Nil /\ speech # <<>> /\ s = Head(speech) /\ queue = Tail(speech),
         UNCHANGED <<flags, voice, work, op, troubles, music, current, started, suspended, fails, line, bound,
                     joining, history>>
  PROVE  AudioInv'
<1>0. Hands /\ Sound(music, speech, work.target, InOverlay, fate) /\ Wiped
  BY DEF AudioInv, Placement
<1>1. /\ speech' = InFront(s, queue) /\ fate' = [fate EXCEPT ![s] = "lost"]
      /\ wake' = TRUE /\ active' = FALSE /\ overlay' = NoOverlay
  BY DEF HandBack
<1>2. Sound(music, queue, work.target, s, fate) /\ s # Nil
  <2>1. CASE s = overlay.speech /\ InOverlay = s /\ s # Nil /\ queue = speech
    BY <1>0, <2>1
  <2>2. CASE InOverlay = Nil /\ speech # <<>> /\ s = Head(speech) /\ queue = Tail(speech)
    <3>1. s \in Speech
      BY <2>2 DEF AudioInv, AudioTypeOK
    <3> QED BY <1>0, <2>2, <3>1, Taken, NilFacts
  <2> QED BY <2>1, <2>2
<1>3. Sound(music, speech', work.target, Nil, fate')
  BY <1>1, <1>2, HandedOver
<1>4. s \in Speech /\ s \in Items /\ fate \in [Items -> Fates] /\ fate[s] # "new"
  BY <1>2, NilFacts DEF Sound
<1>5. Range(speech') \subseteq Range(speech) \union {overlay.speech}
  <2>1. Range(speech') = Range(queue) \union {s}
    <3>1. queue \in Seq(Speech)
      BY <1>2 DEF Sound
    <3>2. Range(InFront(s, queue)) = Range(queue) \union {s}
      <4>1. s \in Speech
        BY <1>4
      <4> QED BY ONLY <3>1, <4>1, FrontFacts
    <3> QED BY <1>1, <3>2
  <2>2. speech # <<>> => Range(Tail(speech)) \subseteq Range(speech) /\ Head(speech) \in Range(speech)
    <3>1. speech \in Seq(Speech) /\ IsInjective(speech)
      BY <1>0 DEF Sound
    <3> QED BY <3>1, TailFacts
  <2> QED BY <2>1, <2>2
<1>6. /\ overlay' \in Overlaid /\ overlay'.step = "none" /\ overlay'.speech = Nil
      /\ overlay'.step \notin Carrying
  BY <1>1, <1>4, MixesFacts
<1>7. (\A i \in Items : i # s => fate'[i] = fate[i]) /\ fate'[s] = "lost"
  BY <1>1, <1>4
<1>8. Hands' /\ (Ending => Ending') /\ voice' \in {"gone", "idle", "playing"}
  BY <1>6, OverlaySame
<1>9. Why'
  BY WhyStays DEF AudioInv, history
<1> QED BY <1>1, <1>3, <1>4, <1>5, <1>6, <1>7, <1>8, <1>9, OverlayLetsGo

\* What every step of the task that is not cancelled leaves alone.
LEMMA OverlayFacts ==
  ASSUME AudioInv, NEW step, Overlays(step)
  PROVE  /\ overlay.step = step /\ UNCHANGED <<music, current, started, suspended, fails, line, bound, joining, history>>
         /\ overlay \in Overlaid /\ (overlay.step \in Carrying <=> overlay.speech # Nil)
         /\ \A to \in Steps : /\ [overlay EXCEPT !.step = to] \in Overlaid
                              /\ [overlay EXCEPT !.step = to].step = to
                              /\ [overlay EXCEPT !.step = to].speech = overlay.speech
BY DEF Overlays, rest, AudioInv, Hands, Overlaid

\* A step of the task after which it carries what it did.
LEMMA StepsOn ==
  ASSUME AudioInv, NEW step, Overlays(step), NEW to \in Steps \ {"metric"}, overlay' = [overlay EXCEPT !.step = to],
         to \in Carrying <=> step \in Carrying, step # "metric", active' \in BOOLEAN,
         UNCHANGED <<speech, flags, wake, fate, voice, work, op>>
  PROVE  AudioInv'
<1>1. /\ overlay.step = step /\ UNCHANGED <<music, current, started, suspended, fails, line, bound, joining, history>>
      /\ (overlay.step \in Carrying <=> overlay.speech # Nil)
      /\ overlay' \in Overlaid /\ overlay'.step = to /\ overlay'.speech = overlay.speech
  BY OverlayFacts
<1>2. InOverlay' = InOverlay
  BY <1>1 DEF InOverlay
<1> QED BY <1>1, <1>2, OverlayGoesOn

LEMMA OverlayBeginsKeeps == ASSUME AudioInv, OverlayBegins PROVE AudioInv'
<1>1. /\ Overlays("new") /\ UNCHANGED <<flags, voice, work, op, troubles>>
      /\ \/ overlay' = [overlay EXCEPT !.step = Locks("mixing", "want")] /\ UNCHANGED <<speech, fate, wake, active>>
         \/ HandBack(overlay.speech, speech)
  BY DEF OverlayBegins
<1>2. Locks("mixing", "want") \in Steps \ {"metric"} /\ Locks("mixing", "want") \in Carrying /\ "new" \in Carrying
  BY DEF Locks, Steps, Carrying
<1>3. CASE HandBack(overlay.speech, speech)
  <2>1. /\ overlay.step = "new" /\ overlay.speech # Nil
        /\ UNCHANGED <<music, current, started, suspended, fails, line, bound, joining, history>>
    BY <1>1, <1>2, OverlayFacts
  <2>2. InOverlay = overlay.speech
    BY <2>1 DEF InOverlay
  <2> QED BY <1>1, <1>3, <2>1, <2>2, HandBackKeeps
<1>4. CASE overlay' = [overlay EXCEPT !.step = Locks("mixing", "want")] /\ UNCHANGED <<speech, fate, wake, active>>
  <2>1. active' \in BOOLEAN
    BY <1>4 DEF AudioInv, AudioTypeOK
  <2> QED BY <1>1, <1>2, <1>4, <2>1, StepsOn
<1> QED BY <1>1, <1>3, <1>4

LEMMA OverlayLocksKeeps == ASSUME AudioInv, OverlayLocks PROVE AudioInv'
<1>1. /\ UNCHANGED <<speech, fate, wake, active, flags, voice, work, op, troubles>>
      /\ \/ Overlays("want") /\ overlay' = [overlay EXCEPT !.step = "mixing"]
         \/ Overlays("restore") /\ overlay' = [overlay EXCEPT !.step = "restoring"]
  BY DEF OverlayLocks
<1>2. /\ {"mixing", "restoring"} \subseteq Steps \ {"metric"} /\ {"want", "mixing"} \subseteq Carrying
      /\ "restore" \notin Carrying /\ "restoring" \notin Carrying
  BY DEF Steps, Carrying
<1>3. active' \in BOOLEAN
  BY <1>1 DEF AudioInv, AudioTypeOK
<1> QED BY <1>1, <1>2, <1>3, StepsOn

LEMMA MixFailsKeeps == ASSUME AudioInv, MixFails PROVE AudioInv'
<1>1. /\ UNCHANGED <<speech, fate, wake, active, flags, voice, work, op>>
      /\ Overlays("mixing") /\ overlay' = [overlay EXCEPT !.step = "broken"]
  BY DEF MixFails
<1>2. "broken" \in Steps \ {"metric"} /\ {"mixing", "broken"} \subseteq Carrying
  BY DEF Steps, Carrying
<1>3. active' \in BOOLEAN
  BY <1>1 DEF AudioInv, AudioTypeOK
<1> QED BY <1>1, <1>2, <1>3, StepsOn

LEMMA RestoreKeeps == ASSUME AudioInv, Restore PROVE AudioInv'
<1>1. /\ UNCHANGED <<speech, fate, wake, active, flags, voice, work, op>> /\ Overlays("restoring")
      /\ \E to \in {"restored", "final"} : overlay' = [overlay EXCEPT !.step = to]
  BY DEF Restore
<1>2. /\ {"restored", "final"} \subseteq Steps \ {"metric"}
      /\ "restored" \notin Carrying /\ "final" \notin Carrying /\ "restoring" \notin Carrying
  BY DEF Steps, Carrying
<1>3. active' \in BOOLEAN
  BY <1>1 DEF AudioInv, AudioTypeOK
<1> QED BY <1>1, <1>2, <1>3, StepsOn

LEMMA ReportedKeeps == ASSUME AudioInv, Reported PROVE AudioInv'
<1>1. /\ UNCHANGED <<speech, fate, wake, active, flags, voice, work, op, troubles>>
      /\ \/ Overlays("metric") /\ overlay' = [overlay EXCEPT !.step = "next", !.speech = Nil]
         \/ Overlays("broken") /\ overlay' = [overlay EXCEPT !.step = "fallback"]
  BY DEF Reported
<1>2. /\ "fallback" \in Steps \ {"metric"} /\ {"broken", "fallback"} \subseteq Carrying
      /\ "next" \in Steps /\ "next" \notin Carrying
  BY DEF Steps, Carrying
<1>3. active' \in BOOLEAN
  BY <1>1 DEF AudioInv, AudioTypeOK
<1>4. CASE Overlays("metric") /\ overlay' = [overlay EXCEPT !.step = "next", !.speech = Nil]
  <2>1. /\ overlay.step = "metric" /\ overlay \in Overlaid
        /\ UNCHANGED <<music, current, started, suspended, fails, line, bound, joining, history>>
    BY <1>4, OverlayFacts
  <2>2. overlay' \in Overlaid /\ overlay'.step = "next" /\ overlay'.speech = Nil
    BY <1>2, <1>4, <2>1 DEF Overlaid
  <2>3. InOverlay' = InOverlay
    BY <2>1, <2>2 DEF InOverlay
  <2> QED BY <1>1, <1>2, <1>3, <2>1, <2>2, <2>3, OverlayGoesOn
<1>5. CASE Overlays("broken") /\ overlay' = [overlay EXCEPT !.step = "fallback"]
  BY <1>1, <1>2, <1>3, <1>5, StepsOn
<1> QED BY <1>1, <1>4, <1>5

LEMMA MixedKeeps == ASSUME AudioInv, Mixed PROVE AudioInv'
<1> DEFINE s == overlay.speech
<1>0. Hands /\ Sound(music, speech, work.target, InOverlay, fate) /\ Wiped
  BY DEF AudioInv, Placement
<1>1. /\ Overlays("mixing") /\ overlay' = [overlay EXCEPT !.step = "metric"]
      /\ fate' = [fate EXCEPT ![s] = "heard"]
      /\ UNCHANGED <<speech, wake, active, flags, voice, work, op, troubles>>
  BY DEF Mixed
<1>2. "mixing" \in Carrying /\ "metric" \in Carrying /\ "metric" \in Steps
  BY DEF Steps, Carrying
<1>3. /\ overlay.step = "mixing" /\ s # Nil /\ UNCHANGED <<music, current, started, suspended, fails, line, bound, joining, history>>
      /\ overlay' \in Overlaid /\ overlay'.step = "metric" /\ overlay'.speech = s
  BY <1>1, <1>2, OverlayFacts
<1>4. s \in Speech /\ s \in Items /\ s \notin Music
  BY <1>0, <1>3, NilFacts DEF Hands, Overlaid
<1>5. InOverlay = s /\ InOverlay' = Nil
  BY <1>3 DEF InOverlay
<1>6. Sound(music, speech, work.target, Nil, fate')
  <2>1. "heard" \in Fates \ {"in"}
    BY DEF Fates
  <2> QED BY <1>0, <1>1, <1>3, <1>5, <2>1, HandedOver
<1>7. \A i \in Items : fate'[i] = IF i = s THEN "heard" ELSE fate[i]
  BY <1>0, <1>1, <1>4 DEF Sound
<1>8. fate[s] # "new"
  BY <1>0, <1>4, <1>5 DEF Sound
<1> HIDE DEF s
<1>9. Placement'
  BY <1>1, <1>3, <1>5, <1>6 DEF Placement
<1>10. AudioTypeOK'
  BY <1>1, <1>3, <1>6 DEF AudioInv, AudioTypeOK, Sound
<1>11. Hands'
  BY <1>0, <1>1, <1>2, <1>3 DEF Hands
<1>12. Reservations'
  BY <1>3, <1>7, <1>8, NilFacts, ReservationsStay DEF AudioInv
<1>13. Why' /\ Drops'
  BY <1>1, <1>3, <1>4, <1>7, NilFacts, WhyStays, DropsStay DEF AudioInv, history
<1>14. Wiped'
  <2>1. \A i \in wiped : i \in Items /\ fate[i] # "new"
    BY <1>0 DEF Wiped
  <2>2. Ending => Ending'
    BY <1>1 DEF Ending
  <2>3. overlay'.speech \in {Nil, overlay.speech} /\ fate'[overlay'.speech] = "heard"
    BY <1>3, <1>4, <1>7 DEF s
  <2> QED BY <1>0, <1>1, <1>3, <1>7, <2>1, <2>2, <2>3, WipedStays DEF history
<1> QED BY <1>9, <1>10, <1>11, <1>12, <1>13, <1>14 DEF AudioInv

LEMMA NextSpeechKeeps == ASSUME AudioInv, NextSpeech PROVE AudioInv'
<1>1. /\ Overlays("next") /\ UNCHANGED <<flags, voice, work, op, troubles>>
      /\ \/ /\ speech = <<>>
            /\ \E to \in {"restoring", "restore", "final"} : overlay' = [overlay EXCEPT !.step = to]
            /\ active' = FALSE /\ UNCHANGED <<speech, fate, wake>>
         \/ /\ speech # <<>>
            /\ \E to \in {"mixing", "want"} : overlay' = [overlay EXCEPT !.step = to, !.speech = Head(speech)]
            /\ speech' = Tail(speech) /\ active' = TRUE
            /\ UNCHANGED <<fate, wake>>
         \/ speech # <<>> /\ HandBack(Head(speech), Tail(speech))
  BY DEF NextSpeech, Locks
<1>2. /\ {"restoring", "restore", "final"} \subseteq Steps \ {"metric"} /\ "next" \notin Carrying
      /\ \A to \in {"restoring", "restore", "final"} : to \notin Carrying
      /\ {"mixing", "want"} \subseteq Carrying \ {"metric"} /\ {"mixing", "want"} \subseteq Steps
  BY DEF Steps, Carrying
<1>3. /\ overlay.step = "next" /\ overlay.speech = Nil /\ overlay \in Overlaid
      /\ UNCHANGED <<music, current, started, suspended, fails, line, bound, joining, history>>
  BY <1>1, <1>2, OverlayFacts
<1>4. InOverlay = Nil
  BY <1>3 DEF InOverlay
<1>5. ASSUME NEW to \in {"restoring", "restore", "final"}, overlay' = [overlay EXCEPT !.step = to],
             active' = FALSE, UNCHANGED <<speech, fate, wake>>
      PROVE  AudioInv'
  <2>1. to \in Steps \ {"metric"} /\ to \notin Carrying /\ active' \in BOOLEAN
    BY <1>2, <1>5
  <2> QED BY <1>1, <1>2, <1>5, <2>1, StepsOn
<1>6. ASSUME NEW to \in {"mixing", "want"}, overlay' = [overlay EXCEPT !.step = to, !.speech = Head(speech)],
             speech # <<>>, speech' = Tail(speech), active' = TRUE, UNCHANGED <<fate, wake>>
      PROVE  AudioInv'
  <2>1. Head(speech) \in Speech
    BY <1>6 DEF AudioInv, AudioTypeOK
  <2>2. overlay' \in Overlaid /\ overlay'.step = to /\ overlay'.speech = Head(speech)
    BY <1>2, <1>3, <1>6, <2>1 DEF Overlaid
  <2>3. started' \in BOOLEAN /\ active' \in BOOLEAN
    BY <1>3, <1>6 DEF AudioInv, AudioTypeOK
  <2> QED BY <1>1, <1>2, <1>3, <1>4, <1>6, <2>2, <2>3, MixesHead
<1>7. CASE speech # <<>> /\ HandBack(Head(speech), Tail(speech))
  BY <1>1, <1>3, <1>4, <1>7, HandBackKeeps
<1> QED BY <1>1, <1>5, <1>6, <1>7

LEMMA OverlayEndsKeeps == ASSUME AudioInv, OverlayEnds PROVE AudioInv'
<1>1. /\ \E step \in {"restored", "final"} : Overlays(step)
      /\ UNCHANGED <<fate, wake, flags, voice, work, op, troubles>>
      /\ \/ /\ speech # <<>> /\ overlay' = Mixes(Head(speech)) /\ speech' = Tail(speech) /\ active' = TRUE
         \/ overlay' = NoOverlay /\ active' = FALSE /\ UNCHANGED speech
  BY DEF OverlayEnds
<1>2. "restored" \notin Carrying /\ "final" \notin Carrying
  BY DEF Carrying
<1>3. /\ overlay.speech = Nil /\ UNCHANGED <<music, current, started, suspended, fails, line, bound, joining, history>>
  BY <1>1, <1>2, OverlayFacts
<1>4. InOverlay = Nil
  BY <1>3 DEF InOverlay
<1>5. CASE /\ speech # <<>> /\ overlay' = Mixes(Head(speech)) /\ speech' = Tail(speech) /\ active' = TRUE
  <2>1. Head(speech) \in Speech
    BY <1>5 DEF AudioInv, AudioTypeOK
  <2>2. started' \in BOOLEAN /\ active' \in BOOLEAN
    BY <1>3, <1>5 DEF AudioInv, AudioTypeOK
  <2> QED BY <1>1, <1>3, <1>4, <1>5, <2>1, <2>2, MixesFacts, MixesHead
<1>6. CASE overlay' = NoOverlay /\ active' = FALSE /\ UNCHANGED speech
  <2>1. /\ overlay' \in Overlaid /\ overlay'.step = "none" /\ overlay'.speech = Nil /\ overlay'.step \notin Carrying
    BY <1>6 DEF NoOverlay, Overlaid, Steps, Carrying
  <2>2. InOverlay' = InOverlay
    BY <1>4, <2>1 DEF InOverlay
  <2> QED BY <1>1, <1>3, <1>6, <2>1, <2>2, OverlayGoesOn
<1> QED BY <1>1, <1>5, <1>6

LEMMA FallbackKeeps == ASSUME AudioInv, Fallback PROVE AudioInv'
<1> DEFINE s == overlay.speech
<1>0. Hands /\ Sound(music, speech, work.target, InOverlay, fate)
  BY DEF AudioInv, Placement
<1>1. /\ Overlays("fallback") /\ op.step = "idle" /\ overlay' = NoOverlay /\ speech' = InFront(s, speech)
      /\ active' = FALSE /\ wake' = TRUE
      /\ \/ flags' = flags \union {"restart"} /\ Stop
         \/ UNCHANGED <<flags, voice, work>>
      /\ UNCHANGED <<fate, op, troubles>>
  BY DEF Fallback, NoCaller
<1>2. "fallback" \in Carrying
  BY DEF Carrying
<1>3. /\ overlay.step = "fallback" /\ s # Nil /\ UNCHANGED <<music, current, started, suspended, fails, line, bound, joining, history>>
  BY <1>1, <1>2, OverlayFacts
<1>4. s \in Speech /\ s \in Items /\ InOverlay = s
  BY <1>0, <1>3, NilFacts DEF Hands, Overlaid, InOverlay
<1>5. fate[s] \in {"in", "lost"}
  BY <1>0, <1>4 DEF Sound
<1>6. Sound(music, speech', work.target, Nil, fate')
  BY <1>0, <1>1, <1>3, <1>4, HandedOver
<1>7. Range(speech') = Range(speech) \union {s}
  <2>1. speech \in Seq(Speech)
    BY <1>0 DEF Sound
  <2>2. Range(InFront(s, speech)) = Range(speech) \union {s}
    BY <1>4, <2>1, FrontFacts
  <2> QED BY <1>1, <2>2
<1>8. /\ overlay' \in Overlaid /\ overlay'.step = "none" /\ overlay'.speech = Nil /\ overlay'.step \notin Carrying
  BY <1>1 DEF NoOverlay, Overlaid, Steps, Carrying
<1>9. /\ work' \in Works /\ UNCHANGED <<work.pc, work.target, work.outcome>>
      /\ voice' \in {"idle", voice} /\ (voice' = "playing" => voice = "playing")
      /\ flags' \subseteq Flags /\ ("skip" \in flags' => "skip" \in flags) /\ (flags # {} => flags' # {})
      /\ (work'.quiet => work.quiet \/ flags' # {})
  <2>1. CASE flags' = flags \union {"restart"} /\ Stop
    BY <1>0, <2>1, Stopped DEF AudioInv, AudioTypeOK, Flags
  <2>2. CASE UNCHANGED <<flags, voice, work>>
    BY <1>0, <2>2 DEF AudioInv, AudioTypeOK, Hands
  <2> QED BY <1>1, <2>1, <2>2
<1>10. Hands'
  BY <1>0, <1>1, <1>3, <1>8, <1>9 DEF Hands
<1>11. Why'
  <2>1. ASSUME work'.pc \in Playing
        PROVE  (work'.quiet => flags' # {}) /\ ("skip" \in flags' => work'.target \in skipped')
    <3>1. (work.quiet => flags # {}) /\ ("skip" \in flags => work.target \in skipped)
      BY <1>9, <2>1 DEF AudioInv, Why
    <3> QED BY <1>3, <1>9, <3>1 DEF history
  <2> QED BY <1>9, <2>1 DEF Why
<1>12. ~Ending /\ voice' \in {"gone", "idle", "playing"}
  BY <1>1, <1>9 DEF Ending, AudioInv, AudioTypeOK
<1> QED BY <1>1, <1>3, <1>4, <1>5, <1>6, <1>7, <1>8, <1>9, <1>10, <1>11, <1>12, OverlayLetsGo

LEMMA OverlayCutKeeps == ASSUME AudioInv, OverlayCut PROVE AudioInv'
<1> DEFINE s == overlay.speech
<1>0. Hands /\ Sound(music, speech, work.target, InOverlay, fate) /\ Wiped
  BY DEF AudioInv, Placement
<1>1. /\ overlay' = [overlay EXCEPT !.step = "dead", !.speech = Nil]
      /\ UNCHANGED <<music, current, started, active, flags, suspended, fails, voice, work, op,
                     line, bound, joining, history, troubles>>
      /\ \/ /\ overlay.step \in {"want", "mixing", "metric"}
            /\ speech' = InFront(s, speech) /\ wake' = TRUE /\ fate' = [fate EXCEPT ![s] = "in"]
         \/ /\ overlay.step \in {"new", "broken", "fallback"}
            /\ fate' = [fate EXCEPT ![s] = "lost"] /\ UNCHANGED <<speech, wake>>
         \/ /\ overlay.step \notin {"want", "mixing", "metric", "new", "broken", "fallback"}
            /\ UNCHANGED <<speech, wake, fate>>
  BY DEF OverlayCut, rest
<1>2. /\ overlay' \in Overlaid /\ overlay'.step = "dead" /\ overlay'.speech = Nil /\ overlay'.step \notin Carrying
  BY <1>0, <1>1 DEF Hands, Overlaid, Steps, Carrying
<1>3. Hands' /\ (Ending => Ending') /\ voice' \in {"gone", "idle", "playing"}
  BY <1>1, <1>2, OverlaySame
<1>4. Why' /\ active' \in BOOLEAN
  BY <1>1, WhyStays DEF AudioInv, AudioTypeOK, history
<1>5. ASSUME overlay.step \in Carrying, fate' \in {[fate EXCEPT ![s] = "in"], [fate EXCEPT ![s] = "lost"]},
             wake' \in BOOLEAN, Sound(music, speech', work.target, Nil, fate'),
             Range(speech') \subseteq Range(speech) \union {s}
      PROVE  AudioInv'
  <2>1. s \in Speech /\ s \in Items /\ fate \in [Items -> Fates]
    BY <1>0, <1>5, NilFacts DEF Hands, Overlaid, Sound
  <2>2. fate[s] # "new"
    <3>1. CASE overlay.step = "metric"
      BY <1>0, <3>1 DEF Wiped
    <3>2. CASE overlay.step # "metric"
      BY <1>0, <2>1, <3>2 DEF Sound, InOverlay
    <3> QED BY <3>1, <3>2
  <2>3. (\A i \in Items : i # s => fate'[i] = fate[i]) /\ fate'[s] \in {"in", "lost"}
    BY <1>5, <2>1
  <2> QED BY <1>1, <1>2, <1>3, <1>4, <1>5, <2>1, <2>2, <2>3, OverlayLetsGo
<1>6. CASE /\ overlay.step \in {"want", "mixing", "metric"}
           /\ speech' = InFront(s, speech) /\ wake' = TRUE /\ fate' = [fate EXCEPT ![s] = "in"]
  <2>1. overlay.step \in Carrying /\ s # Nil /\ s \in Speech /\ speech \in Seq(Speech)
    BY <1>0, <1>6 DEF Hands, Carrying, Overlaid, Sound
  <2>2. Sound(music, speech', work.target, Nil, fate')
    <3>1. CASE overlay.step = "metric"
      <4>1. InOverlay = Nil /\ fate[s] = "heard"
        BY <1>0, <3>1 DEF InOverlay, Wiped
      <4> QED BY <1>0, <1>6, <2>1, <4>1, Recalled
    <3>2. CASE overlay.step # "metric"
      <4>1. InOverlay = s
        BY <3>2 DEF InOverlay
      <4> QED BY <1>0, <1>6, <2>1, <4>1, HandedOver
    <3> QED BY <3>1, <3>2
  <2>3. Range(InFront(s, speech)) = Range(speech) \union {s}
    BY <2>1, FrontFacts
  <2> QED BY <1>5, <1>6, <2>1, <2>2, <2>3
<1>7. CASE /\ overlay.step \in {"new", "broken", "fallback"}
           /\ fate' = [fate EXCEPT ![s] = "lost"] /\ UNCHANGED <<speech, wake>>
  <2>1. overlay.step \in Carrying /\ s # Nil /\ InOverlay = s /\ wake' \in BOOLEAN
    BY <1>0, <1>7 DEF Hands, Carrying, InOverlay, AudioInv, AudioTypeOK
  <2>2. Sound(music, speech, work.target, Nil, fate')
    <3>1. "lost" \in Fates \ {"in"}
      BY DEF Fates
    <3> QED BY <1>0, <1>7, <2>1, <3>1, HandedOver
  <2> QED BY <1>5, <1>7, <2>1, <2>2
<1>8. CASE /\ overlay.step \notin {"want", "mixing", "metric", "new", "broken", "fallback"}
           /\ UNCHANGED <<speech, wake, fate>>
  <2>1. overlay.speech = Nil
    BY <1>0, <1>8 DEF Hands, Carrying
  <2>2. InOverlay' = InOverlay
    BY <1>2, <2>1 DEF InOverlay
  <2> QED BY <1>1, <1>2, <1>4, <1>8, <2>1, <2>2, OverlayGoesOn
<1> QED BY <1>1, <1>6, <1>7, <1>8

-------------------------------------------------------------------------------
(* The order of the utterances                                             *)

\* In a log, the one utterance comes before the other.
Before(log, a, b) == \E k \in DOMAIN log : \E j \in 1 .. k - 1 : log[j] = a /\ log[k] = b

\* What waits in a queue, what is in somebody's hands and what was heard, in the
\* order of the log: first what was heard, then what is held, then the queue.
Lined(log, queue, held, heard) ==
    /\ \A k \in DOMAIN queue : \A j \in 1 .. k - 1 : Before(log, queue[j], queue[k])
    /\ \A k \in DOMAIN queue : \A s \in held \union heard : Before(log, s, queue[k])
    /\ \A h \in heard : \A s \in held : s = h \/ Before(log, h, s)

Held == {overlay.speech, work.target} \intersect Speech
Heard == {s \in Speech : fate[s] = "heard"}

\* While nothing failed, the overlay task lives and dies with the track that
\* plays; where it does not run, no utterance waits for it.
Untroubled ==
    /\ overlay.step # "none" => work.pc \in {"play", "cancelling"} /\ work.target \in Music /\ overlay.same
    /\ overlay.step \notin {"broken", "fallback", "final"}
    /\ work.pc = "cancelling" => overlay.cut /\ overlay.step # "none"
    /\ work.pc = "put" /\ work.outcome = "back" => work.target \in Music
    /\ started => work.pc \in {"play", "cancelling"}
    /\ work.pc = "play" => started
    /\ work.pc = "play" /\ work.target \in Music /\ overlay.step = "none" => speech = <<>>
    /\ work.pc \in {"starting", "play"} => voice # "gone"
    /\ work.pc \in {"starting", "play"} /\ op.step = "waiting" /\ op.kind \in {"suspend", "leave"} =>
           op.waits \/ voice = "playing"

Orderly ==
    /\ order \in Seq(Speech) /\ IsInjective(order) /\ troubles \in Nat
    /\ \A s \in Speech : s \in Range(order) <=> fate[s] # "new"
    /\ troubles = 0 => Untroubled /\ Lined(order, speech, Held, Heard)

LEMMA LinedLess ==
  ASSUME NEW log, NEW queue, NEW held, NEW heard, Lined(log, queue, held, heard),
         NEW h \in SUBSET held, NEW d \in SUBSET heard
  PROVE  Lined(log, queue, h, d) /\ Lined(log, <<>>, h, d)
<1>1. Lined(log, queue, h, d)
  BY DEF Lined
<1>2. DOMAIN <<>> = {}
  OBVIOUS
<1>3. Lined(log, <<>>, h, d)
  BY <1>2 DEF Lined
<1> QED BY <1>1, <1>3

LEMMA LinedTake ==
  ASSUME NEW log, NEW queue \in Seq(Speech), NEW heard, queue # <<>>, Lined(log, queue, {}, heard)
  PROVE  Lined(log, Tail(queue), {Head(queue)}, heard)
<1> DEFINE t == Tail(queue)
<1>1. /\ DOMAIN t = 1 .. Len(queue) - 1 /\ DOMAIN queue = 1 .. Len(queue) /\ Len(queue) \in Nat \ {0}
      /\ \A k \in 1 .. Len(queue) - 1 : t[k] = queue[k + 1]
      /\ Head(queue) = queue[1]
  OBVIOUS
<1> HIDE DEF t
<1>2. ASSUME NEW k \in DOMAIN t
      PROVE  /\ \A j \in 1 .. k - 1 : Before(log, t[j], t[k])
             /\ \A s \in heard : Before(log, s, t[k])
             /\ Before(log, queue[1], t[k])
  <2>1. k + 1 \in DOMAIN queue /\ t[k] = queue[k + 1] /\ 1 \in 1 .. (k + 1) - 1
    BY <1>1
  <2>2. ASSUME NEW j \in 1 .. k - 1 PROVE j + 1 \in 1 .. (k + 1) - 1 /\ t[j] = queue[j + 1]
    BY <1>1
  <2> QED BY <2>1, <2>2 DEF Lined
<1>3. 1 \in DOMAIN queue
  BY <1>1
<1>4. \A h \in heard : Before(log, h, queue[1])
  BY <1>3 DEF Lined
<1>5. Lined(log, t, {queue[1]}, heard)
  BY <1>2, <1>4 DEF Lined
<1> QED BY <1>1, <1>5 DEF t

LEMMA LinedGive ==
  ASSUME NEW log, NEW queue \in Seq(Speech), NEW s \in Speech, NEW heard, Lined(log, queue, {s}, heard)
  PROVE  Lined(log, InFront(s, queue), {}, heard \ {s})
<1> DEFINE t == <<s>> \o queue
<1>1. /\ DOMAIN t = 1 .. Len(queue) + 1 /\ DOMAIN queue = 1 .. Len(queue) /\ Len(queue) \in Nat
      /\ \A k \in 2 .. Len(queue) + 1 : t[k] = queue[k - 1]
      /\ t[1] = s
  OBVIOUS
<1> HIDE DEF t
<1>2. ASSUME NEW k \in DOMAIN t
      PROVE  /\ \A j \in 1 .. k - 1 : Before(log, t[j], t[k])
             /\ \A h \in heard \ {s} : Before(log, h, t[k])
  <2>1. CASE k = 1
    <3>1. 1 .. k - 1 = {}
      BY <2>1
    <3> QED BY <1>1, <2>1, <3>1 DEF Lined
  <2>2. CASE k # 1
    <3>1. k - 1 \in DOMAIN queue /\ t[k] = queue[k - 1]
      BY <1>1, <2>2
    <3>2. ASSUME NEW j \in 1 .. k - 1 PROVE Before(log, t[j], t[k])
      <4>1. CASE j = 1
        BY <1>1, <3>1, <4>1 DEF Lined
      <4>2. CASE j # 1
        <5>1. j - 1 \in 1 .. (k - 1) - 1 /\ t[j] = queue[j - 1]
          BY <1>1, <4>2
        <5> QED BY <3>1, <5>1 DEF Lined
      <4> QED BY <4>1, <4>2
    <3> QED BY <3>1, <3>2 DEF Lined
  <2> QED BY <2>1, <2>2
<1>3. Lined(log, t, {}, heard \ {s})
  BY <1>2 DEF Lined
<1> QED BY <1>3 DEF t, InFront

LEMMA LinedHeard ==
  ASSUME NEW log, NEW queue, NEW s, NEW heard, Lined(log, queue, {s}, heard)
  PROVE  Lined(log, queue, {s}, heard \union {s}) /\ Lined(log, queue, {}, heard \union {s})
BY DEF Lined

\* What is committed comes after all that was.
LEMMA LinedCommit ==
  ASSUME NEW log \in Seq(Speech), NEW s \in Speech, NEW queue \in Seq(Speech), NEW held, NEW heard,
         Lined(log, queue, held, heard), Range(queue) \union held \union heard \subseteq Range(log)
  PROVE  /\ Lined(Append(log, s), Append(queue, s), held, heard)
         /\ queue = <<>> /\ held = {} => Lined(Append(log, s), queue, {s}, heard)
<1> DEFINE l == Append(log, s)
           q == Append(queue, s)
<1>1. /\ DOMAIN l = 1 .. Len(log) + 1 /\ DOMAIN log = 1 .. Len(log) /\ Len(log) \in Nat
      /\ \A k \in 1 .. Len(log) : l[k] = log[k]
      /\ l[Len(log) + 1] = s
  OBVIOUS
<1>2. /\ DOMAIN q = 1 .. Len(queue) + 1 /\ DOMAIN queue = 1 .. Len(queue) /\ Len(queue) \in Nat
      /\ \A k \in 1 .. Len(queue) : q[k] = queue[k]
      /\ q[Len(queue) + 1] = s
  OBVIOUS
<1> HIDE DEF l, q
<1>3. ASSUME NEW a, NEW b, Before(log, a, b) PROVE Before(l, a, b)
  <2>1. PICK k \in DOMAIN log : \E j \in 1 .. k - 1 : log[j] = a /\ log[k] = b
    BY <1>3 DEF Before
  <2>2. PICK j \in 1 .. k - 1 : log[j] = a /\ log[k] = b
    BY <2>1
  <2>3. k \in DOMAIN l /\ l[k] = b /\ l[j] = a
    BY <1>1, <2>2
  <2> QED BY <2>3 DEF Before
<1>4. ASSUME NEW a \in Range(log) PROVE Before(l, a, s)
  <2>1. PICK j \in DOMAIN log : log[j] = a
    BY DEF Range
  <2>2. Len(log) + 1 \in DOMAIN l /\ j \in 1 .. (Len(log) + 1) - 1 /\ l[j] = a /\ l[Len(log) + 1] = s
    BY <1>1, <2>1
  <2> QED BY <2>2 DEF Before
<1>5. ASSUME NEW k \in DOMAIN q
      PROVE  /\ \A j \in 1 .. k - 1 : Before(l, q[j], q[k])
             /\ \A x \in held \union heard : Before(l, x, q[k])
  <2>1. CASE k = Len(queue) + 1
    <3>1. ASSUME NEW j \in 1 .. k - 1 PROVE q[j] \in Range(log)
      <4>1. j \in DOMAIN queue /\ q[j] = queue[j]
        BY <1>2, <2>1
      <4> QED BY <4>1 DEF Range
    <3> QED BY <1>2, <1>4, <2>1, <3>1
  <2>2. CASE k # Len(queue) + 1
    <3>1. k \in DOMAIN queue /\ q[k] = queue[k] /\ \A j \in 1 .. k - 1 : q[j] = queue[j]
      BY <1>2, <2>2
    <3> QED BY <1>3, <3>1 DEF Lined
  <2> QED BY <2>1, <2>2
<1>6. \A h \in heard : \A x \in held : x = h \/ Before(l, h, x)
  BY <1>3 DEF Lined
<1>7. Lined(l, q, held, heard)
  BY <1>5, <1>6 DEF Lined
<1>8. ASSUME queue = <<>>, held = {} PROVE Lined(l, queue, {s}, heard)
  <2>1. DOMAIN queue = {}
    BY <1>8
  <2> QED BY <1>4, <2>1 DEF Lined
<1> QED BY <1>7, <1>8 DEF l, q

LEMMA OrderStarts == AudioInit => Orderly
<1> SUFFICES ASSUME AudioInit PROVE Orderly
  OBVIOUS
<1>1. /\ work.pc = "look" /\ overlay.step = "none" /\ overlay.speech = Nil /\ work.target = Nil
      /\ order = <<>> /\ speech = <<>> /\ started = FALSE /\ troubles = 0
      /\ \A i \in Items : fate[i] = "new"
  BY DEF AudioInit, Idle, NoOverlay
<1>2. Untroubled
  BY <1>1 DEF Untroubled
<1>3. Held = {} /\ Heard = {} /\ DOMAIN <<>> = {}
  BY <1>1, NilFacts DEF Held, Heard
<1>4. Lined(order, speech, Held, Heard)
  BY <1>1, <1>3 DEF Lined
<1>5. order \in Seq(Speech) /\ IsInjective(order) /\ Range(order) = {}
  BY <1>1, EmptyFacts
<1> QED BY <1>1, <1>2, <1>4, <1>5, NilFacts DEF Orderly

LEMMA OrderStays ==
  ASSUME Orderly, order' = order, \A s \in Speech : fate'[s] = "new" <=> fate[s] = "new",
         troubles' \in {troubles, troubles + 1},
         troubles = 0 /\ troubles' = 0 => Untroubled' /\ Lined(order, speech', Held', Heard')
  PROVE  Orderly'
<1>1. troubles' \in Nat /\ (troubles' = 0 => troubles = 0)
  BY DEF Orderly
<1> QED BY <1>1 DEF Orderly

\* A step that moves no utterance.
LEMMA OrderUnmoved ==
  ASSUME Orderly, UNCHANGED <<order, speech>>, \A s \in Speech : fate'[s] = fate[s],
         UNCHANGED overlay.speech, work'.target = work.target \/ {work'.target, work.target} \intersect Speech = {},
         troubles' \in {troubles, troubles + 1},
         troubles = 0 /\ troubles' = 0 /\ Untroubled => Untroubled'
  PROVE  Orderly'
<1>1. Held' = Held /\ Heard' = Heard
  BY DEF Held, Heard
<1>2. ASSUME troubles = 0, troubles' = 0 PROVE Untroubled' /\ Lined(order, speech', Held', Heard')
  BY <1>1, <1>2 DEF Orderly
<1> QED BY <1>2, OrderStays

LEMMA RestsInOrder ==
  ASSUME AudioInv, Orderly, Suspended \/ Unconnected \/ Hold \/ Awake
  PROVE  Orderly'
<1>1. work'.pc \in Resting /\ work'.target = Nil
  BY Rests DEF Suspended, Unconnected, Hold, Awake, Sleeps, Resting
<1>2. work.pc \in Resting /\ UNCHANGED <<speech, started, voice, overlay, op, fate, order, troubles>>
  BY DEF Suspended, Unconnected, Hold, Awake, Resting, session, queues, history
<1>3. work.target = Nil
  BY <1>2 DEF AudioInv, Hands
<1>4. Untroubled => Untroubled'
  BY <1>1, <1>2 DEF Untroubled, Resting
<1> QED BY <1>1, <1>2, <1>3, <1>4, OrderUnmoved

LEMMA QueuesInOrder ==
  ASSUME AudioInv, Orderly,
         \/ \E m \in Music : EnqueueMusic(m)
         \/ \E n \in DOMAIN music : RemoveMusic(n)
         \/ \E r \in Requests : Reserve(r) \/ Release(r)
  PROVE  Orderly'
<1>1. UNCHANGED <<speech, started, voice, work, overlay, op, order, troubles>>
  BY DEF EnqueueMusic, RemoveMusic, Reserve, Release, session, history
<1>2. ASSUME NEW s \in Speech PROVE fate'[s] = fate[s]
  <2>1. fate \in [Items -> Fates] /\ \A n \in DOMAIN music : music[n] \in Music
    BY DEF AudioInv, AudioTypeOK
  <2>2. ASSUME NEW m \in Music, NEW f \in Fates, fate' = [fate EXCEPT ![m] = f] PROVE fate'[s] = fate[s]
    <3>1. m # s /\ s \in Items
      BY NilFacts
    <3> QED BY <2>1, <2>2, <3>1
  <2>3. ASSUME NEW m \in Music, EnqueueMusic(m) PROVE fate'[s] = fate[s]
    BY <2>2, <2>3 DEF EnqueueMusic, Fates
  <2>4. ASSUME NEW n \in DOMAIN music, RemoveMusic(n) PROVE fate'[s] = fate[s]
    BY <2>1, <2>2, <2>4 DEF RemoveMusic, Fates
  <2>5. ASSUME NEW r \in Requests, Reserve(r) \/ Release(r) PROVE fate'[s] = fate[s]
    BY <2>5 DEF Reserve, Release
  <2> QED BY <2>3, <2>4, <2>5
<1>3. Untroubled => Untroubled'
  BY <1>1 DEF Untroubled
<1> QED BY <1>1, <1>2, <1>3, OrderUnmoved

LEMMA ConnectionsInOrder ==
  ASSUME AudioInv, Orderly, Connect \/ Connected \/ Drop
  PROVE  Orderly'
<1>1. /\ UNCHANGED <<speech, started, work, overlay, op, fate, order>>
      /\ troubles' = troubles + 1 \/ (troubles' = troubles /\ voice' \in {voice, "idle"} /\ (voice # "gone" => voice' = voice))
  BY DEF Connect, Connected, Drop, round, history
<1>2. ASSUME troubles = 0, troubles' = 0, Untroubled PROVE Untroubled'
  BY <1>1, <1>2 DEF Untroubled
<1>3. troubles' \in {troubles, troubles + 1}
  BY <1>1
<1> QED BY <1>1, <1>2, <1>3, OrderUnmoved

LEMMA CallsInOrder ==
  ASSUME AudioInv, Orderly,
         (\E kind \in {"skip", "seek", "clear", "leave"} : Ask(kind)) \/ Refused \/ Skip \/ Seek \/ Suspend
  PROVE  Orderly'
<1>1. UNCHANGED <<speech, started, overlay, fate, order, troubles>> /\ (Stop \/ UNCHANGED <<voice, work>>)
  BY DEF Ask, Refused, Skip, Seek, Suspend, round, unasked, history, rest
<1>2. /\ UNCHANGED <<work.pc, work.target, work.outcome>> /\ voice' \in {"idle", voice}
      /\ voice' # voice => voice # "gone"
  <2>1. CASE Stop
    <3>1. Hands /\ voice' = IF voice = "playing" THEN "idle" ELSE voice
      BY <2>1 DEF AudioInv, Stop
    <3> QED BY <2>1, <3>1, Stopped
  <2>2. CASE UNCHANGED <<voice, work>>
    BY <2>2
  <2> QED BY <1>1, <2>1, <2>2
<1>3. \/ op'.step \in {"idle", "asked"}
      \/ op'.kind = "seek"
      \/ op'.kind = "suspend" /\ op'.waits = (current # Nil)
  <2>1. CASE Seek
    <3>1. op.kind = "seek" /\ op' = [op EXCEPT !.step = "waiting"] /\ op \in Calls
      BY <2>1 DEF Seek, AudioInv, Hands
    <3> QED BY <3>1 DEF Calls
  <2>2. CASE (\E kind \in {"skip", "seek", "clear", "leave"} : Ask(kind)) \/ Refused \/ Skip \/ Suspend
    BY <2>2 DEF Ask, Refused, Skip, Suspend, NoOp
  <2> QED BY <2>1, <2>2
<1>4. work.pc \in {"starting", "play"} => current # Nil
  BY DEF AudioInv, Hands, Playing, Resting
<1>5. Untroubled => Untroubled'
  BY <1>1, <1>2, <1>3, <1>4 DEF Untroubled
<1> QED BY <1>1, <1>2, <1>5, OrderUnmoved

\* Who cuts off what plays makes trouble, or has waited for it.
LEMMA WaitedInOrder == ASSUME AudioInv, Orderly, Waited PROVE Orderly'
<1>1. /\ op.step = "waiting" /\ op'.step = "idle"
      /\ op.waits => work.pc \in {"prepare", "ready"} \/ (voice = "gone" /\ ~work.over)
      /\ voice' = IF op.kind \in {"suspend", "leave"} THEN "gone" ELSE voice
      /\ troubles' = IF voice = "playing" /\ voice' = "gone" THEN troubles + 1 ELSE troubles
      /\ UNCHANGED <<speech, started, work, overlay, fate, order>>
  BY DEF Waited, NoOp, round, history
<1>2. ASSUME troubles = 0, troubles' = 0, Untroubled PROVE Untroubled'
  <2>1. work.pc \in {"starting", "play"} => voice # "gone" /\ (op.kind \in {"suspend", "leave"} => op.waits \/ voice = "playing")
    BY <1>1, <1>2 DEF Untroubled
  <2>2. work.pc \in {"starting", "play"} => voice' # "gone"
    BY <1>1, <1>2, <2>1
  <2> QED BY <1>1, <1>2, <2>2 DEF Untroubled
<1>3. troubles' \in {troubles, troubles + 1}
  BY <1>1
<1> QED BY <1>1, <1>2, <1>3, OrderUnmoved

\* Whatever waits, is held or was heard has been committed.
LEMMA NotNew ==
  ASSUME AudioInv
  PROVE  /\ \A s \in Range(speech) \union Held \union Heard : s \in Speech /\ fate[s] # "new"
         /\ \A s \in Range(music) \union Range(speech) : fate[s] \in {"in", "lost"}
         /\ \A s \in Held : fate[s] \in {"in", "lost"} \/ (overlay.step = "metric" /\ s = overlay.speech)
<1>1. Sound(music, speech, work.target, InOverlay, fate) /\ Wiped
  BY DEF AudioInv, Placement
<1>2. Range(speech) \subseteq Speech /\ Range(music) \subseteq Music
  BY <1>1, SeqOver DEF Sound
<1>3. \A s \in Range(music) \union Range(speech) : fate[s] \in {"in", "lost"}
  BY <1>1, <1>2, NilFacts DEF Sound
<1>4. ASSUME NEW s \in Held
      PROVE  fate[s] \in {"in", "lost"} \/ (overlay.step = "metric" /\ s = overlay.speech)
  <2>1. s \in Items /\ (s = work.target \/ s = overlay.speech)
    BY NilFacts DEF Held
  <2>2. CASE s = work.target
    BY <1>1, <2>1, <2>2 DEF Sound
  <2>3. CASE s = overlay.speech /\ overlay.step # "metric"
    BY <1>1, <2>1, <2>3 DEF Sound, InOverlay
  <2> QED BY <2>1, <2>2, <2>3
<1>5. ASSUME NEW s \in Held PROVE s \in Speech /\ fate[s] # "new"
  BY <1>1, <1>4 DEF Held, Wiped
<1>6. ASSUME NEW s \in Heard PROVE s \in Speech /\ fate[s] # "new"
  BY DEF Heard
<1> QED BY <1>2, <1>3, <1>4, <1>5, <1>6

LEMMA CommitInOrder == ASSUME AudioInv, Orderly, NEW r \in Requests, Commit(r) PROVE Orderly'
<1> DEFINE s == Parts[r][Len(Parts[r]) - Left(r) + 1]
<1>0. Hands /\ fate \in [Items -> Fates] /\ speech \in Seq(Speech)
  BY DEF AudioInv, AudioTypeOK
<1>1. /\ fate' = [fate EXCEPT ![s] = "in"] /\ order' = Append(order, s)
      /\ IF current \in Music /\ started /\ overlay.step = "none"
         THEN overlay' = Mixes(s) /\ UNCHANGED speech
         ELSE speech' = Append(speech, s) /\ UNCHANGED overlay
      /\ UNCHANGED <<current, started, voice, work, op, troubles>>
  BY DEF Commit
<1>2. s \in Speech /\ fate[s] = "new"
  BY CommitReserved
<1> HIDE DEF s
<1>3. /\ \A i \in Speech : fate'[i] = IF i = s THEN "in" ELSE fate[i]
  BY <1>0, <1>1, <1>2, NilFacts
<1>4. order \in Seq(Speech) /\ IsInjective(order) /\ s \notin Range(order)
  BY <1>2 DEF Orderly
<1>5. /\ order' \in Seq(Speech) /\ IsInjective(order') /\ Range(order') = Range(order) \union {s}
  BY <1>1, <1>2, <1>4, AppendFacts
<1>6. \A i \in Speech : i \in Range(order') <=> fate'[i] # "new"
  BY <1>3, <1>5 DEF Orderly
<1>7. ASSUME troubles = 0 PROVE Untroubled' /\ Lined(order', speech', Held', Heard')
  <2>1. Untroubled /\ Lined(order, speech, Held, Heard)
    BY <1>7 DEF Orderly
  <2>2. Heard' = Heard
    BY <1>2, <1>3 DEF Heard
  <2>3. Range(speech) \union Held \union Heard \subseteq Range(order)
    BY NotNew DEF Orderly
  <2>4. /\ Lined(order', Append(speech, s), Held, Heard)
        /\ speech = <<>> /\ Held = {} => Lined(order', speech, {s}, Heard)
    BY <1>0, <1>1, <1>2, <1>4, <2>1, <2>3, LinedCommit
  <2>5. CASE current \in Music /\ started /\ overlay.step = "none"
    <3>1. overlay'.step = "new" /\ overlay'.speech = s /\ overlay'.same = TRUE /\ UNCHANGED speech
      BY <1>1, <2>5 DEF Mixes, NoOverlay
    <3>2. work.target \in Music /\ work.pc = "play" /\ speech = <<>>
      BY <1>0, <2>1, <2>5, NilFacts DEF Hands, Untroubled
    <3>3. overlay.speech = Nil
      BY <1>0, <2>5 DEF Hands, Carrying
    <3>4. Held = {} /\ Held' = {s}
      BY <1>1, <1>2, <3>1, <3>2, <3>3, NilFacts DEF Held
    <3>5. Untroubled'
      BY <1>1, <2>1, <3>1, <3>2 DEF Untroubled
    <3> QED BY <2>2, <2>4, <3>1, <3>2, <3>4, <3>5
  <2>6. CASE ~(current \in Music /\ started /\ overlay.step = "none")
    <3>1. speech' = Append(speech, s) /\ UNCHANGED overlay
      BY <1>1, <2>6
    <3>2. Held' = Held
      BY <1>1, <3>1 DEF Held
    <3>3. work.pc = "play" => current = work.target /\ started
      BY <1>0, <2>1 DEF Hands, Playing, Untroubled
    <3>4. Untroubled'
      BY <1>1, <2>1, <2>6, <3>1, <3>3 DEF Untroubled
    <3> QED BY <2>2, <2>4, <3>1, <3>2, <3>4
  <2> QED BY <2>5, <2>6
<1> QED BY <1>1, <1>5, <1>6, <1>7 DEF Orderly

LEMMA ClearInOrder == ASSUME AudioInv, Orderly, Clear PROVE Orderly'
<1> DEFINE gone == Range(music) \union Range(speech)
<1>0. Hands /\ Sound(music, speech, work.target, InOverlay, fate)
  BY DEF AudioInv, Placement
<1>1. Range(music \o speech) = gone
  BY <1>0, ConcatRange DEF Sound
<1>2. /\ fate' = [i \in Items |-> IF i \in gone THEN "cleared" ELSE fate[i]]
      /\ speech' = <<>> /\ (IF current # Nil THEN Stop ELSE UNCHANGED <<voice, work>>)
      /\ op' = [op EXCEPT !.step = "waiting", !.waits = current # Nil]
      /\ UNCHANGED <<started, overlay, order, troubles>>
  BY <1>1 DEF Clear, unasked
<1>3. \A i \in gone : fate[i] \in {"in", "lost"}
  BY NotNew
<1> HIDE DEF gone
<1>4. \A s \in Speech : s \in Items /\ fate'[s] = IF s \in gone THEN "cleared" ELSE fate[s]
  BY <1>2, NilFacts
<1>5. /\ UNCHANGED <<work.pc, work.target, work.outcome>> /\ voice' \in {"idle", voice}
      /\ voice' # voice => voice # "gone"
  <2>1. CASE Stop
    <3>1. voice' = IF voice = "playing" THEN "idle" ELSE voice
      BY <2>1 DEF Stop
    <3> QED BY <1>0, <2>1, <3>1, Stopped
  <2>2. CASE UNCHANGED <<voice, work>>
    BY <2>2
  <2> QED BY <1>2, <2>1, <2>2
<1>6. op'.waits = (current # Nil) /\ (work.pc \in {"starting", "play"} => current # Nil)
  BY <1>0, <1>2 DEF Hands, Calls, Playing, Resting
<1>7. Held' = Held /\ Heard' = Heard
  BY <1>2, <1>3, <1>4, <1>5 DEF Held, Heard
<1>8. ASSUME troubles = 0 PROVE Untroubled' /\ Lined(order, speech', Held', Heard')
  <2>1. Untroubled /\ Lined(order, speech, Held, Heard)
    BY <1>8 DEF Orderly
  <2>2. Lined(order, <<>>, Held, Heard)
    BY <2>1, LinedLess
  <2>3. Untroubled'
    BY <1>2, <1>5, <1>6, <2>1 DEF Untroubled
  <2> QED BY <1>2, <1>7, <2>2, <2>3
<1> QED BY <1>2, <1>3, <1>4, <1>8, OrderStays

LEMMA NextItemInOrder == ASSUME AudioInv, Orderly, NextItem PROVE Orderly'
<1>0. Hands /\ speech \in Seq(Speech) /\ music \in Seq(Music)
  BY DEF AudioInv, AudioTypeOK
<1>1. work.pc = "look" /\ UNCHANGED <<voice, overlay, op, fate, order, troubles>>
  BY DEF NextItem, history
<1>2. work.target = Nil
  BY <1>0, <1>1 DEF Hands, Resting
<1>3. \/ /\ speech # <<>> /\ Take(Head(speech)) /\ speech' = Tail(speech)
      \/ /\ music # <<>> /\ Take(Head(music)) /\ UNCHANGED speech
      \/ work' = Sleeps /\ UNCHANGED <<speech, started>>
  BY DEF NextItem
<1>4. ASSUME NEW i, Take(i) PROVE started' = FALSE /\ work'.pc = "begin" /\ work'.target = i
  BY <1>4 DEF Take, Idle
<1>5. ASSUME troubles = 0 PROVE Untroubled' /\ Lined(order, speech', Held', Heard')
  <2>1. Untroubled /\ Lined(order, speech, Held, Heard)
    BY <1>5 DEF Orderly
  <2>2. overlay.step = "none" /\ overlay.speech = Nil /\ started # TRUE /\ Heard' = Heard /\ Held = {}
    <3>1. overlay.step = "none" /\ started # TRUE
      BY <1>1, <2>1 DEF Untroubled
    <3>2. overlay.speech = Nil
      BY <1>0, <3>1 DEF Hands, Carrying
    <3> QED BY <1>1, <1>2, <3>1, <3>2, NilFacts DEF Held, Heard
  <2>3. CASE speech # <<>> /\ Take(Head(speech)) /\ speech' = Tail(speech)
    <3>1. Head(speech) \in Speech
      BY <1>0, <2>3
    <3>2. Held' = {Head(speech)}
      BY <1>1, <1>4, <2>2, <2>3, <3>1, NilFacts DEF Held
    <3>3. Lined(order, Tail(speech), {Head(speech)}, Heard)
      BY <1>0, <2>1, <2>2, <2>3, LinedTake
    <3>4. Untroubled'
      BY <1>1, <1>4, <2>2, <2>3 DEF Untroubled
    <3> QED BY <2>2, <2>3, <3>2, <3>3, <3>4
  <2>4. CASE music # <<>> /\ Take(Head(music)) /\ UNCHANGED speech
    <3>1. Head(music) \in Music
      BY <1>0, <2>4
    <3>2. Held' = {}
      BY <1>1, <1>4, <2>2, <2>4, <3>1, NilFacts DEF Held
    <3>4. Untroubled'
      BY <1>1, <1>4, <2>2, <2>4 DEF Untroubled
    <3> QED BY <2>1, <2>2, <2>4, <3>2, <3>4
  <2>5. CASE work' = Sleeps /\ UNCHANGED <<speech, started>>
    <3>1. work'.pc = "sleep" /\ work'.target = Nil
      BY <2>5 DEF Sleeps, Idle
    <3>2. Held' = {}
      BY <1>1, <2>2, <3>1, NilFacts DEF Held
    <3>4. Untroubled'
      BY <1>1, <2>2, <2>5, <3>1 DEF Untroubled
    <3> QED BY <2>1, <2>2, <2>5, <3>2, <3>4
  <2> QED BY <1>3, <2>3, <2>4, <2>5
<1> QED BY <1>1, <1>5, OrderStays

\* The task goes on with what it holds.
LEMMA OverlayStepsInOrder ==
  ASSUME AudioInv, Orderly, OverlayLocks \/ MixFails \/ Restore \/ Fallback
  PROVE  Orderly'
<1>1. /\ overlay.step # "none" /\ UNCHANGED <<started, fate, op, order>> /\ ~overlay.cut
      /\ UNCHANGED <<work.pc, work.target, work.outcome>> /\ voice' \in {"idle", voice}
      /\ voice' # voice => voice # "gone"
  <2>1. CASE UNCHANGED <<voice, work>>
    BY <2>1 DEF OverlayLocks, MixFails, Restore, Fallback, Overlays, rest, history
  <2>2. CASE Stop
    <3>1. Hands /\ voice' = IF voice = "playing" THEN "idle" ELSE voice
      BY <2>2 DEF AudioInv, Stop
    <3> QED BY <2>2, <3>1, Stopped DEF OverlayLocks, MixFails, Restore, Fallback, Overlays, rest, history
  <2> QED BY <2>1, <2>2 DEF OverlayLocks, MixFails, Restore, Fallback
<1>2. overlay \in Overlaid
  BY DEF AudioInv, Hands
<1>3. CASE Fallback
  <2>1. overlay.step = "fallback" /\ UNCHANGED troubles
    BY <1>3 DEF Fallback, Overlays
  <2>2. troubles # 0
    BY <2>1 DEF Orderly, Untroubled
  <2> QED BY <1>1, <2>1, <2>2, OrderStays
<1>4. CASE MixFails \/ (Restore /\ overlay'.step = "final")
  <2>1. troubles' = troubles + 1
    <3>1. CASE MixFails
      BY <3>1 DEF MixFails, MixTrouble
    <3>2. CASE Restore /\ overlay'.step = "final"
      <4>1. [overlay EXCEPT !.step = "restored"].step # "final"
        BY <1>2 DEF Overlaid
      <4> QED BY <3>2, <4>1 DEF Restore, MixTrouble
    <3> QED BY <1>4, <3>1, <3>2
  <2>2. troubles' # 0 \/ troubles # 0
    BY <2>1 DEF Orderly
  <2> QED BY <1>1, <2>1, <2>2, OrderStays
<1>5. CASE OverlayLocks \/ (Restore /\ overlay'.step # "final")
  <2>1. /\ \E to \in {"mixing", "restoring", "restored"} : overlay' = [overlay EXCEPT !.step = to]
        /\ UNCHANGED <<speech, troubles, voice>>
    <3>1. CASE OverlayLocks
      BY <3>1 DEF OverlayLocks
    <3>2. CASE Restore /\ overlay'.step # "final"
      <4>1. [overlay EXCEPT !.step = "final"].step = "final"
        BY <1>2 DEF Overlaid
      <4> QED BY <3>2, <4>1 DEF Restore
    <3> QED BY <1>5, <3>1, <3>2
  <2>2. UNCHANGED <<overlay.speech, overlay.same, overlay.cut>> /\ overlay'.step \in {"mixing", "restoring", "restored"}
    BY <1>2, <2>1 DEF Overlaid
  <2>3. Untroubled => Untroubled'
    BY <1>1, <2>1, <2>2 DEF Untroubled
  <2> QED BY <1>1, <2>1, <2>2, <2>3, OrderUnmoved
<1> QED BY <1>3, <1>4, <1>5

\* An utterance that is heard, reported or taken back leaves the task's hand in
\* its turn.
LEMMA HandInOrder ==
  ASSUME AudioInv, AudioInv', Orderly, Mixed \/ Reported \/ OverlayCut
  PROVE  Orderly'
<1> DEFINE s == overlay.speech
<1>0. Hands /\ Hands' /\ fate \in [Items -> Fates] /\ speech \in Seq(Speech)
      /\ overlay \in Overlaid
  BY DEF AudioInv, AudioTypeOK, Hands
<1>1. overlay.step # "none" /\ UNCHANGED <<started, voice, work, op, order, troubles>>
  BY DEF Mixed, Reported, OverlayCut, Overlays, rest, history
<1>2. overlay.step \in Carrying => s \in Speech /\ s \in Items /\ fate[s] # "new"
  <2>1. overlay.step \in Carrying => s \in Speech
    BY <1>0 DEF Hands, Overlaid
  <2> QED BY <2>1, NotNew, NilFacts DEF Held
<1>3. \A x \in Speech : x \in Items
  BY NilFacts
<1>4. \/ /\ overlay.step \in Carrying /\ overlay.step \notin {"broken", "fallback"}
         /\ fate' = [fate EXCEPT ![s] = "heard"] /\ overlay' = [overlay EXCEPT !.step = "metric"] /\ UNCHANGED speech
      \/ /\ UNCHANGED <<speech, fate>>
         /\ \/ overlay.step = "metric" /\ overlay' = [overlay EXCEPT !.step = "next", !.speech = Nil]
            \/ overlay.step = "broken"
            \/ overlay.step \notin Carrying /\ overlay' = [overlay EXCEPT !.step = "dead", !.speech = Nil]
      \/ /\ overlay.step \in Carrying /\ overlay' = [overlay EXCEPT !.step = "dead", !.speech = Nil]
         /\ \/ speech' = InFront(s, speech) /\ fate' = [fate EXCEPT ![s] = "in"]
            \/ UNCHANGED speech /\ fate' = [fate EXCEPT ![s] = "lost"]
  <2>1. CASE Mixed
    BY <2>1 DEF Mixed, Overlays, Carrying
  <2>2. CASE Reported
    BY <2>2 DEF Reported, Overlays
  <2>3. CASE OverlayCut
    <3>1. CASE overlay.step \in {"want", "mixing", "metric"}
      BY <2>3, <3>1 DEF OverlayCut, Carrying
    <3>2. CASE overlay.step \in {"new", "broken", "fallback"}
      BY <2>3, <3>2 DEF OverlayCut, Carrying
    <3>3. CASE overlay.step \notin {"want", "mixing", "metric", "new", "broken", "fallback"}
      BY <2>3, <3>3 DEF OverlayCut, Carrying
    <3> QED BY <3>1, <3>2, <3>3
  <2> QED BY <2>1, <2>2, <2>3
<1>5. \A x \in Speech : fate'[x] = "new" <=> fate[x] = "new"
  BY <1>0, <1>2, <1>3, <1>4
<1>6. ASSUME troubles = 0 PROVE Untroubled' /\ Lined(order, speech', Held', Heard')
  <2>1. Untroubled /\ Lined(order, speech, Held, Heard)
    BY <1>6 DEF Orderly
  <2>2. /\ work.target \in Music /\ work.pc \in {"play", "cancelling"} /\ overlay.same
        /\ overlay.step # "broken"
    BY <1>1, <2>1 DEF Untroubled
  <2>3. /\ overlay.step \in Carrying => Held = {s}
        /\ overlay.step \notin Carrying => Held = {}
    BY <1>0, <1>2, <2>2, NilFacts DEF Held, Hands
  <2>4. Untroubled'
    <3>1. /\ overlay'.step \in {"metric", "next", "dead"} /\ UNCHANGED <<overlay.same, overlay.cut>>
      BY <1>0, <1>4, <2>2 DEF Overlaid
    <3> QED BY <1>1, <2>1, <2>2, <3>1 DEF Untroubled
  <2>5. CASE fate' = [fate EXCEPT ![s] = "heard"] /\ overlay' = [overlay EXCEPT !.step = "metric"] /\ UNCHANGED speech
             /\ overlay.step \in Carrying
    <3>1. Heard' = Heard \union {s}
      BY <1>0, <1>2, <1>3, <2>5 DEF Heard
    <3>2. overlay'.speech = s
      BY <1>0, <2>5 DEF Overlaid
    <3>3. Held' = Held
      BY <1>1, <3>2 DEF Held
    <3>4. Lined(order, speech, {s}, Heard)
      BY <2>1, <2>3, <2>5
    <3>5. Lined(order, speech, {s}, Heard \union {s})
      BY <3>4, LinedHeard
    <3> QED BY <2>3, <2>4, <2>5, <3>1, <3>3, <3>5
  <2>6. CASE overlay'.speech = Nil
    <3>1. Held' = {}
      BY <1>1, <2>2, <2>6, NilFacts DEF Held
    <3>2. CASE UNCHANGED <<speech, fate>>
      <4>1. Heard' = Heard
        BY <3>2 DEF Heard
      <4>2. Lined(order, speech, {}, Heard)
        BY <2>1, LinedLess
      <4> QED BY <2>4, <3>1, <3>2, <4>1, <4>2
    <3>3. CASE overlay.step \in Carrying /\ speech' = InFront(s, speech) /\ fate' = [fate EXCEPT ![s] = "in"]
      <4>1. Heard' = Heard \ {s}
        BY <1>0, <1>2, <1>3, <3>3 DEF Heard
      <4>2. Lined(order, speech, {s}, Heard)
        BY <2>1, <2>3, <3>3
      <4>3. Lined(order, InFront(s, speech), {}, Heard \ {s})
        BY <1>0, <1>2, <3>3, <4>2, LinedGive
      <4> QED BY <2>4, <3>1, <3>3, <4>1, <4>3
    <3>4. CASE overlay.step \in Carrying /\ UNCHANGED speech /\ fate' = [fate EXCEPT ![s] = "lost"]
      <4>1. Heard' \in SUBSET Heard
        BY <1>0, <1>2, <1>3, <3>4 DEF Heard
      <4>2. Lined(order, speech, {}, Heard')
        BY <2>1, <4>1, LinedLess
      <4> QED BY <2>4, <3>1, <3>4, <4>2
    <3>5. overlay'.step # "metric"
      BY <1>0, <2>6 DEF Hands, Carrying
    <3>6. [overlay EXCEPT !.step = "metric"].step = "metric"
      BY <1>0 DEF Overlaid
    <3> QED BY <1>4, <2>2, <3>2, <3>3, <3>4, <3>5, <3>6
  <2>7. overlay'.speech = Nil
        \/ (fate' = [fate EXCEPT ![s] = "heard"] /\ overlay' = [overlay EXCEPT !.step = "metric"] /\ UNCHANGED speech
             /\ overlay.step \in Carrying)
    BY <1>0, <1>4, <2>2 DEF Overlaid
  <2> QED BY <2>5, <2>6, <2>7
<1> QED BY <1>1, <1>5, <1>6, OrderStays

\* The task takes the head of the queue while the track plays.
LEMMA TakesInOrder ==
  ASSUME AudioInv, Orderly, speech # <<>>, speech' = Tail(speech),
         overlay.speech = Nil, overlay'.speech = Head(speech),
         UNCHANGED <<order, fate, work.target, troubles>>,
         troubles = 0 /\ Untroubled => work.target \in Music /\ Untroubled'
  PROVE  Orderly'
<1>1. speech \in Seq(Speech) /\ Head(speech) \in Speech
  BY DEF AudioInv, AudioTypeOK
<1>2. Heard' = Heard
  BY DEF Heard
<1>3. ASSUME troubles = 0 PROVE Untroubled' /\ Lined(order, speech', Held', Heard')
  <2>1. Lined(order, speech, Held, Heard) /\ Untroubled
    BY <1>3 DEF Orderly
  <2>2. work.target \in Music /\ Untroubled'
    BY <1>3, <2>1
  <2>3. Held = {} /\ Held' = {Head(speech)}
    BY <1>1, <2>2, NilFacts DEF Held
  <2>4. Lined(order, Tail(speech), {Head(speech)}, Heard)
    BY <1>1, <2>1, <2>3, LinedTake
  <2> QED BY <1>2, <2>2, <2>3, <2>4
<1> QED BY <1>3, OrderStays

LEMMA StartedInOrder == ASSUME AudioInv, Orderly, Started PROVE Orderly'
<1>0. Hands
  BY DEF AudioInv
<1>1. /\ work.pc = "starting" /\ started' = TRUE /\ work' = [work EXCEPT !.pc = "play"]
      /\ UNCHANGED <<current, fate, op, voice, order, troubles>>
  BY DEF Started, rest, history
<1>2. work'.pc = "play" /\ work'.target = work.target /\ current = work.target
  BY <1>0, <1>1 DEF Hands, Works, Playing
<1>3. CASE /\ current \in Music /\ overlay.step = "none" /\ speech # <<>>
           /\ overlay' = Mixes(Head(speech)) /\ speech' = Tail(speech)
  <2>1. /\ overlay'.step = "new" /\ overlay'.speech = Head(speech) /\ overlay'.same = TRUE
        /\ overlay.speech = Nil
    BY <1>0, <1>3 DEF Mixes, NoOverlay, Hands, Carrying
  <2>2. Untroubled => work.target \in Music /\ Untroubled'
    BY <1>1, <1>2, <1>3, <2>1 DEF Untroubled
  <2> QED BY <1>1, <1>2, <1>3, <2>1, <2>2, TakesInOrder
<1>4. CASE ~(current \in Music /\ overlay.step = "none" /\ speech # <<>>) /\ UNCHANGED <<overlay, speech>>
  <2>1. Untroubled => Untroubled'
    BY <1>1, <1>2, <1>4 DEF Untroubled
  <2> QED BY <1>1, <1>2, <1>4, <2>1, OrderUnmoved
<1> QED BY <1>3, <1>4 DEF Started

\* The task finds the track it plays over, while nothing has failed.
LEMMA OverlayPlays ==
  ASSUME AudioInv, NEW step, Overlays(step), step # "none", Untroubled
  PROVE  /\ work.pc = "play" /\ work.target \in Music /\ overlay.same /\ voice # "gone"
         /\ step \notin {"broken", "fallback", "final"}
BY DEF Overlays, Untroubled

LEMMA HandedBack ==
  ASSUME AudioInv, Orderly, NEW s \in Range(speech) \union {overlay.speech}, NEW queue, HandBack(s, queue),
         s # Nil, troubles # 0, UNCHANGED <<order, troubles>>
  PROVE  Orderly'
<1>1. fate' = [fate EXCEPT ![s] = "lost"] /\ fate \in [Items -> Fates]
  BY DEF HandBack, AudioInv, AudioTypeOK
<1>2. s \in Speech /\ s \in Items /\ fate[s] # "new"
  <2>1. overlay.speech \in Speech \union {Nil}
    BY DEF AudioInv, Hands, Overlaid
  <2>2. s \in Range(speech) \union Held
    BY <2>1 DEF Held
  <2> QED BY <2>2, NotNew, NilFacts
<1>3. \A x \in Speech : x \in Items
  BY NilFacts
<1>4. \A x \in Speech : fate'[x] = "new" <=> fate[x] = "new"
  BY <1>1, <1>2, <1>3
<1> QED BY <1>4, OrderStays

LEMMA OverlayBeginsInOrder == ASSUME AudioInv, Orderly, OverlayBegins PROVE Orderly'
<1>0. Hands
  BY DEF AudioInv
<1>1. /\ Overlays("new") /\ overlay.step = "new" /\ overlay.speech # Nil
      /\ UNCHANGED <<started, voice, work, op, order, troubles>>
  BY <1>0 DEF OverlayBegins, Overlays, rest, history, Hands, Carrying
<1>2. CASE overlay.same
  <2>1. UNCHANGED <<speech, fate>> /\ overlay' = [overlay EXCEPT !.step = Locks("mixing", "want")]
    BY <1>2 DEF OverlayBegins
  <2>2. overlay'.step \in {"mixing", "want"} /\ UNCHANGED <<overlay.speech, overlay.same, overlay.cut>>
    BY <1>0, <2>1 DEF Hands, Overlaid, Locks
  <2>3. Untroubled => Untroubled'
    BY <1>1, <2>1, <2>2 DEF Untroubled
  <2> QED BY <1>1, <2>1, <2>2, <2>3, OrderUnmoved
<1>3. CASE ~overlay.same
  <2>1. HandBack(overlay.speech, speech)
    BY <1>3 DEF OverlayBegins
  <2>2. troubles # 0
    BY <1>1, <1>3 DEF Orderly, Untroubled
  <2> QED BY <1>1, <2>1, <2>2, HandedBack
<1> QED BY <1>2, <1>3

LEMMA NextSpeechInOrder == ASSUME AudioInv, Orderly, NextSpeech PROVE Orderly'
<1>0. Hands /\ speech \in Seq(Speech)
  BY DEF AudioInv, AudioTypeOK
<1>1. /\ Overlays("next") /\ overlay.step = "next" /\ overlay.speech = Nil
      /\ UNCHANGED <<started, voice, work, op, order, troubles>>
  BY <1>0 DEF NextSpeech, Overlays, rest, history, Hands, Carrying
<1>2. CASE speech = <<>>
  <2>1. /\ UNCHANGED <<speech, fate>>
        /\ overlay' = [overlay EXCEPT !.step =
                          IF overlay.same /\ voice # "gone" THEN Locks("restoring", "restore") ELSE "final"]
    BY <1>2 DEF NextSpeech
  <2>2. UNCHANGED <<overlay.speech, overlay.same, overlay.cut>>
    BY <1>0, <2>1 DEF Hands, Overlaid
  <2>3. ASSUME Untroubled PROVE Untroubled'
    <3>1. overlay.same /\ voice # "gone"
      BY <1>1, <2>3, OverlayPlays
    <3>2. overlay'.step \in {"restoring", "restore"}
      BY <1>0, <2>1, <3>1 DEF Hands, Overlaid, Locks
    <3> QED BY <1>1, <2>1, <2>2, <2>3, <3>2 DEF Untroubled
  <2> QED BY <1>1, <2>1, <2>2, <2>3, OrderUnmoved
<1>3. CASE speech # <<>> /\ overlay.same
  <2>1. /\ overlay' = [overlay EXCEPT !.step = Locks("mixing", "want"), !.speech = Head(speech)]
        /\ speech' = Tail(speech) /\ UNCHANGED fate
    BY <1>3 DEF NextSpeech
  <2>2. /\ overlay'.step \in {"mixing", "want"} /\ overlay'.speech = Head(speech)
        /\ UNCHANGED <<overlay.same, overlay.cut>>
    BY <1>0, <2>1 DEF Hands, Overlaid, Locks
  <2>3. Untroubled => work.target \in Music /\ Untroubled'
    BY <1>1, <2>1, <2>2 DEF Untroubled
  <2> QED BY <1>1, <1>3, <2>1, <2>2, <2>3, TakesInOrder
<1>4. CASE speech # <<>> /\ ~overlay.same
  <2>1. HandBack(Head(speech), Tail(speech))
    BY <1>4 DEF NextSpeech
  <2>2. troubles # 0
    BY <1>1, <1>4 DEF Orderly, Untroubled
  <2>3. Head(speech) \in Speech /\ Head(speech) \in Range(speech)
    BY <1>0, <1>4 DEF Range
  <2> QED BY <1>1, <2>1, <2>2, <2>3, HandedBack, NilFacts
<1> QED BY <1>2, <1>3, <1>4

LEMMA OverlayEndsInOrder == ASSUME AudioInv, Orderly, OverlayEnds PROVE Orderly'
<1>0. Hands
  BY DEF AudioInv
<1>1. /\ Overlays("restored") \/ Overlays("final")
      /\ overlay.step \in {"restored", "final"} /\ overlay.speech = Nil
      /\ UNCHANGED <<started, fate, voice, work, op, order, troubles>>
  BY <1>0 DEF OverlayEnds, Overlays, rest, history, Hands, Carrying
<1>2. CASE overlay.step = "restored" /\ overlay.same /\ voice # "gone" /\ speech # <<>>
  <2>1. overlay' = Mixes(Head(speech)) /\ speech' = Tail(speech)
    BY <1>2 DEF OverlayEnds
  <2>2. overlay'.step = "new" /\ overlay'.speech = Head(speech) /\ overlay'.same = TRUE
    BY <2>1 DEF Mixes, NoOverlay
  <2>3. ASSUME Untroubled PROVE work.target \in Music /\ Untroubled'
    <3>1. work.pc = "play" /\ work.target \in Music
      BY <1>1, <2>3, OverlayPlays
    <3> QED BY <1>1, <2>1, <2>2, <2>3, <3>1 DEF Untroubled
  <2> QED BY <1>1, <1>2, <2>1, <2>2, <2>3, TakesInOrder
<1>3. CASE ~(overlay.step = "restored" /\ overlay.same /\ voice # "gone" /\ speech # <<>>)
  <2>1. overlay' = NoOverlay /\ UNCHANGED speech
    BY <1>3 DEF OverlayEnds
  <2>2. overlay'.step = "none" /\ overlay'.speech = Nil
    BY <2>1 DEF NoOverlay
  <2>3. ASSUME Untroubled PROVE Untroubled'
    <3>1. work.pc = "play" /\ overlay.same /\ voice # "gone" /\ overlay.step # "final"
      <4>1. CASE Overlays("restored")
        BY <2>3, <4>1, OverlayPlays DEF Overlays
      <4>2. CASE Overlays("final")
        BY <2>3, <4>2, OverlayPlays
      <4> QED BY <1>1, <4>1, <4>2
    <3> QED BY <1>1, <1>3, <2>1, <2>2, <2>3, <3>1 DEF Untroubled
  <2> QED BY <1>1, <2>1, <2>2, <2>3, OrderUnmoved
<1> QED BY <1>2, <1>3

\* At the end of a round an utterance was heard, is given up or goes back to the
\* front; it is never put behind another.
LEMMA RetireInOrder ==
  ASSUME AudioInv, AudioInv', Orderly, work.pc \in Playing, NEW outcome \in {"completed", "failed", "refused", "cut"},
         Retire(outcome), order' = order, troubles' \in {troubles, troubles + 1},
         troubles = 0 /\ troubles' = 0 => overlay.speech = Nil /\ overlay'.step = "none"
  PROVE  Orderly'
<1> DEFINE i == work.target
           where == Whither(i, outcome)
<1>0. /\ Hands /\ Hands' /\ Sound(music, speech, i, InOverlay, fate) /\ Why /\ Placement
      /\ fate \in [Items -> Fates] /\ speech \in Seq(Speech)
  BY DEF AudioInv, AudioTypeOK, Placement
<1>1. i # Nil /\ i \in Items /\ fate[i] \in {"in", "lost"}
  <2>1. i # Nil /\ i \in Items
    BY <1>0 DEF Hands, Works, Playing, Resting
  <2> QED BY <1>0, <2>1, NilFacts DEF Sound
<1>2. /\ started' = FALSE
      /\ \/ fate' = fate
         \/ where = "nowhere" /\ \E f \in {"heard", "cleared", "dropped", "refused"} : fate' = [fate EXCEPT ![i] = f]
      /\ \/ /\ where # "nowhere" /\ work' = [work EXCEPT !.pc = "put", !.outcome = where]
            /\ UNCHANGED speech
         \/ Placed(i, where) /\ work' = Idle
  <2>1. Ended(outcome) \in {"heard", "cleared", "dropped", "refused"}
    BY DEF Ended
  <2>2. /\ started' = FALSE
        /\ fate' = IF where = "nowhere" /\ fate[i] = "in"
                   THEN [fate EXCEPT ![i] = Ended(outcome)] ELSE fate
        /\ IF where # "nowhere" /\ ~LockFree
           THEN /\ work' = [work EXCEPT !.pc = "put", !.outcome = where]
                /\ UNCHANGED <<music, speech, wake>>
           ELSE Placed(i, where) /\ work' = Idle
    BY DEF Retire
  <2> HIDE DEF where
  <2> QED BY <2>1, <2>2
<1>3. where = "back" => i \in Music
  BY <1>0, WhitherFacts
<1>4. i \in Speech => where \in {"held", "nowhere"}
  BY NilFacts DEF Whither
<1> HIDE DEF where
<1>5. \A x \in Speech : /\ fate'[x] = "new" <=> fate[x] = "new"
                        /\ x # i => fate'[x] = fate[x]
  BY <1>0, <1>1, <1>2, NilFacts
<1>6. \/ where # "nowhere" /\ work'.pc = "put" /\ work'.outcome = where /\ work'.target = i /\ UNCHANGED speech
      \/ Placed(i, where) /\ work'.pc = "look" /\ work'.target = Nil
  <2>1. CASE work' = [work EXCEPT !.pc = "put", !.outcome = where] /\ where # "nowhere" /\ UNCHANGED speech
    BY <1>0, <2>1 DEF Hands, Works
  <2>2. CASE Placed(i, where) /\ work' = Idle
    BY <2>2 DEF Idle
  <2> QED BY <1>2, <2>1, <2>2
<1>7. ASSUME troubles = 0, troubles' = 0 PROVE Untroubled' /\ Lined(order, speech', Held', Heard')
  <2>1. Lined(order, speech, Held, Heard)
    BY <1>7 DEF Orderly
  <2>2. overlay.speech = Nil /\ overlay'.step = "none" /\ overlay'.speech = Nil
    BY <1>0, <1>7 DEF Hands, Carrying
  <2>3. Untroubled'
    BY <1>2, <1>3, <1>6, <2>2 DEF Untroubled
  <2>4. CASE i \in Music
    <3>1. speech' = speech
      BY <1>6, <2>4, NilFacts DEF Placed
    <3>2. Held = {} /\ Held' = {}
      BY <1>6, <2>2, <2>4, NilFacts DEF Held
    <3>3. Heard' = Heard
      BY <1>5, <2>4, NilFacts DEF Heard
    <3> QED BY <2>1, <2>3, <3>1, <3>2, <3>3
  <2>5. CASE i \in Speech /\ where = "nowhere"
    <3>1. speech' = speech /\ work'.target = Nil
      BY <1>6, <2>5 DEF Placed
    <3>2. Held = {i} /\ Held' = {}
      BY <2>2, <2>5, <3>1, NilFacts DEF Held
    <3>3. Heard' \in SUBSET (Heard \union {i})
      BY <1>5 DEF Heard
    <3>4. Lined(order, speech, {}, Heard \union {i})
      BY <2>1, <3>2, LinedHeard
    <3>5. Lined(order, speech, {}, Heard')
      BY <3>3, <3>4, LinedLess
    <3> QED BY <2>3, <3>1, <3>2, <3>5
  <2>6. CASE i \in Speech /\ where = "held"
    <3>1. fate' = fate /\ Heard' = Heard /\ Heard \ {i} = Heard
      BY <1>1, <1>2, <2>6 DEF Heard
    <3>2. Held = {i}
      BY <2>2, <2>6, NilFacts DEF Held
    <3>3. CASE work'.target = i /\ UNCHANGED speech
      <4>1. Held' = Held
        BY <2>2, <3>3 DEF Held
      <4> QED BY <2>1, <2>3, <3>1, <3>3, <4>1
    <3>4. CASE Placed(i, where) /\ work'.target = Nil
      <4>1. speech' = InFront(i, speech)
        BY <2>6, <3>4 DEF Placed
      <4>2. Held' = {}
        BY <2>2, <3>4, NilFacts DEF Held
      <4>3. Lined(order, InFront(i, speech), {}, Heard \ {i})
        BY <1>0, <2>1, <2>6, <3>2, LinedGive
      <4> QED BY <2>3, <3>1, <4>1, <4>2, <4>3
    <3> QED BY <1>6, <3>3, <3>4
  <2> QED BY <1>1, <1>4, <2>4, <2>5, <2>6, NilFacts
<1> QED BY <1>5, <1>7, OrderStays

LEMMA PutBackInOrder == ASSUME AudioInv, Orderly, PutBack PROVE Orderly'
<1> DEFINE i == work.target
<1>0. /\ Hands /\ Sound(music, speech, i, InOverlay, fate) /\ speech \in Seq(Speech)
  BY DEF AudioInv, AudioTypeOK, Placement
<1>1. /\ work.pc = "put" /\ Placed(i, work.outcome) /\ work' = Idle
      /\ UNCHANGED <<started, voice, overlay, op, fate, order, troubles>>
  BY DEF PutBack, history
<1>2. i \in Items /\ work.outcome \in {"held", "front", "back"} /\ fate[i] \in {"in", "lost"}
  <2>1. i # Nil /\ i \in Items /\ work.outcome \in {"held", "front", "back"}
    BY <1>0, <1>1 DEF Hands, Works, Resting
  <2> QED BY <1>0, <2>1, NilFacts DEF Sound
<1>3. work'.pc = "look" /\ work'.target = Nil /\ Heard' = Heard
  BY <1>1 DEF Idle, Heard
<1>4. ASSUME troubles = 0 PROVE Untroubled' /\ Lined(order, speech', Held', Heard')
  <2>1. Untroubled /\ Lined(order, speech, Held, Heard)
    BY <1>4 DEF Orderly
  <2>2. overlay.step = "none" /\ overlay.speech = Nil /\ (work.outcome = "back" => i \in Music)
    BY <1>0, <1>1, <2>1 DEF Untroubled, Hands, Carrying
  <2>3. Untroubled'
    BY <1>1, <1>3, <2>1, <2>2 DEF Untroubled
  <2>4. Held' = {}
    BY <1>1, <1>3, <2>2, NilFacts DEF Held
  <2>5. CASE i \in Music
    <3>1. speech' = speech
      BY <1>1, <2>5, NilFacts DEF Placed
    <3>2. Held = {}
      BY <2>2, <2>5, NilFacts DEF Held
    <3> QED BY <1>3, <2>1, <2>3, <2>4, <3>1, <3>2
  <2>6. CASE i \in Speech
    <3>1. work.outcome \in {"held", "front"}
      BY <1>2, <2>2, <2>6, NilFacts
    <3>2. speech' = InFront(i, speech)
      BY <1>1, <2>6, <3>1 DEF Placed
    <3>3. Held = {i} /\ Heard \ {i} = Heard
      BY <1>2, <2>2, <2>6, NilFacts DEF Held, Heard
    <3>4. Lined(order, InFront(i, speech), {}, Heard \ {i})
      BY <1>0, <2>1, <2>6, <3>3, LinedGive
    <3> QED BY <1>3, <2>3, <2>4, <3>2, <3>3, <3>4
  <2> QED BY <1>2, <2>5, <2>6, NilFacts
<1> QED BY <1>1, <1>4, OrderStays

LEMMA CancelledInOrder == ASSUME AudioInv, AudioInv', Orderly, Cancelled PROVE Orderly'
<1>0. Hands
  BY DEF AudioInv
<1>1. /\ work.pc = "cancelling" /\ overlay.step = "dead" /\ Retire(work.outcome) /\ overlay' = NoOverlay
      /\ UNCHANGED <<order, troubles>>
  BY DEF Cancelled, history
<1>2. work.pc \in Playing /\ work.outcome \in {"completed", "failed", "refused", "cut"}
      /\ overlay.speech = Nil /\ overlay'.step = "none"
  BY <1>0, <1>1 DEF Hands, Playing, Carrying, NoOverlay
<1> QED BY <1>1, <1>2, RetireInOrder

LEMMA FinallyInOrder ==
  ASSUME AudioInv, AudioInv', Orderly, work.pc \in Playing, work.pc # "cancelling",
         NEW outcome \in {"completed", "failed", "refused", "cut"}, Finally(outcome),
         order' = order, troubles' \in {troubles, troubles + 1},
         troubles = 0 /\ troubles' = 0 => overlay.step = "none" \/ (work.pc = "play" /\ outcome = "completed")
  PROVE  Orderly'
<1>0. Hands
  BY DEF AudioInv
<1>1. CASE overlay.step # "none" /\ (outcome = "completed" \/ ~work.resolved)
  <2>1. /\ overlay' = [overlay EXCEPT !.cut = TRUE]
        /\ work' = [work EXCEPT !.pc = "cancelling", !.outcome = outcome]
        /\ UNCHANGED <<speech, fate, started, op>>
    BY <1>1 DEF Finally, round
  <2>2. /\ overlay'.cut = TRUE /\ UNCHANGED <<overlay.step, overlay.speech, overlay.same>>
        /\ work'.pc = "cancelling" /\ work'.target = work.target
    BY <1>0, <2>1 DEF Hands, Works, Overlaid
  <2>3. Untroubled => Untroubled'
    BY <1>1, <2>1, <2>2 DEF Untroubled
  <2> QED BY <2>1, <2>2, <2>3, OrderUnmoved
<1>2. CASE ~(overlay.step # "none" /\ (outcome = "completed" \/ ~work.resolved))
  <2>1. Retire(outcome) /\ overlay' = [overlay EXCEPT !.same = FALSE]
    BY <1>2 DEF Finally
  <2>2. UNCHANGED overlay.step
    BY <1>0, <2>1 DEF Hands, Overlaid
  <2>3. troubles = 0 /\ troubles' = 0 => overlay.speech = Nil /\ overlay'.step = "none"
    BY <1>0, <1>2, <2>2 DEF Hands, Carrying
  <2> QED BY <2>1, <2>3, RetireInOrder
<1> QED BY <1>1, <1>2

LEMMA AttemptInOrder ==
  ASSUME AudioInv, AudioInv', Orderly, NEW pc \in {"prepare", "ready"}, NEW tries, Attempt(pc, tries),
         order' = order, troubles' \in {troubles, troubles + 1},
         troubles = 0 /\ troubles' = 0 => work.pc \in {"begin", "prepare", "ready"}
  PROVE  Orderly'
<1>1. work \in Works
  BY DEF AudioInv, Hands
<1>2. work'.pc = pc /\ work'.target = work.target /\ UNCHANGED <<speech, fate, started, overlay, op>>
  BY <1>1 DEF Attempt, Works, round
<1>3. ASSUME troubles = 0, troubles' = 0, Untroubled PROVE Untroubled'
  BY <1>2, <1>3 DEF Untroubled
<1> QED BY <1>2, <1>3, OrderUnmoved

LEMMA AttemptFailsInOrder ==
  ASSUME AudioInv, AudioInv', Orderly, NEW error \in {"failed", "refused"}, AttemptFails(error),
         work.pc \in {"prepare", "ready", "play"},
         order' = order, troubles' \in {troubles, troubles + 1},
         troubles = 0 /\ troubles' = 0 => work.pc \in {"prepare", "ready"}
  PROVE  Orderly'
<1>1. \/ \E outcome \in {"cut", "failed", "refused"} : Finally(outcome)
      \/ \E pc \in {"prepare", "ready"} : Attempt(pc, work.tries + 1)
  BY DEF AttemptFails
<1>2. work.pc \in Playing /\ work.pc # "cancelling"
  BY DEF Playing
<1>3. troubles = 0 /\ troubles' = 0 => overlay.step = "none"
  BY DEF Orderly, Untroubled
<1>4. ASSUME NEW outcome \in {"cut", "failed", "refused"}, Finally(outcome) PROVE Orderly'
  BY <1>2, <1>3, <1>4, FinallyInOrder
<1>5. ASSUME NEW pc \in {"prepare", "ready"}, Attempt(pc, work.tries + 1) PROVE Orderly'
  BY <1>5, AttemptInOrder
<1> QED BY <1>1, <1>4, <1>5

LEMMA PlaybackInOrder ==
  ASSUME AudioInv, AudioInv', Orderly,
         Begin \/ Resolved \/ ResolveFails \/ Play \/ Completed \/ EarlyEnd \/ PlayFails
  PROVE  Orderly'
<1>0. Hands
  BY DEF AudioInv
<1>1. order' = order
  BY DEF Begin, Resolved, ResolveFails, Play, Completed, EarlyEnd, PlayFails, rest, history
<1>2. troubles \in Nat
  BY DEF Orderly
<1>3. work.pc \in {"begin", "prepare", "ready"} /\ troubles = 0 => overlay.step = "none"
  BY DEF Orderly, Untroubled
<1>4. CASE Begin
  <2>1. work.pc = "begin" /\ troubles' = troubles /\ work.pc \in Playing
    BY <1>4 DEF Begin, Playing
  <2>2. Finally("cut") \/ \E pc \in {"prepare", "ready"} : Attempt(pc, 1)
    BY <1>4 DEF Begin
  <2> QED BY <1>1, <1>3, <2>1, <2>2, FinallyInOrder, AttemptInOrder
<1>5. CASE Resolved
  <2>1. /\ work.pc = "prepare" /\ work' = [work EXCEPT !.pc = "ready", !.resolved = TRUE]
        /\ overlay' = [overlay EXCEPT !.same = FALSE] /\ op' = [op EXCEPT !.waits = FALSE]
        /\ UNCHANGED <<speech, fate, started, voice, troubles>>
    BY <1>5 DEF Resolved, round
  <2>2. work'.pc = "ready" /\ UNCHANGED <<work.target, overlay.step, overlay.speech, overlay.cut>>
    BY <1>0, <2>1 DEF Hands, Works, Overlaid
  <2>3. Untroubled => Untroubled'
    BY <2>1, <2>2 DEF Untroubled
  <2> QED BY <1>1, <2>1, <2>2, <2>3, OrderUnmoved
<1>6. CASE ResolveFails
  <2>1. work.pc = "prepare" /\ troubles' = troubles + 1 /\ (AttemptFails("failed") \/ AttemptFails("refused"))
    BY <1>6 DEF ResolveFails, Trouble
  <2> QED BY <1>1, <2>1, AttemptFailsInOrder
<1>7. CASE Play
  <2>1. work.pc = "ready" /\ troubles' = troubles /\ work.pc \in Playing
    BY <1>7 DEF Play, Playing
  <2>2. CASE Finally("cut")
    BY <1>1, <1>3, <2>1, <2>2, FinallyInOrder
  <2>3. CASE AttemptFails("failed")
    BY <1>1, <2>1, <2>3, AttemptFailsInOrder
  <2>4. CASE /\ voice' = "playing" /\ started' = FALSE
             /\ work' = [work EXCEPT !.pc = "starting", !.quiet = FALSE, !.over = FALSE]
             /\ UNCHANGED <<round, overlay, op>>
    <3>1. work'.pc = "starting" /\ UNCHANGED <<work.target, overlay, op, speech, fate>>
      BY <1>0, <2>4 DEF Hands, Works, round
    <3>2. Untroubled => Untroubled'
      BY <2>1, <2>4, <3>1 DEF Untroubled
    <3> QED BY <1>1, <2>1, <3>1, <3>2, OrderUnmoved
  <2> QED BY <1>7, <2>2, <2>3, <2>4 DEF Play
<1>8. CASE Completed
  <2>1. work.pc = "play" /\ troubles' = troubles /\ work.pc \in Playing /\ Finally("completed")
    BY <1>8 DEF Completed, Playing
  <2> QED BY <1>1, <2>1, FinallyInOrder
<1>9. CASE EarlyEnd
  <2>1. work.pc = "play" /\ troubles' = troubles + 1 /\ work.pc \in Playing
    BY <1>9 DEF EarlyEnd, Trouble, Playing
  <2>2. troubles' # 0
    BY <1>2, <2>1
  <2>3. \/ \E outcome \in {"cut", "failed", "refused"} : Finally(outcome)
        \/ UNCHANGED <<round, started, overlay, op>>
    BY <1>9 DEF EarlyEnd
  <2>4. ASSUME NEW outcome \in {"cut", "failed", "refused"}, Finally(outcome) PROVE Orderly'
    BY <1>1, <2>1, <2>2, <2>4, FinallyInOrder
  <2>5. CASE UNCHANGED <<round, started, overlay, op>>
    BY <1>1, <2>1, <2>2, <2>5, OrderStays DEF round
  <2> QED BY <2>3, <2>4, <2>5
<1>10. CASE PlayFails
  <2>1. work.pc = "play" /\ AttemptFails("failed") /\ IF voice = "gone" THEN UNCHANGED troubles ELSE troubles' = troubles + 1
    BY <1>10 DEF PlayFails, Trouble
  <2>2. ~(troubles = 0 /\ troubles' = 0)
    BY <1>2, <2>1 DEF Orderly, Untroubled
  <2>3. troubles' \in {troubles, troubles + 1}
    BY <2>1
  <2> QED BY <1>1, <2>1, <2>2, <2>3, AttemptFailsInOrder
<1> QED BY <1>4, <1>5, <1>6, <1>7, <1>8, <1>9, <1>10

LEMMA OrderSteps == AudioInv /\ AudioInv' /\ Orderly /\ [AudioNext]_audioVars => Orderly'
<1> SUFFICES ASSUME AudioInv, AudioInv', Orderly, [AudioNext]_audioVars PROVE Orderly'
  OBVIOUS
<1>1. CASE (\E m \in Music : EnqueueMusic(m)) \/ (\E n \in DOMAIN music : RemoveMusic(n))
  BY <1>1, QueuesInOrder
<1>2. CASE \E r \in Requests : Reserve(r) \/ Release(r) \/ Commit(r)
  BY <1>2, QueuesInOrder, CommitInOrder
<1>3. CASE Worker
  BY <1>3, RestsInOrder, NextItemInOrder, PutBackInOrder, CancelledInOrder, StartedInOrder, PlaybackInOrder DEF Worker
<1>4. CASE OverlayTask
  BY <1>4, OverlayBeginsInOrder, OverlayStepsInOrder, HandInOrder, NextSpeechInOrder, OverlayEndsInOrder
     DEF OverlayTask
<1>5. CASE Asked
  BY <1>5, CallsInOrder, ClearInOrder, WaitedInOrder, ConnectionsInOrder DEF Asked
<1>6. CASE Drop
  BY <1>6, ConnectionsInOrder
<1>7. CASE UNCHANGED audioVars
  <2>1. UNCHANGED <<speech, started, voice, work, overlay, op, fate, order, troubles>>
    BY <1>7 DEF audioVars, round, rest, history
  <2>2. Untroubled => Untroubled'
    BY <2>1 DEF Untroubled
  <2> QED BY <2>1, <2>2, OrderUnmoved
<1> QED BY <1>1, <1>2, <1>3, <1>4, <1>5, <1>6, <1>7 DEF AudioNext

LEMMA OrderFacts == AudioInv /\ Orderly => InOrder
<1> SUFFICES ASSUME AudioInv, Orderly, NEW n \in 1 .. Len(order), NEW k \in 1 .. n - 1,
                    troubles = 0, fate[order[n]] = "heard", fate[order[k]] = "in"
             PROVE  FALSE
  BY DEF InOrder
<1> DEFINE a == order[n]
           b == order[k]
<1>1. /\ order \in Seq(Speech) /\ IsInjective(order) /\ Lined(order, speech, Held, Heard)
      /\ Sound(music, speech, work.target, InOverlay, fate)
  BY DEF AudioInv, Placement, Orderly
<1>2. n \in DOMAIN order /\ k \in DOMAIN order /\ k < n /\ a \in Speech /\ b \in Speech
  BY <1>1
<1>3. a \in Heard
  BY <1>2 DEF Heard
<1>4. ~Before(order, a, b)
  <2> SUFFICES ASSUME NEW p \in DOMAIN order, NEW q \in 1 .. p - 1, order[q] = a, order[p] = b PROVE FALSE
    BY DEF Before
  <2>1. q \in DOMAIN order /\ q < p
    BY <1>1
  <2>2. p = k /\ q = n
    BY <1>1, <1>2, <2>1 DEF IsInjective
  <2> QED BY <1>2, <2>1, <2>2
<1>5. b \in Items /\ b \notin Music
  BY <1>2, NilFacts
<1>6. b \in Range(music) \union Range(speech) \union {work.target, InOverlay}
  BY <1>1, <1>5 DEF Sound
<1>7. b \notin Range(music) /\ b # Nil
  <2>1. Range(music) \subseteq Music
    BY <1>1, SeqOver DEF Sound
  <2> QED BY <1>5, <2>1, NilFacts
<1>8. b \notin Range(speech)
  BY <1>1, <1>3, <1>4 DEF Lined, Range
<1>9. b \notin Held
  BY <1>1, <1>3, <1>4 DEF Lined
<1>10. b # work.target /\ b # InOverlay
  BY <1>2, <1>7, <1>9 DEF Held, InOverlay
<1> QED BY <1>6, <1>7, <1>8, <1>10

-------------------------------------------------------------------------------
(* The theorems                                                            *)

LEMMA AudioStutters == ASSUME AudioInv, UNCHANGED audioVars PROVE AudioInv'
<1>1. UNCHANGED <<music, speech, line, current, started, active, flags, suspended, bound, wake, voice,
                  work, overlay, op, joining, fate, fails, order, wiped, skipped>>
  BY DEF audioVars, round, rest, history
<1>2. AudioTypeOK' /\ Hands' /\ InOverlay' = InOverlay /\ (Ending => Ending')
  BY <1>1 DEF AudioInv, AudioTypeOK, Hands, InOverlay, Ending
<1> QED BY <1>1, <1>2, Unmoved

LEMMA AudioSteps == AudioInv /\ [AudioNext]_audioVars => AudioInv'
<1> SUFFICES ASSUME AudioInv, [AudioNext]_audioVars PROVE AudioInv'
  OBVIOUS
<1>1. CASE \E m \in Music : EnqueueMusic(m)
  BY <1>1, EnqueueKeeps
<1>2. CASE \E n \in DOMAIN music : RemoveMusic(n)
  BY <1>2, RemoveKeeps
<1>3. CASE \E r \in Requests : Reserve(r) \/ Release(r) \/ Commit(r)
  BY <1>3, ReserveKeeps, ReleaseKeeps, CommitKeeps
<1>4. CASE Worker
  BY <1>4, RestSteps, NextItemKeeps, PutBackKeeps, CancelledKeeps, BeginKeeps, ResolvedKeeps, ResolveFailsKeeps,
     PlayKeeps, StartedKeeps, CompletedKeeps, EarlyEndKeeps, PlayFailsKeeps DEF Worker
<1>5. CASE OverlayTask
  BY <1>5, OverlayBeginsKeeps, OverlayLocksKeeps, MixedKeeps, MixFailsKeeps, ReportedKeeps, NextSpeechKeeps,
     RestoreKeeps, OverlayEndsKeeps, FallbackKeeps, OverlayCutKeeps DEF OverlayTask
<1>6. CASE Asked
  BY <1>6, AskKeeps, RefusedKeeps, SkipKeeps, SeekKeeps, ClearKeeps, SuspendKeeps, WaitedKeeps, ConnectKeeps,
     ConnectedKeeps DEF Asked
<1>7. CASE Drop
  BY <1>7, DropKeeps
<1>8. CASE UNCHANGED audioVars
  BY <1>8, AudioStutters
<1> QED BY <1>1, <1>2, <1>3, <1>4, <1>5, <1>6, <1>7, <1>8 DEF AudioNext

\* The invariant of the audio session: what the worker and the overlay task
\* have in their hands, where each item is, and why one vanishes.
THEOREM AudioInductive == AudioSpec => []AudioInv
<1>1. AudioInit => AudioInv
  BY AudioStarts
<1>2. AudioInv /\ [AudioNext]_audioVars => AudioInv'
  BY AudioSteps
<1> QED BY <1>1, <1>2, PTL DEF AudioSpec

\* The queues, the flags and the connection keep their types in every state
\* that the worker, the overlay task and the callers reach.
THEOREM AudioTypeCorrect == AudioSpec => []AudioTypeOK
<1>1. AudioInv => AudioTypeOK
  BY DEF AudioInv
<1> QED BY <1>1, AudioInductive, PTL

\* An accepted item is in one place until something became of it, and a track that
\* its provider does not refuse for good vanishes unheard only after a skip or the
\* last of its failures, for any tracks, requests, limits and numbers of failures.
THEOREM AccountedHolds == AudioSpec => []Accounted
<1>1. AudioInv => Accounted
  BY PlaceFacts
<1> QED BY <1>1, AudioInductive, PTL

\* Nothing that a clear found in the queues or playing survives it.
THEOREM ClearEmptiesHolds == AudioSpec => []ClearEmpties
<1>1. AudioInv => ClearEmpties
  BY PlaceFacts
<1> QED BY <1>1, AudioInductive, PTL

\* Utterances are heard in the order of their commitment as long as no stream, mix
\* or connection fails, whatever people skip, seek, clear, suspend and resume, for
\* any number of tracks, requests and parts.
THEOREM InOrderHolds == AudioSpec => []InOrder
<1>1. AudioInit => Orderly
  BY OrderStarts
<1>2. AudioInv /\ AudioInv' /\ Orderly /\ [AudioNext]_audioVars => Orderly'
  BY OrderSteps
<1>3. AudioInv /\ Orderly => InOrder
  BY OrderFacts
<1> QED BY <1>1, <1>2, <1>3, AudioInductive, PTL DEF AudioSpec

===============================================================================
