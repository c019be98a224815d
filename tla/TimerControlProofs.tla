------------------------- MODULE TimerControlProofs -------------------------
(***************************************************************************)
(* Proofs about TimerControl, for every word size, set of speeds, of times *)
(* and of drifts.                                                          *)
(***************************************************************************)
EXTENDS TimerControl, TLAPS

\* A multiple of the word other than zero is at least a word away from zero.
LEMMA Multiples ==
  ASSUME NEW q \in Int, NEW w \in Nat, w > 0
  PROVE  /\ q >= 1 => q * w >= w
         /\ q <= -1 => q * w <= -w
         /\ q * w \in Int
<1>1. q >= 1 => q * w >= w
  BY SMT
<1>2. q <= -1 => q * w <= -w
  BY SMT
<1>. QED
  BY <1>1, <1>2, SMT

\* Word yields a time_type that differs from its argument by whole words.
LEMMA WordFacts ==
  ASSUME NEW x \in Int
  PROVE  /\ Word(x) \in 0 .. WORD - 1
         /\ \E q \in Int : Word(x) = x + q * WORD
<1>1. x % WORD = x + (-(x \div WORD)) * WORD
  BY WordAssumption, SMT
<1>2. x % WORD \in 0 .. WORD - 1 /\ -(x \div WORD) \in Int
  BY WordAssumption, SMT
<1>. QED
  BY <1>1, <1>2 DEF Word

\* Two words that differ by whole words are the same.
LEMMA WordUnique ==
  ASSUME NEW a \in 0 .. WORD - 1, NEW b \in 0 .. WORD - 1, NEW q \in Int, a = b + q * WORD
  PROVE  a = b
<1>1. PICK m \in Int : m = q * WORD
  BY Multiples, WordAssumption
<1>2. CASE q = 0
  BY <1>2, WordAssumption, SMT
<1>3. CASE q >= 1
  BY <1>1, <1>3, Multiples, WordAssumption
<1>4. CASE q <= -1
  BY <1>1, <1>4, Multiples, WordAssumption
<1>. QED
  BY <1>2, <1>3, <1>4

\* Word is the identity on what already is a time_type.
LEMMA WordOfWord ==
  ASSUME NEW x \in 0 .. WORD - 1
  PROVE  Word(x) = x
<1>1. PICK q \in Int : Word(x) = x + q * WORD
  BY WordFacts
<1>. QED
  BY <1>1, WordFacts, WordUnique

\* Wrapping early or late makes no difference, and neither does a whole word.
LEMMA WordOfSum ==
  ASSUME NEW x \in Int, NEW d \in Int
  PROVE  /\ Word(Word(x) + d) = Word(x + d)
         /\ Word(x + WORD) = Word(x)
<1>1. PICK q \in Int : Word(x) = x + q * WORD
  BY WordFacts
<1>2. PICK r \in Int : Word(x + d) = x + d + r * WORD
  BY WordFacts
<1>3. PICK y \in Int : y = Word(x) + d
  BY WordFacts, WordAssumption
<1>4. PICK t \in Int : Word(y) = y + t * WORD
  BY WordFacts
<1>5. PICK u \in Int : Word(x + WORD) = x + WORD + u * WORD
  <2>1. x + WORD \in Int
    BY WordAssumption
  <2>. QED
    BY <2>1, WordFacts
<1>6. Word(y) = Word(x + d) + (t + q - r) * WORD
  <2>1. (t + q - r) * WORD = t * WORD + q * WORD - r * WORD
    BY WordAssumption, SMT
  <2>2. t * WORD \in Int /\ q * WORD \in Int /\ r * WORD \in Int
    BY WordAssumption, Multiples
  <2>. QED
    BY <1>1, <1>2, <1>3, <1>4, <2>1, <2>2
<1>7. Word(x + WORD) = Word(x) + (u + 1 - q) * WORD
  <2>1. (u + 1 - q) * WORD = u * WORD + WORD - q * WORD
    BY WordAssumption, SMT
  <2>2. u * WORD \in Int /\ q * WORD \in Int
    BY WordAssumption, Multiples
  <2>. QED
    BY <1>1, <1>5, <2>1, <2>2, WordAssumption
<1>8. Word(y) = Word(x + d)
  <2>1. Word(y) \in 0 .. WORD - 1 /\ Word(x + d) \in 0 .. WORD - 1 /\ t + q - r \in Int
    BY <1>3, WordFacts
  <2>. QED
    BY <1>6, <2>1, WordUnique
<1>9. Word(x + WORD) = Word(x)
  <2>1. x + WORD \in Int /\ u + 1 - q \in Int
    BY WordAssumption
  <2>2. Word(x + WORD) \in 0 .. WORD - 1 /\ Word(x) \in 0 .. WORD - 1
    BY <2>1, WordFacts
  <2>. QED
    BY <1>7, <2>1, <2>2, WordUnique
<1>. QED
  BY <1>3, <1>8, <1>9

\* Scaling by a speed yields a natural number, is zero at zero, and one more
\* millisecond adds the speed rounded down or up.
LEMMA Scaling ==
  ASSUME NEW s \in Nat, NEW d \in Nat
  PROVE  /\ _apply_speed_manip(s, d) \in Nat
         /\ _apply_speed_manip(s, 0) = 0
         /\ _apply_speed_manip(s, d + 1) - _apply_speed_manip(s, d)
              \in {s \div 2, (s + 1) \div 2}
<1>1. PICK p \in Nat : p = s * d
  BY SMT
<1>2. s * (d + 1) = p + s
  BY <1>1, SMT
<1>3. (p + 1) \div 2 \in Nat /\ (s * 0 + 1) \div 2 = 0
  BY <1>1, SMT
<1>4. (p + s + 1) \div 2 - (p + 1) \div 2 \in {s \div 2, (s + 1) \div 2}
  BY <1>1, SMT
<1>. QED
  BY <1>1, <1>2, <1>3, <1>4 DEF _apply_speed_manip

-----------------------------------------------------------------------------
\* What an operation adds to the local epoch yields a time_type again.
LEMMA GainTypes ==
  ASSUME TypeOK
  PROVE  /\ SinceEpoch \in Nat
         /\ \A g \in Gains : g \in Nat /\ Word(m_local_epoch + g) \in 0 .. WORD - 1
<1>1. Word(parent - m_parent_epoch) \in Nat
  <2>1. parent - m_parent_epoch \in Int
    BY WordAssumption DEF TypeOK
  <2>2. Word(parent - m_parent_epoch) \in 0 .. WORD - 1
    BY <2>1, WordFacts
  <2>. QED
    BY <2>2, WordAssumption
<1>2. SinceEpoch \in Nat
  BY <1>1, Scaling, SpeedsAssumption DEF TypeOK, SinceEpoch
<1>3. ASSUME NEW g \in Gains PROVE g \in Nat /\ Word(m_local_epoch + g) \in 0 .. WORD - 1
  <2>1. g \in Nat
    BY <1>2, <1>3, WordAssumption DEF Gains
  <2>2. m_local_epoch + g \in Int
    BY <2>1, WordAssumption DEF TypeOK
  <2>. QED
    BY <2>1, <2>2, WordFacts
<1>. QED
  BY <1>2, <1>3

\* Every operation of the timer keeps its times within their words, whoever calls
\* it and whenever.
THEOREM TypeCorrect == Spec => []TypeOK
<1>1. Init => TypeOK
  BY WordAssumption DEF Init, TypeOK
<1>2. TypeOK /\ [Next]_vars => TypeOK'
  <2>. SUFFICES ASSUME TypeOK, [Next]_vars PROVE TypeOK'
    OBVIOUS
  <2>. USE WordAssumption, SpeedsAssumption, TimesAssumption, DriftsAssumption
       DEF TypeOK, epochs
  <2>1. CASE Tick
    BY <2>1 DEF Tick
  <2>2. ASSUME NEW t \in Times, Start(t) PROVE TypeOK'
    BY <2>2 DEF Start
  <2>3. CASE Stop
    <3>1. 0 \in 0 .. WORD - 1
      OBVIOUS
    <3>. QED
      BY <2>3, <3>1 DEF Stop
  <2>4. CASE Pause
    BY <2>4, GainTypes DEF Pause
  <2>5. CASE Resume
    BY <2>5 DEF Resume
  <2>6. ASSUME NEW t \in Times, SetTime(t) PROVE TypeOK'
    BY <2>6 DEF SetTime
  <2>7. ASSUME NEW s \in Speeds, SetSpeed(s) PROVE TypeOK'
    BY <2>7, GainTypes DEF SetSpeed
  <2>8. ASSUME NEW d \in Drifts, SetDrift(d) PROVE TypeOK'
    BY <2>8 DEF SetDrift
  <2>9. CASE GetDrift
    BY <2>9 DEF GetDrift
  <2>10. ASSUME NEW k \in {seen} \cup 0 .. seen, Skew(k) PROVE TypeOK'
    <3>0. k \in Int
      BY <2>10
    <3>1. CASE k >= 0
      <4>1. m_local_epoch + k \in Int
        BY <3>0
      <4>2. Word(m_local_epoch + k) \in 0 .. WORD - 1
        BY <4>1, WordFacts
      <4>. QED
        BY <2>10, <3>0, <3>1, <4>2 DEF Skew, SkewForward
    <3>2. CASE k < 0
      BY <2>10, <3>0, <3>2, GainTypes DEF Skew, SkewBackward
    <3>. QED
      BY <3>0, <3>1, <3>2
  <2>11. CASE UNCHANGED vars
    BY <2>11 DEF vars
  <2>. QED
    BY <2>1, <2>2, <2>3, <2>4, <2>5, <2>6, <2>7, <2>8, <2>9, <2>10, <2>11 DEF Next
<1>. QED
  BY <1>1, <1>2, PTL DEF Spec
-----------------------------------------------------------------------------
\* What a running timer past its parent epoch has gained fits into a word: no
\* conversion is undefined but those of a difference that wrapped.  This is what
\* makes the refinement inductive.
Fits == m_running /\ ~(parent < m_parent_epoch) => SinceEpoch < WORD

IInv == TypeOK /\ Fits

\* Once the parent epoch has been reached the difference does not wrap.
LEMMA EpochReached ==
  ASSUME NEW p \in 0 .. WORD - 1, NEW e \in 0 .. WORD - 1, ~(p < e)
  PROVE  Word(p - e) = p - e
<1>1. p - e \in 0 .. WORD - 1
  BY WordAssumption
<1>. QED
  BY <1>1, WordOfWord

\* Before it is reached the difference wraps once.
LEMMA EpochAhead ==
  ASSUME NEW p \in 0 .. WORD - 1, NEW e \in 0 .. WORD - 1, p < e
  PROVE  Word(p - e) = WORD - (e - p)
<1>1. PICK x \in Int : x = p - e
  BY WordAssumption
<1>2. x + WORD \in 0 .. WORD - 1
  BY <1>1, WordAssumption
<1>3. Word(x + WORD) = x + WORD
  BY <1>2, WordOfWord
<1>4. Word(x + WORD) = Word(x)
  BY WordOfSum
<1>. QED
  BY <1>1, <1>3, <1>4, WordAssumption

\* A timer that is re-based on the parent's present reading has gained nothing,
\* and reads its local epoch.
LEMMA Rebased ==
  ASSUME NEW p \in 0 .. WORD - 1, NEW l \in 0 .. WORD - 1, NEW s \in Speeds
  PROVE  /\ _apply_speed_manip(s, Word(p - p)) = 0
         /\ Word(l + _apply_speed_manip(s, Word(p - p))) = l
<1>1. Word(p - p) = 0
  <2>1. ~(p < p) /\ p - p = 0
    BY WordAssumption
  <2>. QED
    BY <2>1, EpochReached
<1>2. _apply_speed_manip(s, 0) = 0
  BY Scaling, SpeedsAssumption
<1>3. l + 0 = l
  BY WordAssumption
<1>. QED
  BY <1>1, <1>2, <1>3, WordOfWord

LEMMA FitsInvariant == Spec => []IInv
<1>1. Init => IInv
  <2>. SUFFICES ASSUME Init PROVE IInv
    OBVIOUS
  <2>1. TypeOK
    BY WordAssumption DEF Init, TypeOK
  <2>2. SinceEpoch = 0
    BY <2>1, Rebased, WordAssumption DEF Init, SinceEpoch, TypeOK
  <2>. QED
    BY <2>1, <2>2, WordAssumption DEF IInv, Fits
<1>2. IInv /\ TypeOK' /\ [Next]_vars => IInv'
  <2>. SUFFICES ASSUME IInv, TypeOK', [Next]_vars PROVE Fits'
    BY DEF IInv
  <2>0. TypeOK /\ Fits
    BY DEF IInv
  <2>r. ASSUME m_parent_epoch' = parent' PROVE Fits'
    <3>1. _apply_speed_manip(m_speed', Word(parent' - m_parent_epoch')) = 0
      BY <2>r, Rebased DEF TypeOK
    <3>. QED
      BY <3>1, WordAssumption DEF Fits, SinceEpoch
  <2>p. ASSUME m_running' = FALSE PROVE Fits'
    BY <2>p DEF Fits
  <2>u. ASSUME UNCHANGED <<parent, m_parent_epoch, m_speed, m_running>> PROVE Fits'
    BY <2>0, <2>u DEF Fits, SinceEpoch
  <2>1. CASE Tick
    <3>. SUFFICES ASSUME m_running, ~(parent' < m_parent_epoch)
         PROVE SinceEpoch' < WORD
      BY <2>1 DEF Tick, Fits, epochs
    <3>1. Word(parent' - m_parent_epoch) = parent' - m_parent_epoch
      BY <2>0, EpochReached DEF TypeOK
    <3>2. SinceEpoch' = _apply_speed_manip(m_speed, parent' - m_parent_epoch)
      BY <2>1, <3>1 DEF Tick, SinceEpoch, epochs
    <3>3. _apply_speed_manip(m_speed, parent' - m_parent_epoch) < WORD
      BY <2>1 DEF Tick
    <3>. QED
      BY <3>2, <3>3
  <2>2. ASSUME NEW t \in Times, Start(t) PROVE Fits'
    BY <2>2, <2>r DEF Start
  <2>3. CASE Stop
    BY <2>3, <2>p DEF Stop
  <2>4. CASE Pause
    BY <2>4, <2>p DEF Pause
  <2>5. CASE Resume
    BY <2>5, <2>r DEF Resume
  <2>6. ASSUME NEW t \in Times, SetTime(t) PROVE Fits'
    BY <2>6, <2>r, <2>u DEF SetTime
  <2>7. ASSUME NEW s \in Speeds, SetSpeed(s) PROVE Fits'
    <3>1. CASE m_running
      BY <2>7, <3>1, <2>r DEF SetSpeed
    <3>2. CASE ~m_running
      BY <2>7, <3>2 DEF SetSpeed, Fits
    <3>. QED
      BY <3>1, <3>2
  <2>8. ASSUME NEW d \in Drifts, SetDrift(d) PROVE Fits'
    BY <2>8, <2>u DEF SetDrift, epochs
  <2>9. CASE GetDrift
    BY <2>9, <2>u DEF GetDrift, epochs
  <2>10. ASSUME NEW k \in {seen} \cup 0 .. seen, Skew(k) PROVE Fits'
    <3>0. k \in Int
      BY <2>0, <2>10 DEF TypeOK
    <3>1. CASE k >= 0 \/ parent < m_parent_epoch
      BY <2>10, <3>0, <3>1, <2>u DEF Skew, SkewForward, SkewBackward, epochs
    <3>2. CASE k < 0 /\ ~(parent < m_parent_epoch)
      <4>1. m_parent_epoch' = parent + (-k) /\ parent' = parent
        BY <2>10, <3>0, <3>2 DEF Skew, SkewBackward
      <4>. QED
        BY <2>0, <3>0, <3>2, <4>1, WordAssumption DEF Fits, TypeOK
    <3>. QED
      BY <3>0, <3>1, <3>2
  <2>11. CASE UNCHANGED vars
    BY <2>11, <2>u DEF vars, epochs
  <2>. QED
    BY <2>1, <2>2, <2>3, <2>4, <2>5, <2>6, <2>7, <2>8, <2>9, <2>10, <2>11 DEF Next
<1>. QED
  BY <1>1, <1>2, TypeCorrect, PTL DEF Spec
-----------------------------------------------------------------------------
\* The reading is a word; past the parent epoch, where nothing wraps, it is what
\* the timer has gained, and that is all an operation may add.
LEMMA Reading ==
  ASSUME TypeOK, Fits
  PROVE  /\ _elapsed \in 0 .. WORD - 1
         /\ m_running /\ ~(parent < m_parent_epoch) =>
              /\ Gains = {SinceEpoch}
              /\ _elapsed = Word(m_local_epoch + SinceEpoch)
<1>1. SinceEpoch \in Nat
  BY GainTypes
<1>2. m_local_epoch + SinceEpoch \in Int
  BY <1>1, WordAssumption DEF TypeOK
<1>3. Word(m_local_epoch + SinceEpoch) \in 0 .. WORD - 1
  BY <1>2, WordFacts
<1>. QED
  BY <1>3 DEF TypeOK, Fits, Gains, _elapsed

\* What pausing or re-speeding a running timer may do to the reading is what the
\* abstract timer allows: keep it, or lose it if a slow-down is cut short.
LEMMA PausedReading ==
  ASSUME TypeOK, Fits, m_running, NEW g \in Gains
  PROVE  Word(m_local_epoch + g) \in Abstract!CutShort
<1>1. CASE ~(parent < m_parent_epoch)
  <2>1. Word(m_local_epoch + g) = _elapsed
    BY <1>1, Reading
  <2>. QED
    BY <1>1, <2>1 DEF Abstract!CutShort, Skewing
<1>2. CASE parent < m_parent_epoch
  <2>1. Skewing /\ _elapsed = m_local_epoch
    BY <1>2 DEF Skewing, _elapsed
  <2>2. PICK h \in 1 .. WORD - 1 : h = m_parent_epoch - parent
    BY <1>2, WordAssumption DEF TypeOK
  <2>3. Word(parent - m_parent_epoch) = WORD - h
    BY <1>2, <2>2, EpochAhead, WordAssumption DEF TypeOK
  <2>4. SinceEpoch = _apply_speed_manip(m_speed, WORD - h)
    BY <2>3 DEF SinceEpoch
  <2>5. CASE m_speed = 0
    <3>1. 0 * (WORD - h) = 0 /\ (0 + 1) \div 2 = 0
      BY <2>2, WordAssumption
    <3>2. SinceEpoch = 0
      BY <2>4, <2>5, <3>1 DEF _apply_speed_manip
    <3>3. g = 0
      BY <3>2, WordAssumption DEF Gains
    <3>4. Word(m_local_epoch + g) = m_local_epoch
      BY <3>3, WordOfWord, WordAssumption DEF TypeOK
    <3>. QED
      BY <2>1, <2>5, <3>4 DEF Abstract!CutShort
  <2>6. CASE m_speed = 2
    <3>1. (2 * (WORD - h) + 1) \div 2 = WORD - h
      BY <2>2, WordAssumption
    <3>2. SinceEpoch = WORD - h
      BY <2>4, <2>6, <3>1 DEF _apply_speed_manip
    <3>3. g = WORD - h
      BY <2>2, <3>2, WordAssumption DEF Gains
    <3>4. PICK x \in Int : x = m_local_epoch + (-h)
      BY <2>2, WordAssumption DEF TypeOK
    <3>5. m_local_epoch + g = x + WORD
      BY <2>2, <3>3, <3>4, WordAssumption DEF TypeOK
    <3>6. Word(m_local_epoch + g) = Word(m_local_epoch + (-h))
      BY <3>4, <3>5, WordOfSum
    <3>7. Abstract!CutShort = {(m_local_epoch + (-h)) % WORD}
      BY <2>1, <2>2, <2>6 DEF Abstract!CutShort, Abstract!Moved
    <3>. QED
      BY <3>6, <3>7 DEF Word
  <2>7. CASE m_speed # 0 /\ m_speed # 2
    <3>1. Abstract!CutShort = 0 .. WORD - 1
      BY <2>1, <2>2, <2>7 DEF Abstract!CutShort
    <3>. QED
      BY <3>1, GainTypes
  <2>. QED
    BY <2>5, <2>6, <2>7
<1>. QED
  BY <1>1, <1>2

\* The timer implements the abstract timer, whoever calls it and whenever: resuming
\* keeps the reading, and so do pausing and changing the speed unless they cut a
\* slow-down short; a drift moves the reading forward by exactly the drift that was
\* seen, or holds a running timer for as many parent milliseconds.
THEOREM TimerRefinement == Spec => ImplementsTimerSpec
<1>1. Init => Abstract!Init
  <2>. SUFFICES ASSUME Init PROVE Abstract!Init
    OBVIOUS
  <2>1. TypeOK
    BY WordAssumption DEF Init, TypeOK
  <2>2. Word(0 + _apply_speed_manip(m_speed, Word(parent - parent))) = 0
    BY <2>1, Rebased, WordAssumption DEF TypeOK
  <2>3. _elapsed = 0 /\ ~Skewing
    BY <2>1, <2>2, WordAssumption DEF Init, _elapsed, SinceEpoch, Skewing, TypeOK
  <2>. QED
    BY <2>3 DEF Init, Abstract!Init
<1>2. IInv /\ IInv' /\ [Next]_vars => [Abstract!Next]_(Abstract!vars)
  <2>. SUFFICES ASSUME IInv, IInv', [Next]_vars
       PROVE [Abstract!Next]_(Abstract!vars)
    OBVIOUS
  <2>0. TypeOK /\ Fits /\ TypeOK' /\ Fits'
    BY DEF IInv
  \* A timer that was just re-based reads its local epoch.
  <2>r. ASSUME m_parent_epoch' = parent'
        PROVE  _elapsed' = m_local_epoch' /\ ~Skewing'
    <3>1. Word(m_local_epoch' + _apply_speed_manip(m_speed', Word(parent' - m_parent_epoch')))
            = m_local_epoch'
      BY <2>0, <2>r, Rebased DEF TypeOK
    <3>. QED
      BY <2>0, <2>r, <3>1, WordAssumption DEF _elapsed, SinceEpoch, Skewing, TypeOK
  \* A stopped timer reads its local epoch.
  <2>s. ASSUME m_running' = FALSE
        PROVE  _elapsed' = m_local_epoch' /\ ~Skewing'
    BY <2>s DEF _elapsed, Skewing
  \* The reading stays while the epochs, the speed and the parent stay.
  <2>u. ASSUME UNCHANGED <<parent, epochs, m_speed, m_running>>
        PROVE  _elapsed' = _elapsed /\ Skewing' = Skewing
               /\ UNCHANGED <<parent, m_parent_epoch, m_speed, m_running>>
    BY <2>u DEF _elapsed, SinceEpoch, Skewing, epochs
  <2>1. CASE Tick
    <3>1. UNCHANGED <<epochs, m_running, m_speed, m_drift, seen>> /\ parent' = parent + 1
          /\ UNCHANGED <<m_parent_epoch, m_local_epoch>>
      BY <2>1 DEF Tick, epochs
    <3>2. CASE ~m_running
      <4>1. _elapsed' = _elapsed /\ ~Skewing /\ ~Skewing'
        BY <3>1, <3>2 DEF _elapsed, Skewing
      <4>. QED
        BY <3>1, <3>2, <4>1 DEF Abstract!Next, Abstract!Tick
    <3>3. CASE Skewing
      <4>1. _elapsed = m_local_epoch
        BY <3>3 DEF _elapsed, Skewing
      <4>2. CASE parent + 1 < m_parent_epoch
        <5>1. _elapsed' = m_local_epoch /\ Skewing'
          BY <3>1, <3>3, <4>2 DEF _elapsed, Skewing
        <5>. QED
          BY <2>0, <3>1, <3>3, <4>1, <5>1, WordAssumption
             DEF TypeOK, Skewing, Abstract!Next, Abstract!Tick
      <4>3. CASE parent + 1 = m_parent_epoch
        <5>1. _elapsed' = m_local_epoch /\ ~Skewing'
          BY <2>r, <3>1, <4>3
        <5>. QED
          BY <2>0, <3>1, <3>3, <4>1, <4>3, <5>1, WordAssumption
             DEF TypeOK, Skewing, Abstract!Next, Abstract!Tick
      <4>. QED
        BY <2>0, <3>3, <4>2, <4>3, WordAssumption DEF Skewing, TypeOK
    <3>4. CASE m_running /\ ~Skewing
      <4>1. PICK d \in Nat : d = parent - m_parent_epoch
        BY <2>0, <3>4, WordAssumption DEF TypeOK, Skewing
      <4>2. Word(parent - m_parent_epoch) = d
        BY <2>0, <3>4, <4>1, EpochReached DEF TypeOK, Skewing
      <4>3. ~(parent' < m_parent_epoch) /\ parent' - m_parent_epoch = d + 1
        BY <2>0, <3>1, <4>1, WordAssumption DEF TypeOK
      <4>4. Word(parent' - m_parent_epoch) = d + 1
        BY <2>0, <3>1, <4>3, EpochReached DEF TypeOK
      <4>5. PICK x \in Int : x = m_local_epoch + _apply_speed_manip(m_speed, d)
        BY <2>0, Scaling, SpeedsAssumption, WordAssumption DEF TypeOK
      <4>6. PICK e \in {m_speed \div 2, (m_speed + 1) \div 2} :
              e = _apply_speed_manip(m_speed, d + 1) - _apply_speed_manip(m_speed, d)
        BY <2>0, Scaling, SpeedsAssumption DEF TypeOK
      <4>7. e \in Int
        BY <2>0, SpeedsAssumption DEF TypeOK
      <4>8. m_local_epoch + _apply_speed_manip(m_speed, d + 1) = x + e
        <5>1. _apply_speed_manip(m_speed, d) \in Nat
          BY <2>0, Scaling, SpeedsAssumption DEF TypeOK
        <5>2. _apply_speed_manip(m_speed, d + 1) \in Nat
          <6>1. d + 1 \in Nat /\ m_speed \in Nat
            BY <2>0, SpeedsAssumption DEF TypeOK
          <6>. QED
            BY <6>1, Scaling
        <5>. QED
          BY <2>0, <4>5, <4>6, <4>7, <5>1, <5>2, WordAssumption DEF TypeOK
      <4>9. _elapsed = Word(x)
        BY <2>0, <3>4, <4>2, <4>5 DEF _elapsed, SinceEpoch, Skewing
      <4>10. _elapsed' = Word(x + e)
        BY <3>1, <3>4, <4>3, <4>4, <4>8 DEF _elapsed, SinceEpoch, Skewing
      <4>11. _elapsed' = (_elapsed + e) % WORD
        BY <4>7, <4>9, <4>10, WordOfSum DEF Word
      <4>12. ~Skewing'
        BY <3>1, <4>3 DEF Skewing
      <4>. QED
        BY <3>1, <3>4, <4>11, <4>12 DEF Abstract!Next, Abstract!Tick, Abstract!Moved
    <3>. QED
      BY <3>2, <3>3, <3>4 DEF Skewing
  <2>2. ASSUME NEW t \in Times, Start(t) PROVE Abstract!Start
    <3>1. _elapsed' = t /\ ~Skewing'
      BY <2>2, <2>r DEF Start
    <3>. QED
      BY <2>2, <3>1 DEF Start, Abstract!Start
  <2>3. CASE Stop
    <3>1. Abstract!Stop
      BY <2>3, <2>s DEF Stop, Abstract!Stop
    <3>. QED
      BY <3>1 DEF Abstract!Next
  <2>4. CASE Pause
    <3>1. m_local_epoch' \in Abstract!CutShort
      BY <2>0, <2>4, PausedReading DEF Pause
    <3>2. _elapsed' = m_local_epoch' /\ ~Skewing'
      BY <2>4, <2>s DEF Pause
    <3>3. Abstract!Pause
      BY <2>4, <3>1, <3>2 DEF Pause, Abstract!Pause
    <3>. QED
      BY <3>3 DEF Abstract!Next
  <2>5. CASE Resume
    <3>1. _elapsed' = _elapsed /\ ~Skewing'
      BY <2>5, <2>r DEF Resume, _elapsed
    <3>2. Abstract!Resume
      BY <2>5, <3>1 DEF Resume, Abstract!Resume
    <3>. QED
      BY <3>2 DEF Abstract!Next
  <2>6. ASSUME NEW t \in Times, SetTime(t) PROVE Abstract!SetTime
    <3>1. _elapsed' = t /\ ~Skewing'
      BY <2>6, <2>r, <2>s, <2>0 DEF SetTime, TypeOK
    <3>. QED
      BY <2>6, <3>1 DEF SetTime, Abstract!SetTime
  <2>7. ASSUME NEW s \in Speeds, SetSpeed(s) PROVE Abstract!SetSpeed
    <3>1. CASE m_running
      <4>1. m_local_epoch' \in Abstract!CutShort
        BY <2>0, <2>7, <3>1, PausedReading DEF SetSpeed
      <4>2. _elapsed' = m_local_epoch' /\ ~Skewing'
        BY <2>7, <2>r, <3>1 DEF SetSpeed
      <4>. QED
        BY <2>7, <4>1, <4>2 DEF SetSpeed, Abstract!SetSpeed
    <3>2. CASE ~m_running
      <4>1. _elapsed' = _elapsed /\ ~Skewing /\ ~Skewing'
        BY <2>7, <3>2 DEF SetSpeed, _elapsed, Skewing, epochs
      <4>. QED
        BY <2>7, <4>1 DEF SetSpeed, Abstract!SetSpeed, Abstract!CutShort
    <3>. QED
      BY <3>1, <3>2
  <2>8. ASSUME NEW d \in Drifts, SetDrift(d) PROVE Abstract!SetDrift
    BY <2>8, <2>u DEF SetDrift, Abstract!SetDrift
  <2>9. CASE GetDrift
    <3>1. Abstract!GetDrift
      BY <2>9, <2>u DEF GetDrift, Abstract!GetDrift
    <3>. QED
      BY <3>1 DEF Abstract!Next
  <2>10. ASSUME NEW k \in {seen} \cup 0 .. seen, Skew(k)
         PROVE Abstract!SpeedUp \/ Abstract!SlowDown
    <3>0. /\ k \in Int /\ m_drift' = m_drift - k /\ seen' = 0
          /\ UNCHANGED <<parent, m_speed, m_running>>
      BY <2>0, <2>10 DEF TypeOK, Skew
    <3>1. CASE k >= 0
      <4>1. /\ m_local_epoch' = Word(m_local_epoch + k)
            /\ UNCHANGED m_parent_epoch
        BY <2>10, <3>1 DEF Skew, SkewForward
      <4>2. _elapsed' = Word(_elapsed + k)
        <5>1. CASE m_running /\ ~(parent < m_parent_epoch)
          <6>1. PICK g \in Nat : g = SinceEpoch
            BY <2>0, GainTypes
          <6>2. PICK l \in Int : l = m_local_epoch
            BY <2>0, WordAssumption DEF TypeOK
          <6>3. _elapsed' = Word(Word(l + k) + g)
            BY <3>0, <4>1, <5>1, <6>1, <6>2 DEF _elapsed, SinceEpoch
          <6>4. _elapsed = Word(l + g)
            BY <5>1, <6>1, <6>2 DEF _elapsed
          <6>5. PICK a \in Int : a = l + k
            BY <3>0
          <6>6. PICK b \in Int : b = l + g
            OBVIOUS
          <6>7. Word(Word(a) + g) = Word(a + g)
            BY WordOfSum
          <6>8. Word(Word(b) + k) = Word(b + k)
            BY <3>0, WordOfSum
          <6>9. a + g = b + k
            BY <3>0, <6>5, <6>6
          <6>. QED
            BY <6>3, <6>4, <6>5, <6>6, <6>7, <6>8, <6>9
        <5>2. CASE ~m_running \/ parent < m_parent_epoch
          BY <3>0, <4>1, <5>2 DEF _elapsed
        <5>. QED
          BY <5>1, <5>2
      <4>3. k \in 0 .. seen
        BY <2>0, <2>10, <3>1 DEF TypeOK
      <4>4. Skewing' = Skewing
        BY <3>0, <4>1 DEF Skewing
      <4>. QED
        BY <3>0, <4>1, <4>2, <4>3, <4>4 DEF Word, Abstract!SpeedUp, Abstract!Moved
    <3>2. CASE k < 0
      <4>0. k = seen /\ SkewBackward(-k)
        BY <2>0, <2>10, <3>0, <3>2 DEF Skew, TypeOK
      <4>1. CASE parent < m_parent_epoch
        <5>1. UNCHANGED epochs
          BY <4>0, <4>1 DEF SkewBackward
        <5>2. /\ _elapsed' = _elapsed /\ Skewing' = Skewing
              /\ UNCHANGED m_parent_epoch /\ _elapsed \in 0 .. WORD - 1
          BY <2>0, <2>u, <3>0, <5>1, Reading
        <5>3. CASE m_running
          <6>1. Skewing /\ m_parent_epoch - parent # 0
            BY <2>0, <4>1, <5>3, WordAssumption DEF Skewing, TypeOK
          <6>. QED
            BY <3>0, <3>2, <4>0, <5>2, <5>3, <6>1 DEF Abstract!SlowDown
        <5>4. CASE ~m_running
          <6>1. ~Skewing
            BY <5>4 DEF Skewing
          <6>. QED
            BY <3>0, <3>2, <4>0, <5>2, <5>4, <6>1 DEF Abstract!SlowDown
        <5>. QED
          BY <5>3, <5>4
      <4>2. CASE ~(parent < m_parent_epoch)
        <5>1. PICK g \in Gains :
                m_local_epoch' = Word(m_local_epoch + g) /\ m_parent_epoch' = parent + (-k)
          BY <4>0, <4>2 DEF SkewBackward
        <5>2. m_parent_epoch' - parent' = -k /\ parent' < m_parent_epoch' /\ ~Skewing
          BY <2>0, <3>0, <3>2, <4>2, <5>1, WordAssumption DEF Skewing, TypeOK
        <5>3. CASE m_running
          <6>1. m_local_epoch' = _elapsed
            BY <2>0, <4>2, <5>1, <5>3, Reading
          <6>2. Skewing' /\ _elapsed' = _elapsed
            BY <3>0, <5>2, <5>3, <6>1 DEF Skewing, _elapsed
          <6>. QED
            BY <3>0, <3>2, <4>0, <5>2, <5>3, <6>2 DEF Abstract!SlowDown
        <5>4. CASE ~m_running
          <6>1. ~Skewing' /\ _elapsed' = m_local_epoch'
            BY <3>0, <5>4 DEF Skewing, _elapsed
          <6>2. m_local_epoch' \in 0 .. WORD - 1
            BY <2>0 DEF TypeOK
          <6>. QED
            BY <3>0, <3>2, <4>0, <5>4, <6>1, <6>2 DEF Abstract!SlowDown
        <5>. QED
          BY <5>3, <5>4
      <4>. QED
        BY <4>1, <4>2
    <3>. QED
      BY <3>0, <3>1, <3>2
  <2>11. CASE UNCHANGED vars
    BY <2>11, <2>u DEF vars, Abstract!vars
  <2>. QED
    BY <2>1, <2>2, <2>3, <2>4, <2>5, <2>6, <2>7, <2>8, <2>9, <2>10, <2>11
       DEF Next, Abstract!Next
<1>. QED
  BY <1>1, <1>2, FitsInvariant, PTL DEF Spec, ImplementsTimerSpec, Abstract!Spec
=============================================================================
