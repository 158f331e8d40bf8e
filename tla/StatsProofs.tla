----------------------------- MODULE StatsProofs -----------------------------
(***************************************************************************)
(* What the reply makes of an uptime and of an amount of memory, for every *)
(* value of them.                                                          *)
(***************************************************************************)
EXTENDS EngineAnswers, TLAPS

(* The units of the reply make up every uptime that fits.                  *)
LEMMA UnitsMakeUp ==
    ASSUME NEW t \in Nat, t \div 86400 < 65536
    PROVE  /\ 86400 * Units(t).days + 3600 * Units(t).hours + 60 * Units(t).minutes
              + Units(t).seconds = t
           /\ Units(t).hours <= 24 /\ Units(t).minutes <= 60 /\ Units(t).seconds <= 60
  BY SMT DEF Units

(* Every amount of memory is told accurately, in the right unit.           *)
THEOREM StatsMemAccurate == \A amount \in Nat : Accurate(MemToStr(amount), amount)
<1> SUFFICES ASSUME NEW amount \in Nat PROVE Accurate(MemToStr(amount), amount)
  OBVIOUS
<1> DEFINE kb == Larger(amount, 1024)
           mb == Larger(kb, 1024)
           gb == Larger(100 * mb, 1024)
<1>1. /\ kb \in Nat /\ 1024 * kb <= amount + 512 /\ amount + 512 < 1024 * kb + 1024
      /\ kb = (amount + 512) \div 1024
  BY DEF Larger
<1>2. mb \in Nat /\ 1024 * mb <= kb + 512 /\ kb + 512 < 1024 * mb + 1024
  BY <1>1 DEF Larger
<1>3. gb \in Nat /\ 1024 * gb <= 100 * mb + 512 /\ 100 * mb + 512 < 1024 * gb + 1024
  BY <1>2 DEF Larger
<1>4. amount \div 1024 \in Nat /\ 1024 * (amount \div 1024) <= amount
      /\ amount < 1024 * (amount \div 1024) + 1024
  OBVIOUS
<1>5. MemToStr(amount) = IF amount < 1024 THEN [value |-> amount, unit |-> "b"]
                         ELSE IF kb < 1024 THEN [value |-> kb, unit |-> "kb"]
                         ELSE IF mb < 1024 THEN [value |-> mb, unit |-> "mb"]
                         ELSE [value |-> gb, unit |-> "gb"]
  BY DEF MemToStr
<1> HIDE DEF kb, mb, gb
<1>6. CASE amount < 1024
  BY <1>5, <1>6, SMT DEF Accurate
<1>7. CASE amount >= 1024 /\ kb < 1024
  <2>1. kb \in 1 .. 1023 /\ amount - 1024 * kb <= 512 /\ 1024 * kb - amount <= 512
    BY <1>1, <1>7
  <2>2. MemToStr(amount).unit = "kb" /\ MemToStr(amount).value = kb
    BY <1>1, <1>2, <1>5, <1>7
  <2> QED
    BY <2>1, <2>2, SMT DEF Accurate
<1>8. CASE amount >= 1024 /\ kb >= 1024 /\ mb < 1024
  <2>1. /\ mb \in 1 .. 1023 /\ amount - 1048576 * mb <= 524800
        /\ 1048576 * mb - amount <= 524800
    BY <1>1, <1>2, <1>8, SMT
  <2>2. MemToStr(amount).unit = "mb" /\ MemToStr(amount).value = mb
    BY <1>1, <1>2, <1>5, <1>8
  <2> QED
    BY <2>1, <2>2, SMT DEF Accurate
<1>9. CASE amount >= 1024 /\ kb >= 1024 /\ mb >= 1024
  <2>1. /\ gb >= 100
        /\ 25 * (amount \div 1024) - 262144 * gb <= 143897
        /\ 262144 * gb - 25 * (amount \div 1024) <= 143897
    BY <1>1, <1>2, <1>3, <1>4, <1>9, SMT
  <2>2. MemToStr(amount).unit = "gb" /\ MemToStr(amount).value = gb
    BY <1>1, <1>2, <1>5, <1>9
  <2> QED
    BY <2>1, <2>2, SMT DEF Accurate
<1> QED
  BY <1>1, <1>2, <1>6, <1>7, <1>8, <1>9

(* An amount read as the largest integer shows as two gigabytes.           *)
LEMMA LargestShown == MemToStr(MaxInt) = [value |-> 200, unit |-> "gb"]
<1>1. Larger(2147483647, 1024) = 2097152
  BY DEF Larger
<1>2. Larger(2097152, 1024) = 2048 /\ Larger(204800, 1024) = 200
  BY DEF Larger
<1> QED
  BY <1>1, <1>2 DEF MemToStr, MaxInt
=============================================================================
