----------------------------- MODULE StratumJobs -----------------------------
(***************************************************************************)
(* What the Stratum client makes of the pool's job messages: which jobs it  *)
(* takes, and the target each job is mined against.  A target is Digits     *)
(* digits of base Base, least significant first (32 bytes in the code); a   *)
(* compact target gives the CompactDigits most significant ones (4 bytes).  *)
(***************************************************************************)
EXTENDS Integers, Sequences

CONSTANTS Base,           \* 256
          Digits,         \* 32
          CompactDigits,  \* 4
          WordSize,       \* 2^64: values of the division's remainder
          MinBlob,        \* kMinMoneroBlobBytes
          NonceEnd        \* nonce_offset_ + nonce_size_

ASSUME TargetAssumption ==
  /\ Base \in Nat \ {0, 1} /\ Digits \in Nat \ {0}
  /\ CompactDigits \in 1..(Digits - 1) /\ WordSize \in Nat /\ Base <= WordSize
  /\ MinBlob \in Nat /\ NonceEnd \in Nat

AllOnes == [i \in 1..Digits |-> Base - 1]

(* The number a digit sequence stands for: Low(t)[i] is that of its i least
   significant digits.                                                      *)
Power[n \in 0..Digits] == IF n = 0 THEN 1 ELSE Base * Power[n - 1]

Low(t) ==
  LET sum[i \in 0..Len(t)] == IF i = 0 THEN 0 ELSE sum[i - 1] + t[i] * Power[i - 1]
  IN sum

Value(t) == Low(t)[Len(t)]

MaxTarget == Power[Digits] - 1

(* Long division from the most significant digit, the remainder kept in a
   machine word: rem[i] is what digit i leaves.                             *)
Word(r) == ((r * Base) % WordSize) + (Base - 1)

(* Mutant: the remainder is not carried to the next digit.                  *)
divide_noCarry(d) == [i \in 1..Digits |-> (Word(0) \div d) % Base]

Remainders(d) ==
  LET rem[i \in 1..(Digits + 1)] == IF i > Digits THEN 0 ELSE Word(rem[i + 1]) % d
  IN rem

divide(d) == [i \in 1..Digits |-> (Word(Remainders(d)[i + 1]) \div d) % Base]

(* A difficulty that is no positive finite number (negative here) accepts
   every hash; a fraction (0 here, after the conversion to an integer) counts
   as 1; the clamp keeps it within the word.                                *)
difficulty_to_target(diff) ==
  IF diff < 0 THEN AllOnes
  ELSE divide(IF diff = 0 THEN 1 ELSE IF diff >= WordSize THEN WordSize - 1 ELSE diff)

(* Difficulties whose remainders fit the word (up to 2^56).                  *)
Exact(diff) == diff > 0 /\ diff * Base <= WordSize

(* Mutant: the compact digits are put at the least significant end.         *)
expand_low(c) == [i \in 1..Digits |-> IF i <= CompactDigits THEN c[i] ELSE Base - 1]

expand(c) ==
  [i \in 1..Digits |->
     IF i > Digits - CompactDigits THEN c[i - (Digits - CompactDigits)] ELSE Base - 1]

(* Digitwise comparison, most significant digit first: the first digit that
   differs decides.                                                         *)
meets_target(hash, target) ==
  \A i \in 1..Digits :
    (\A j \in (i + 1)..Digits : hash[j] = target[j]) => hash[i] <= target[i]

-----------------------------------------------------------------------------
(* A job message carries a blob (its length, and whether it is hex), a seed
   hash ("absent", "malformed" or a seed) and a target: <<>> when absent.   *)

valid_job_hex(m) == m.blob >= MinBlob /\ m.hex /\ m.seed # "malformed"

job(id, m, target) ==
  [id |-> id, seed |-> m.seed, target |-> target, fits |-> NonceEnd <= m.blob]

(* mining.notify: only a compact target is taken from the message.          *)
NotifyTarget(m, current) ==
  IF Len(m.target) = CompactDigits THEN expand(m.target) ELSE current

(* CryptoNote jobs: compact, full, or the one in force; it stays in force.  *)
CryptonoteTarget(m, current) ==
  IF Len(m.target) = CompactDigits THEN expand(m.target)
  ELSE IF Len(m.target) = Digits THEN m.target ELSE current

(* handle_line(): a message's effect, the target in force afterwards and the
   job handed to job_callback_ (a set: empty when there is none).           *)
handle_notify(m, id, current) ==
  [target |-> current,
   jobs |-> IF valid_job_hex(m) THEN {job(id, m, NotifyTarget(m, current))} ELSE {}]

process_cryptonote_job(m, id, current) ==
  LET t == CryptonoteTarget(m, current)
  IN IF valid_job_hex(m) THEN [target |-> t, jobs |-> {job(id, m, t)}]
     ELSE [target |-> current, jobs |-> {}]

handle_set_target(m, current) ==
  [target |-> IF Len(m.target) = Digits THEN m.target ELSE current, jobs |-> {}]

handle_set_difficulty(m, current) ==
  [target |-> IF m.parses THEN difficulty_to_target(m.diff) ELSE current,
   jobs |-> {}]

handle_line(m, id, current) ==
  CASE m.method = "mining.notify" -> handle_notify(m, id, current)
    [] m.method = "mining.set_target" -> handle_set_target(m, current)
    [] m.method = "mining.set_difficulty" -> handle_set_difficulty(m, current)
    [] m.method = "job" -> process_cryptonote_job(m, id, current)
=============================================================================
