------------------------------ MODULE Quantity ------------------------------
(***************************************************************************)
(* The quantity codec of resourceUtils.ts: the strings Kubernetes puts in  *)
(* a container's resources block, how the policy parses them into          *)
(* millicores and bytes, and how it formats what it writes back.          *)
(*                                                                         *)
(* The API server decodes and re-serialises every quantity before a        *)
(* mutating webhook sees it, so a quantity reaches the policy in canonical *)
(* form: a non-negative integer followed by one of the suffixes below      *)
(* (1.5 cores arrives as "1500m", 1.5Gi as "1536Mi").  A quantity is the   *)
(* record [n |-> integer part, unit |-> suffix]; NoQty is an absent field. *)
(***************************************************************************)
EXTENDS Integers

CONSTANT NoQty

DecimalSuffixes == {"m", "", "k", "M", "G", "T", "P", "E"}
BinarySuffixes == {"Ki", "Mi", "Gi", "Ti", "Pi", "Ei"}
Suffixes == DecimalSuffixes \cup BinarySuffixes

Qty == [n : Nat, unit : Suffixes]
QtyOrAbsent == Qty \cup {NoQty}

(* Math.round(a / b) for a >= 0, b > 0: floor(a / b + 1/2).                *)
Round(a, b) == (2 * a + b) \div (2 * b)

Larger(a, b) == IF a >= b THEN a ELSE b

Abs(a) == IF a >= 0 THEN a ELSE -a

(***************************************************************************)
(* parseCPUToMillicores.  An empty or absent string is 0.  A string ending *)
(* in "m" is parseInt of what precedes the "m".  Anything else goes        *)
(* through parseFloat, which reads the leading number and ignores the      *)
(* suffix, so "2" and "2k" both give 2000 millicores.                      *)
(***************************************************************************)
ParseCPUToMillicores(q) ==
    IF q = NoQty THEN 0
    ELSE IF q.unit = "m" THEN q.n
    ELSE q.n * 1000

(***************************************************************************)
(* The multiplier of parseMemoryToBytes's switch.  "K" is a case the code  *)
(* handles but Kubernetes never emits; the canonical decimal kilo "k", and *)
(* "m", "P", "E", "Pi", "Ei", fall to the default case and count as bytes. *)
(***************************************************************************)
MemoryUnitFactor(u) ==
    CASE u = "K"  -> 1000
      [] u = "Ki" -> 1024
      [] u = "M"  -> 1000 * 1000
      [] u = "Mi" -> 1024 * 1024
      [] u = "G"  -> 1000 * 1000 * 1000
      [] u = "Gi" -> 1024 * 1024 * 1024
      [] u = "T"  -> 1000 * 1000 * 1000 * 1000
      [] u = "Ti" -> 1024 * 1024 * 1024 * 1024
      [] OTHER    -> 1

(***************************************************************************)
(* parseMemoryToBytes.  An absent string is 0; all digits is parseInt; a   *)
(* number with a letter suffix is value * factor, rounded (exact here,     *)
(* since the canonical number is an integer).                              *)
(***************************************************************************)
ParseMemoryToBytes(q) ==
    IF q = NoQty THEN 0 ELSE q.n * MemoryUnitFactor(q.unit)

(* Mutant: megabytes written with the suffix "MB", which is no Kubernetes  *)
(* suffix.                                                                 *)
MemoryBytesToMBSuffix(b) == [n |-> Round(b, 1000 * 1000), unit |-> "MB"]

(* memoryBytesToMB: Math.round(bytes / 10^6) followed by "M".             *)
MemoryBytesToMB(b) == [n |-> Round(b, 1000 * 1000), unit |-> "M"]

(* The CPU request the policy writes: recommendedCPUMillicores + "m".     *)
MillicoresToQty(m) == [n |-> m, unit |-> "m"]

(***************************************************************************)
(* What Kubernetes itself means by a quantity, used by the properties to   *)
(* judge the pod the API server validates after the webhook: the decimal   *)
(* and binary SI multipliers.  Memory in "m" (milli-bytes) is rounded up   *)
(* to whole bytes.                                                         *)
(***************************************************************************)
KubeFactor(u) ==
    CASE u = "k"  -> 1000
      [] u = "M"  -> 1000 * 1000
      [] u = "G"  -> 1000 * 1000 * 1000
      [] u = "T"  -> 1000 * 1000 * 1000 * 1000
      [] u = "P"  -> 1000 * 1000 * 1000 * 1000 * 1000
      [] u = "E"  -> 1000 * 1000 * 1000 * 1000 * 1000 * 1000
      [] u = "Ki" -> 1024
      [] u = "Mi" -> 1024 * 1024
      [] u = "Gi" -> 1024 * 1024 * 1024
      [] u = "Ti" -> 1024 * 1024 * 1024 * 1024
      [] u = "Pi" -> 1024 * 1024 * 1024 * 1024 * 1024
      [] u = "Ei" -> 1024 * 1024 * 1024 * 1024 * 1024 * 1024
      [] OTHER    -> 1

KubeMillicores(q) ==
    IF q.unit = "m" THEN q.n ELSE q.n * KubeFactor(q.unit) * 1000

KubeBytes(q) ==
    IF q.unit = "m" THEN (q.n + 999) \div 1000 ELSE q.n * KubeFactor(q.unit)

=============================================================================
