-------------------------- MODULE EncryptionProofs --------------------------
(***************************************************************************)
(* Proofs about Encryption, for archives, vectors and buffers of any       *)
(* length and any number of backups.                                       *)
(***************************************************************************)
EXTENDS Encryption, SequenceTheorems, TLAPS

Archive(j) == goal[j].of

\* What encryptFile has written is the beginning of the sealed archive, and what
\* it has found in the file does not reach beyond the end of that.
EncryptInv ==
  LET s == source["encrypt"]  t == target["encrypt"]  a == Archive("encrypt")
      p == pos["encrypt"]     n == iv["encrypt"]
  IN /\ pc["encrypt"] \in {"open", "stream"} =>
          s = a /\ Len(t) <= Len(a) + BlockSize /\ made > 0
     /\ pc["encrypt"] = "open" => p = 0
     /\ pc["encrypt"] = "stream" =>
          /\ n \in 1 .. made
          /\ p <= Len(a) /\ p <= Len(t)
          /\ \A i \in 1 .. p : t[i] = XOR(a[i], n, i)
     /\ pc["encrypt"] \in {"remove", "done"} =>
          n \in 1 .. made /\ t = Sealed(a, n)

\* What decryptFile has written is the beginning of the archive, and behind it is
\* what was there.
DecryptInv ==
  LET s == source["decrypt"]  t == target["decrypt"]  a == Archive("decrypt")
      p == pos["decrypt"]     w == IF p < Len(a) THEN p ELSE Len(a)
  IN /\ pc["decrypt"] # "idle" => goal["decrypt"] \in store
     /\ pc["decrypt"] \in {"open", "stream"} => s = goal["decrypt"].content /\ p <= Len(s)
     /\ pc["decrypt"] = "open" => p = 0
     /\ pc["decrypt"] = "stream" => msgLen <= Len(s)
     /\ pc["decrypt"] = "stream" /\ msgLen > 0 => p <= Len(t)
     /\ pc["decrypt"] = "stream" /\ goal["decrypt"].whole =>
          /\ s = Sealed(a, iv["decrypt"])
          /\ msgLen = Len(a) - w
          /\ Len(t) = IF Len(old) < w THEN w ELSE Len(old)
          /\ \A i \in 1 .. Len(t) : t[i] = IF i <= w THEN a[i] ELSE old[i]

EncryptionInv == TypeOK /\ EncryptInv /\ DecryptInv /\ UploadedSealed /\ RestoredExact

-----------------------------------------------------------------------------
(* Files and bytes.                                                        *)

LEMMA MakeFile ==
  ASSUME NEW n \in Nat, NEW f \in [1 .. n -> Byte]
  PROVE  f \in File /\ Len(f) = n
<1>1. f \in File
  BY SeqDef DEF File
<1> QED BY <1>1, LenProperties, SMT DEF File

LEMMA FileIs ==
  ASSUME NEW f \in File
  PROVE  /\ Len(f) \in Nat
         /\ f \in [1 .. Len(f) -> Byte]
         /\ \A i \in 1 .. Len(f) : f[i] \in Byte
BY LenProperties, ElementOfSeq DEF File

LEMMA NoFile == <<>> \in File /\ Len(<<>>) = 0
BY EmptySeq DEF File

LEMMA SameFile ==
  ASSUME NEW f \in File, NEW g \in File, Len(f) = Len(g),
         \A i \in 1 .. Len(f) : f[i] = g[i]
  PROVE  f = g
BY SeqEqual DEF File

LEMMA XORIs ==
  ASSUME NEW b \in Byte, NEW n \in Nat, NEW i \in Nat
  PROVE  XOR(b, n, i) \in Byte /\ XOR(XOR(b, n, i), n, i) = b
<1> DEFINE k == <<n, i>>
           flip(m) == IF k \in m THEN m \ {k} ELSE m \cup {k}
<1>1. k \in Nat \X Nat
  OBVIOUS
<1>2. \A m \in SUBSET (Nat \X Nat) : flip(m) \in SUBSET (Nat \X Nat) /\ flip(flip(m)) = m
  BY <1>1, Zenon
<1>3. XOR(b, n, i) = [b EXCEPT !.mask = flip(b.mask)]
  BY DEF XOR
<1>4. b.mask \in SUBSET (Nat \X Nat)
  BY DEF Byte
<1>5. XOR(b, n, i) \in Byte /\ XOR(b, n, i).mask = flip(b.mask)
  <2> HIDE DEF flip
  <2> QED BY <1>2, <1>3, <1>4 DEF Byte
<1>6. XOR(XOR(b, n, i), n, i) = [XOR(b, n, i) EXCEPT !.mask = flip(XOR(b, n, i).mask)]
  BY DEF XOR
<1>7. XOR(XOR(b, n, i), n, i) = [b EXCEPT !.mask = b.mask]
  <2> HIDE DEF flip
  <2> QED BY <1>2, <1>3, <1>4, <1>5, <1>6 DEF Byte
<1> QED BY <1>5, <1>7 DEF Byte

LEMMA FreshIs ==
  ASSUME NEW kind \in Kinds, NEW n \in Nat, NEW len \in Nat
  PROVE  /\ Fresh(kind, n, len) \in File /\ Len(Fresh(kind, n, len)) = len
         /\ \A i \in 1 .. len : Fresh(kind, n, len)[i].no = n
<1>1. \A i \in 1 .. len : [of |-> kind, no |-> n, at |-> i, mask |-> {}] \in Byte
  BY DEF Byte
<1>2. Fresh(kind, n, len) \in [1 .. len -> Byte]
  BY <1>1 DEF Fresh
<1> QED BY <1>2, MakeFile DEF Fresh

LEMMA VectorIs ==
  ASSUME NEW n \in Nat
  PROVE  /\ IV(n) \in File /\ Len(IV(n)) = BlockSize
         /\ \A m \in Nat : IV(n) = IV(m) => n = m
<1>1. "iv" \in Kinds /\ BlockSize \in Nat /\ 1 \in 1 .. BlockSize
  BY EncryptionAssumption DEF Kinds
<1>2. IV(n) \in File /\ Len(IV(n)) = BlockSize /\ IV(n)[1].no = n
  BY <1>1, FreshIs DEF IV
<1>3. \A m \in Nat : IV(m)[1].no = m
  BY <1>1, FreshIs DEF IV
<1> QED BY <1>2, <1>3

LEMMA OverwriteIs ==
  ASSUME NEW f \in File, NEW s \in File, NEW at \in Nat, at <= Len(f) \/ s = <<>>
  PROVE  LET g == Overwrite(f, at, s) IN
         /\ g \in File
         /\ Len(g) = IF s # <<>> /\ Len(f) < at + Len(s) THEN at + Len(s) ELSE Len(f)
         /\ \A i \in 1 .. Len(g) :
              g[i] = IF i \in at + 1 .. at + Len(s) THEN s[i - at] ELSE f[i]
<1> DEFINE g == Overwrite(f, at, s)
           len == IF s # <<>> /\ Len(f) < at + Len(s) THEN at + Len(s) ELSE Len(f)
           e(i) == IF i \in at + 1 .. at + Len(s) THEN s[i - at] ELSE f[i]
<1>1. Len(f) \in Nat /\ Len(s) \in Nat /\ len \in Nat
  BY FileIs
<1>2. ASSUME NEW i \in 1 .. len PROVE e(i) \in Byte
  <2>1. CASE i \in at + 1 .. at + Len(s)
    BY <1>1, <2>1, FileIs
  <2>2. CASE i \notin at + 1 .. at + Len(s)
    <3>1. i \in 1 .. Len(f)
      BY <1>1, <2>2, NoFile
    <3> QED BY <3>1, <2>2, FileIs
  <2> QED BY <2>1, <2>2
<1>3. g = [i \in 1 .. len |-> e(i)]
  BY DEF Overwrite
<1> HIDE DEF g, len, e
<1>4. g \in [1 .. len -> Byte]
  BY <1>2, <1>3
<1>5. g \in File /\ Len(g) = len
  BY <1>1, <1>4, MakeFile
<1>6. \A i \in 1 .. Len(g) : g[i] = e(i)
  BY <1>3, <1>5
<1> QED BY <1>5, <1>6 DEF g, len, e

LEMMA CryptedIs ==
  ASSUME TypeOK, NEW j \in Jobs, NEW n \in Nat, n <= Len(source[j]) - pos[j], NEW k \in Nat
  PROVE  /\ Crypted(j, n, k) \in File /\ Len(Crypted(j, n, k)) = n
         /\ \A i \in 1 .. n :
              Crypted(j, n, k)[i] = XOR(source[j][pos[j] + i], iv[j], k + i)
<1>1. source[j] \in File /\ pos[j] \in Nat /\ iv[j] \in Nat /\ Len(source[j]) \in Nat
  BY FileIs, EncryptionAssumption DEF TypeOK
<1>2. \A i \in 1 .. n : source[j][pos[j] + i] \in Byte /\ k + i \in Nat
  <2>1. \A i \in 1 .. n : pos[j] + i \in 1 .. Len(source[j]) /\ k + i \in Nat
    BY <1>1
  <2> QED BY <1>1, <2>1, FileIs
<1>3. \A i \in 1 .. n : XOR(source[j][pos[j] + i], iv[j], k + i) \in Byte
  BY <1>1, <1>2, XORIs
<1>4. Crypted(j, n, k) \in [1 .. n -> Byte]
  BY <1>3 DEF Crypted
<1> QED BY <1>4, MakeFile DEF Crypted

LEMMA SealedIs ==
  ASSUME NEW a \in File, NEW n \in Nat
  PROVE  /\ Sealed(a, n) \in File /\ Len(Sealed(a, n)) = Len(a) + BlockSize
         /\ \A i \in 1 .. Len(a) : Sealed(a, n)[i] = XOR(a[i], n, i)
         /\ \A i \in 1 .. BlockSize : Sealed(a, n)[Len(a) + i] = IV(n)[i]
<1>1. BlockSize \in Nat /\ Len(a) \in Nat /\ Len(a) + BlockSize \in Nat
  BY EncryptionAssumption, FileIs
<1>2. \A i \in 1 .. Len(a) : XOR(a[i], n, i) \in Byte
  BY <1>1, FileIs, XORIs
<1>3. \A i \in 1 .. BlockSize : IV(n)[i] \in Byte
  BY VectorIs, FileIs
<1>4. Sealed(a, n) \in [1 .. Len(a) + BlockSize -> Byte]
  <2>1. \A i \in 1 .. Len(a) + BlockSize :
          (IF i =< Len(a) THEN XOR(a[i], n, i) ELSE IV(n)[i - Len(a)]) \in Byte
    BY <1>1, <1>2, <1>3
  <2> QED BY <2>1 DEF Sealed
<1>5. Sealed(a, n) \in File /\ Len(Sealed(a, n)) = Len(a) + BlockSize
  BY <1>1, <1>4, MakeFile
<1>6. \A i \in 1 .. Len(a) : i \in 1 .. Len(a) + BlockSize /\ i <= Len(a)
  BY <1>1
<1>7. \A i \in 1 .. BlockSize :
        /\ Len(a) + i \in 1 .. Len(a) + BlockSize
        /\ ~(Len(a) + i <= Len(a)) /\ Len(a) + i - Len(a) = i
  BY <1>1
<1>8. \A i \in 1 .. Len(a) : Sealed(a, n)[i] = XOR(a[i], n, i)
  BY <1>6 DEF Sealed
<1>9. \A i \in 1 .. BlockSize : Sealed(a, n)[Len(a) + i] = IV(n)[i]
  <2> TAKE i \in 1 .. BlockSize
  <2>1. Sealed(a, n)[Len(a) + i] = IF Len(a) + i <= Len(a) THEN XOR(a[Len(a) + i], n, Len(a) + i)
                                   ELSE IV(n)[Len(a) + i - Len(a)]
    BY <1>7 DEF Sealed
  <2>2. ~(Len(a) + i <= Len(a)) /\ Len(a) + i - Len(a) = i
    BY <1>7
  <2> QED BY <2>1, <2>2, Zenon
<1> QED BY <1>5, <1>8, <1>9

LEMMA BuffersAre ==
  ASSUME TypeOK, NEW j \in Jobs, pc[j] = "stream"
  PROVE  /\ \A n \in Buffers(j) : n \in Nat \ {0} /\ n <= Len(source[j]) - pos[j]
         /\ Buffers(j) = {} => pos[j] = Len(source[j])
<1>1. pos[j] \in Nat /\ Len(source[j]) \in Nat /\ pos[j] <= Len(source[j])
  BY FileIs DEF TypeOK
<1>2. BufLen \in Nat \ {0}
  BY EncryptionAssumption
<1>3. Len(source[j]) - pos[j] > 0 => 1 \in Buffers(j)
  BY <1>1, <1>2 DEF Buffers
<1>4. \A n \in Buffers(j) : n \in Nat \ {0} /\ n <= Len(source[j]) - pos[j]
  BY <1>1, <1>2 DEF Buffers
<1> QED BY <1>1, <1>3, <1>4

-----------------------------------------------------------------------------
(* What a step leaves alone.                                               *)

LEMMA EncryptFrame ==
  ASSUME TypeOK, EncryptInv, made' \in Nat, made <= made',
         pc'["encrypt"] = pc["encrypt"],
         source'["encrypt"] = source["encrypt"], target'["encrypt"] = target["encrypt"],
         pos'["encrypt"] = pos["encrypt"], iv'["encrypt"] = iv["encrypt"],
         goal'["encrypt"] = goal["encrypt"]
  PROVE  EncryptInv'
<1>1. made \in Nat
  BY EncryptionAssumption DEF TypeOK
<1> QED BY <1>1 DEF EncryptInv, Archive, Sealed

LEMMA DecryptFrame ==
  ASSUME DecryptInv, RestoredExact, store \subseteq store',
         pc'["decrypt"] = pc["decrypt"],
         source'["decrypt"] = source["decrypt"], target'["decrypt"] = target["decrypt"],
         pos'["decrypt"] = pos["decrypt"], iv'["decrypt"] = iv["decrypt"],
         goal'["decrypt"] = goal["decrypt"], msgLen' = msgLen, old' = old
  PROVE  DecryptInv' /\ RestoredExact'
<1>1. DecryptInv'
  BY DEF DecryptInv, Archive, Sealed
<1>2. RestoredExact'
  BY DEF RestoredExact, Overwrite
<1> QED BY <1>1, <1>2

LEMMA StoreFrame ==
  ASSUME TypeOK, UploadedSealed, made' \in Nat, made <= made', store' = store
  PROVE  UploadedSealed'
<1>1. made \in Nat
  BY EncryptionAssumption DEF TypeOK
<1>2. \A n \in 1 .. made : n \in 1 .. made'
  BY <1>1
<1> QED BY <1>2 DEF UploadedSealed, Sealed

\* What a step on the archive's side has to show.
LEMMA EncryptSide ==
  ASSUME EncryptionInv,
         made' \in Nat, made <= made', store' = store, msgLen' = msgLen, old' = old,
         NEW p, pc' = [pc EXCEPT !["encrypt"] = p],
         NEW s, source' = [source EXCEPT !["encrypt"] = s],
         NEW t, target' = [target EXCEPT !["encrypt"] = t],
         NEW x, pos' = [pos EXCEPT !["encrypt"] = x],
         NEW n, iv' = [iv EXCEPT !["encrypt"] = n],
         NEW g, goal' = [goal EXCEPT !["encrypt"] = g]
  PROVE  DecryptInv' /\ RestoredExact' /\ UploadedSealed'
<1> USE DEF EncryptionInv
<1>1. /\ pc'["decrypt"] = pc["decrypt"]
      /\ source'["decrypt"] = source["decrypt"] /\ target'["decrypt"] = target["decrypt"]
      /\ pos'["decrypt"] = pos["decrypt"] /\ iv'["decrypt"] = iv["decrypt"]
      /\ goal'["decrypt"] = goal["decrypt"]
  BY DEF TypeOK, Jobs
<1> QED BY <1>1, DecryptFrame, StoreFrame

\* And on the other side.
LEMMA DecryptSide ==
  ASSUME EncryptionInv, made' = made, store' = store,
         NEW p, pc' = [pc EXCEPT !["decrypt"] = p],
         NEW s, source' = [source EXCEPT !["decrypt"] = s],
         NEW t, target' = [target EXCEPT !["decrypt"] = t],
         NEW x, pos' = [pos EXCEPT !["decrypt"] = x],
         NEW n, iv' = [iv EXCEPT !["decrypt"] = n],
         NEW g, goal' = [goal EXCEPT !["decrypt"] = g]
  PROVE  EncryptInv' /\ UploadedSealed'
<1> USE DEF EncryptionInv
<1>1. /\ pc'["encrypt"] = pc["encrypt"]
      /\ source'["encrypt"] = source["encrypt"] /\ target'["encrypt"] = target["encrypt"]
      /\ pos'["encrypt"] = pos["encrypt"] /\ iv'["encrypt"] = iv["encrypt"]
      /\ goal'["encrypt"] = goal["encrypt"]
  BY DEF TypeOK, Jobs
<1>2. made' \in Nat /\ made <= made'
  BY EncryptionAssumption DEF TypeOK
<1> QED BY <1>1, <1>2, EncryptFrame, StoreFrame

-----------------------------------------------------------------------------
(* Step by step.                                                           *)

LEMMA InitInv == Init => EncryptionInv
<1> SUFFICES ASSUME Init PROVE EncryptionInv
  OBVIOUS
<1> USE NoFile, EncryptionAssumption DEF Init
<1>1. TypeOK
  BY DEF TypeOK, Jobs, NoVersion, Version
<1>2. EncryptInv /\ DecryptInv
  BY DEF EncryptInv, DecryptInv, Jobs
<1>3. UploadedSealed /\ RestoredExact
  BY DEF UploadedSealed, RestoredExact, Jobs
<1> QED BY <1>1, <1>2, <1>3 DEF EncryptionInv

LEMMA CompressInv == EncryptionInv /\ Compress => EncryptionInv'
<1> SUFFICES ASSUME EncryptionInv, Compress PROVE EncryptionInv'
  OBVIOUS
<1> USE DEF EncryptionInv
<1> DEFINE t == target["encrypt"]
<1>1. PICK n \in 1 .. MaxLen :
        /\ source' = [source EXCEPT !["encrypt"] = Fresh("archive", made', n)]
        /\ \/ target' = [target EXCEPT !["encrypt"] = <<>>]
           \/ Len(target["encrypt"]) < n /\ UNCHANGED target
  BY DEF Compress
<1> DEFINE a == Fresh("archive", made', n)
<1>2. n \in Nat /\ made' \in 1 .. MaxBackups /\ made' = made + 1 /\ made \in Nat
  BY <1>1, EncryptionAssumption DEF Compress, TypeOK
<1>3. a \in File /\ Len(a) = n
  <2>1. "archive" \in Kinds /\ made' \in Nat
    BY <1>2 DEF Kinds
  <2> QED BY <1>2, <2>1, FreshIs
<1> HIDE DEF a
<1>4. source' = [source EXCEPT !["encrypt"] = a] /\ source'["encrypt"] = a
  BY <1>1 DEF a, TypeOK, Jobs
<1>5. PICK u \in File : target' = [target EXCEPT !["encrypt"] = u] /\ Len(u) <= n
  <2>1. CASE target' = [target EXCEPT !["encrypt"] = <<>>]
    <3>1. <<>> \in File /\ Len(<<>>) <= n
      BY <1>2, NoFile
    <3> QED BY <2>1, <3>1, Zenon
  <2>2. CASE Len(t) < n /\ UNCHANGED target
    <3>1. t \in File /\ Len(t) \in Nat /\ target' = [target EXCEPT !["encrypt"] = t]
      BY <2>2, FileIs DEF TypeOK, Jobs
    <3>2. Len(t) <= n
      BY <2>2, <3>1, <1>2
    <3> QED BY <3>1, <3>2, Zenon
  <2> QED BY <1>1, <2>1, <2>2
<1> DEFINE g == [NoVersion EXCEPT !.of = a]
<1>6. g \in Version /\ g.of = a
  BY <1>3, NoFile DEF NoVersion, Version
<1>7. goal' = [goal EXCEPT !["encrypt"] = g]
  BY <1>4 DEF Compress
<1> HIDE DEF g, t
<1>8. /\ pc' = [pc EXCEPT !["encrypt"] = "open"] /\ pc["encrypt"] = "idle"
      /\ pos' = [pos EXCEPT !["encrypt"] = 0]
      /\ UNCHANGED <<iv, msgLen, store, old>>
  BY DEF Compress, Go
<1>9. TypeOK'
  BY <1>2, <1>3, <1>4, <1>5, <1>6, <1>7, <1>8 DEF TypeOK, Jobs
<1>10. EncryptInv'
  <2>1. /\ Archive("encrypt")' = a /\ pc'["encrypt"] = "open" /\ target'["encrypt"] = u
        /\ pos'["encrypt"] = 0
    BY <1>5, <1>6, <1>7, <1>8 DEF TypeOK, Jobs, Archive
  <2>2. Len(u) <= Len(a) + BlockSize
    BY <1>2, <1>3, <1>5, FileIs, EncryptionAssumption
  <2> QED BY <2>1, <2>2, <1>2, <1>4 DEF EncryptInv
<1>11. DecryptInv' /\ RestoredExact' /\ UploadedSealed'
  <2>1. iv' = [iv EXCEPT !["encrypt"] = iv["encrypt"]] /\ made' \in Nat /\ made <= made'
    BY <1>2, <1>8 DEF TypeOK, Jobs
  <2> QED BY <2>1, <1>4, <1>5, <1>7, <1>8, EncryptSide
<1> QED BY <1>9, <1>10, <1>11

LEMMA OpenEncryptInv == EncryptionInv /\ OpenEncrypt => EncryptionInv'
<1> SUFFICES ASSUME EncryptionInv, OpenEncrypt PROVE EncryptionInv'
  OBVIOUS
<1> USE DEF EncryptionInv
<1>1. /\ pc["encrypt"] = "open" /\ pc' = [pc EXCEPT !["encrypt"] = "stream"]
      /\ iv' = [iv EXCEPT !["encrypt"] = made]
      /\ UNCHANGED <<source, target, pos, msgLen, made, store, goal, old>>
  BY DEF OpenEncrypt, Go, files
<1>2. made \in Nat /\ made \in 1 .. made
  BY <1>1, EncryptionAssumption DEF TypeOK, EncryptInv
<1>3. TypeOK'
  BY <1>1 DEF TypeOK, Jobs
<1>4. pos["encrypt"] = 0
  BY <1>1 DEF EncryptInv
<1>5. EncryptInv'
  <2>1. pc'["encrypt"] = "stream" /\ iv'["encrypt"] = made
    BY <1>1 DEF TypeOK, Jobs
  <2>2. Len(Archive("encrypt")) \in Nat /\ Len(target["encrypt"]) \in Nat
    BY FileIs DEF TypeOK, Jobs, Version, Archive
  <2> QED BY <1>1, <1>2, <1>4, <2>1, <2>2 DEF EncryptInv, Archive
<1>6. DecryptInv' /\ RestoredExact' /\ UploadedSealed'
  <2>1. /\ source' = [source EXCEPT !["encrypt"] = source["encrypt"]]
        /\ target' = [target EXCEPT !["encrypt"] = target["encrypt"]]
        /\ pos' = [pos EXCEPT !["encrypt"] = pos["encrypt"]]
        /\ goal' = [goal EXCEPT !["encrypt"] = goal["encrypt"]]
    BY <1>1 DEF TypeOK
  <2>2. made' \in Nat /\ made <= made'
    BY <1>1, <1>2
  <2> QED BY <2>1, <2>2, <1>1, EncryptSide
<1> QED BY <1>3, <1>5, <1>6

LEMMA EncryptBufferInv == EncryptionInv /\ EncryptBuffer => EncryptionInv'
<1> SUFFICES ASSUME EncryptionInv, EncryptBuffer PROVE EncryptionInv'
  OBVIOUS
<1> USE DEF EncryptionInv
<1> DEFINE a == Archive("encrypt")  t == target["encrypt"]  p == pos["encrypt"]
           v == iv["encrypt"]
<1>1. /\ pc["encrypt"] = "stream" /\ pc' = [pc EXCEPT !["encrypt"] = "stream"]
      /\ UNCHANGED <<source, iv, msgLen, made, store, goal, old>>
  BY DEF EncryptBuffer, Go
<1>2. PICK n \in Buffers("encrypt") :
        /\ target' = [target EXCEPT !["encrypt"] =
                        Overwrite(target["encrypt"], p, Crypted("encrypt", n, p))]
        /\ pos' = [pos EXCEPT !["encrypt"] = p + n]
  BY DEF EncryptBuffer, Write
<1>3. /\ a \in File /\ Len(a) \in Nat /\ t \in File /\ Len(t) \in Nat /\ p \in Nat
      /\ v \in Nat /\ made \in Nat /\ BlockSize \in Nat
  BY FileIs, EncryptionAssumption DEF TypeOK, Jobs, Version, Archive
<1>4. /\ source["encrypt"] = a /\ Len(t) <= Len(a) + BlockSize
      /\ v \in 1 .. made /\ p <= Len(a) /\ p <= Len(t)
      /\ \A i \in 1 .. p : t[i] = XOR(a[i], v, i)
  BY <1>1 DEF EncryptInv
<1>5. n \in Nat \ {0} /\ n <= Len(a) - p
  BY <1>1, <1>2, <1>4, BuffersAre DEF Jobs
<1> DEFINE c == Crypted("encrypt", n, p)
           u == Overwrite(t, p, c)
<1>6. c \in File /\ Len(c) = n /\ \A i \in 1 .. n : c[i] = XOR(a[p + i], v, p + i)
  <2>1. "encrypt" \in Jobs /\ n \in Nat /\ n <= Len(source["encrypt"]) - pos["encrypt"]
    BY <1>4, <1>5 DEF Jobs
  <2>2. TypeOK /\ p \in Nat
    BY <1>3
  <2>3. /\ c \in File /\ Len(c) = n
        /\ \A i \in 1 .. n : c[i] = XOR(source["encrypt"][pos["encrypt"] + i], iv["encrypt"], p + i)
    BY <2>1, <2>2, CryptedIs
  <2> QED BY <1>4, <2>3
<1> HIDE DEF c
<1>7. /\ u \in File
      /\ Len(u) = IF c # <<>> /\ Len(t) < p + Len(c) THEN p + Len(c) ELSE Len(t)
      /\ \A i \in 1 .. Len(u) :
           u[i] = IF i \in p + 1 .. p + Len(c) THEN c[i - p] ELSE t[i]
  <2>1. t \in File /\ c \in File /\ p \in Nat /\ p <= Len(t)
    BY <1>3, <1>4, <1>6
  <2> HIDE DEF t, p, a, v
  <2> QED BY <2>1, OverwriteIs
<1>8. target' = [target EXCEPT !["encrypt"] = u] /\ pos' = [pos EXCEPT !["encrypt"] = p + n]
  BY <1>2 DEF c
<1> HIDE DEF u, a, t, p, v
<1>9. c # <<>>
  BY <1>5, <1>6, NoFile
<1>10. /\ Len(u) = IF Len(t) < p + n THEN p + n ELSE Len(t)
       /\ \A i \in 1 .. p + n : u[i] = XOR(a[i], v, i)
  <2>1. Len(u) = IF Len(t) < p + n THEN p + n ELSE Len(t)
    BY <1>6, <1>7, <1>9
  <2>2. ASSUME NEW i \in 1 .. p + n PROVE u[i] = XOR(a[i], v, i)
    <3>1. i \in 1 .. Len(u)
      BY <2>1, <1>3, <1>5
    <3>2. CASE i \in 1 .. p
      <4>1. i \notin p + 1 .. p + Len(c)
        BY <3>2, <1>3
      <4> QED BY <3>1, <3>2, <4>1, <1>4, <1>7
    <3>3. CASE i \notin 1 .. p
      <4>1. i \in p + 1 .. p + Len(c) /\ i - p \in 1 .. n /\ p + (i - p) = i
        BY <3>3, <1>3, <1>5, <1>6
      <4>2. u[i] = c[i - p]
        BY <3>1, <4>1, <1>7
      <4>3. c[i - p] = XOR(a[p + (i - p)], v, p + (i - p))
        BY <4>1, <1>6
      <4> QED BY <4>1, <4>2, <4>3
    <3> QED BY <3>2, <3>3
  <2> QED BY <2>1, <2>2
<1>11. TypeOK'
  <2>1. /\ target' \in [Jobs -> File] /\ pos' \in [Jobs -> Nat] /\ pc' \in [Jobs -> {"idle", "open", "stream", "remove", "done"}]
    BY <1>1, <1>3, <1>5, <1>7, <1>8 DEF TypeOK, Jobs
  <2>2. \A j \in Jobs : pc'[j] \in {"open", "stream"} => pos'[j] =< Len(source'[j])
    BY <1>1, <1>3, <1>4, <1>5, <1>8 DEF TypeOK, Jobs
  <2> QED BY <1>1, <2>1, <2>2 DEF TypeOK
<1>12. EncryptInv'
  <2>1. /\ pc'["encrypt"] = "stream" /\ target'["encrypt"] = u /\ pos'["encrypt"] = p + n
        /\ iv'["encrypt"] = v /\ source'["encrypt"] = a /\ Archive("encrypt")' = a
    BY <1>1, <1>4, <1>8 DEF TypeOK, Jobs, Archive, a, v
  <2>2. p + n <= Len(a) /\ p + n <= Len(u) /\ Len(u) <= Len(a) + BlockSize
    BY <1>3, <1>4, <1>5, <1>10
  <2>3. v \in 1 .. made' /\ made' > 0
    BY <1>1, <1>3, <1>4
  <2> QED BY <2>1, <2>2, <2>3, <1>10 DEF EncryptInv
<1>13. DecryptInv' /\ RestoredExact' /\ UploadedSealed'
  <2>1. /\ source' = [source EXCEPT !["encrypt"] = source["encrypt"]]
        /\ iv' = [iv EXCEPT !["encrypt"] = iv["encrypt"]]
        /\ goal' = [goal EXCEPT !["encrypt"] = goal["encrypt"]]
        /\ made' \in Nat /\ made <= made'
    BY <1>1, <1>3 DEF TypeOK
  <2> QED BY <2>1, <1>1, <1>8, EncryptSide
<1> QED BY <1>11, <1>12, <1>13

LEMMA AppendIVInv == EncryptionInv /\ AppendIV => EncryptionInv'
<1> SUFFICES ASSUME EncryptionInv, AppendIV PROVE EncryptionInv'
  OBVIOUS
<1> USE DEF EncryptionInv
<1> DEFINE a == Archive("encrypt")  t == target["encrypt"]  p == pos["encrypt"]
           v == iv["encrypt"]       u == Overwrite(t, p, IV(v))
<1>1. /\ pc["encrypt"] = "stream" /\ pc' = [pc EXCEPT !["encrypt"] = "remove"]
      /\ target' = [target EXCEPT !["encrypt"] = u]
      /\ Buffers("encrypt") = {}
      /\ UNCHANGED <<source, pos, iv, msgLen, made, store, goal, old>>
  BY DEF AppendIV, Go, Write
<1>2. /\ a \in File /\ Len(a) \in Nat /\ t \in File /\ Len(t) \in Nat /\ p \in Nat
      /\ v \in Nat /\ made \in Nat /\ BlockSize \in Nat \ {0}
  BY FileIs, EncryptionAssumption DEF TypeOK, Jobs, Version, Archive
<1>3. /\ source["encrypt"] = a /\ Len(t) <= Len(a) + BlockSize
      /\ v \in 1 .. made /\ p <= Len(t) /\ \A i \in 1 .. p : t[i] = XOR(a[i], v, i)
  BY <1>1 DEF EncryptInv
<1>4. p = Len(a)
  BY <1>1, <1>3, BuffersAre DEF Jobs
<1>5. IV(v) \in File /\ Len(IV(v)) = BlockSize /\ IV(v) # <<>>
  <2>1. IV(v) \in File /\ Len(IV(v)) = BlockSize
    BY <1>2, VectorIs
  <2> QED BY <2>1, <1>2, NoFile
<1>6. /\ u \in File
      /\ Len(u) = IF Len(t) < p + BlockSize THEN p + BlockSize ELSE Len(t)
      /\ \A i \in 1 .. Len(u) :
           u[i] = IF i \in p + 1 .. p + BlockSize THEN IV(v)[i - p] ELSE t[i]
  <2>1. t \in File /\ IV(v) \in File /\ p \in Nat /\ p <= Len(t)
    BY <1>2, <1>3, <1>5
  <2> HIDE DEF t, p, v
  <2>2. /\ u \in File
        /\ Len(u) = IF IV(v) # <<>> /\ Len(t) < p + Len(IV(v)) THEN p + Len(IV(v)) ELSE Len(t)
        /\ \A i \in 1 .. Len(u) :
             u[i] = IF i \in p + 1 .. p + Len(IV(v)) THEN IV(v)[i - p] ELSE t[i]
    BY <2>1, OverwriteIs
  <2> QED BY <2>2, <1>5
<1> HIDE DEF u, a, t, p, v
<1>7. u = Sealed(a, v)
  <2>1. Len(u) = Len(a) + BlockSize /\ Len(u) \in Nat
    BY <1>2, <1>3, <1>4, <1>6
  <2>2. Sealed(a, v) \in File /\ Len(Sealed(a, v)) = Len(u)
    BY <1>2, <2>1, SealedIs
  <2>3. ASSUME NEW i \in 1 .. Len(u) PROVE u[i] = Sealed(a, v)[i]
    <3>1. CASE i \in 1 .. Len(a)
      <4>1. i \notin p + 1 .. p + BlockSize /\ i \in 1 .. p
        BY <3>1, <1>2, <1>4
      <4>2. u[i] = XOR(a[i], v, i)
        BY <4>1, <1>3, <1>6
      <4> QED BY <3>1, <4>2, <1>2, SealedIs
    <3>2. CASE i \notin 1 .. Len(a)
      <4>1. i \in p + 1 .. p + BlockSize /\ i - p \in 1 .. BlockSize /\ Len(a) + (i - p) = i
        BY <3>2, <2>1, <1>2, <1>4
      <4>2. u[i] = IV(v)[i - p]
        BY <4>1, <1>6
      <4>3. Sealed(a, v)[Len(a) + (i - p)] = IV(v)[i - p]
        BY <4>1, <1>2, SealedIs
      <4> QED BY <4>1, <4>2, <4>3
    <3> QED BY <3>1, <3>2
  <2> QED BY <1>6, <2>2, <2>3, SameFile
<1>8. TypeOK'
  <2>1. target' \in [Jobs -> File]
    BY <1>1, <1>6 DEF TypeOK, Jobs
  <2> QED BY <1>1, <2>1 DEF TypeOK, Jobs
<1>9. EncryptInv'
  <2>1. /\ pc'["encrypt"] = "remove" /\ target'["encrypt"] = u /\ iv'["encrypt"] = v
        /\ Archive("encrypt")' = a
    BY <1>1 DEF TypeOK, Jobs, Archive, a, v
  <2>2. v \in 1 .. made'
    BY <1>1, <1>3
  <2>3. Sealed(a, v)' = Sealed(a, v)
    BY <1>1 DEF Sealed, a, v, Archive
  <2> QED BY <2>1, <2>2, <1>7 DEF EncryptInv
<1>10. DecryptInv' /\ RestoredExact' /\ UploadedSealed'
  <2>1. /\ source' = [source EXCEPT !["encrypt"] = source["encrypt"]]
        /\ pos' = [pos EXCEPT !["encrypt"] = pos["encrypt"]]
        /\ iv' = [iv EXCEPT !["encrypt"] = iv["encrypt"]]
        /\ goal' = [goal EXCEPT !["encrypt"] = goal["encrypt"]]
        /\ made' \in Nat /\ made <= made'
    BY <1>1, <1>2 DEF TypeOK
  <2> QED BY <2>1, <1>1, EncryptSide
<1> QED BY <1>8, <1>9, <1>10

LEMMA UploadInv == EncryptionInv /\ Upload => EncryptionInv'
<1> SUFFICES ASSUME EncryptionInv, Upload PROVE EncryptionInv'
  OBVIOUS
<1> USE DEF EncryptionInv
<1> DEFINE a == Archive("encrypt")  t == target["encrypt"]  v == iv["encrypt"]
<1>1. /\ pc["encrypt"] = "done" /\ pc' = [pc EXCEPT !["encrypt"] = "idle"]
      /\ UNCHANGED <<source, target, pos, iv, msgLen, made, goal, old>>
  BY DEF Upload, Go, files
<1>2. a \in File /\ t \in File /\ Len(t) \in Nat
  BY FileIs DEF TypeOK, Jobs, Version, Archive
<1>3. v \in 1 .. made /\ t = Sealed(a, v)
  BY <1>1 DEF EncryptInv
<1>4. PICK k \in 0 .. Len(t) :
        store' = store \cup {[of |-> a, content |-> SubSeq(t, 1, k), whole |-> k = Len(t)]}
  BY DEF Upload, Archive
<1> DEFINE new == [of |-> a, content |-> SubSeq(t, 1, k), whole |-> k = Len(t)]
<1>5. SubSeq(t, 1, k) \in File /\ (k = Len(t) => SubSeq(t, 1, k) = t)
  <2>1. \A i \in 1 .. k : t[i] \in Byte
    BY <1>2, FileIs
  <2>2. /\ SubSeq(t, 1, k) \in File /\ Len(SubSeq(t, 1, k)) = k
        /\ \A i \in 1 .. k : SubSeq(t, 1, k)[i] = t[i]
    <3>1. k \in Int /\ k - 1 + 1 = k /\ k >= 0 /\ \A i \in 1 .. k : 1 + i - 1 = i
      BY <1>2
    <3> HIDE DEF t
    <3>2. /\ SubSeq(t, 1, k) \in Seq(Byte)
          /\ Len(SubSeq(t, 1, k)) = IF 1 <= k THEN k - 1 + 1 ELSE 0
          /\ \A i \in 1 .. k - 1 + 1 : SubSeq(t, 1, k)[i] = t[1 + i - 1]
      BY <2>1, <3>1, SubSeqProperties
    <3> QED BY <3>1, <3>2 DEF File
  <2> HIDE DEF t
  <2> QED BY <1>2, <2>2, SameFile
<1>6. new \in Version
  BY <1>2, <1>5 DEF Version
<1> HIDE DEF a, t, v
<1>7. UploadedSealed'
  <2>1. ASSUME NEW x \in store', x.whole PROVE \E n \in 1 .. made' : x.content = Sealed(x.of, n)
    <3>1. CASE x \in store
      BY <1>1, <2>1, <3>1 DEF UploadedSealed
    <3>2. CASE x = new
      BY <1>1, <1>3, <1>5, <2>1, <3>2
    <3> QED BY <1>4, <3>1, <3>2
  <2> QED BY <2>1 DEF UploadedSealed, Sealed
<1>8. TypeOK'
  BY <1>1, <1>4, <1>6 DEF TypeOK, Jobs
<1>9. EncryptInv'
  <2>1. pc'["encrypt"] = "idle"
    BY <1>1 DEF TypeOK, Jobs
  <2> QED BY <2>1 DEF EncryptInv
<1>10. DecryptInv' /\ RestoredExact'
  <2>1. pc'["decrypt"] = pc["decrypt"] /\ store \subseteq store'
    BY <1>1, <1>4 DEF TypeOK, Jobs
  <2> QED BY <2>1, <1>1, DecryptFrame
<1> QED BY <1>7, <1>8, <1>9, <1>10

LEMMA DownloadInv == EncryptionInv /\ Download => EncryptionInv'
<1> SUFFICES ASSUME EncryptionInv, Download PROVE EncryptionInv'
  OBVIOUS
<1> USE DEF EncryptionInv
<1>1. /\ pc' = [pc EXCEPT !["decrypt"] = "open"]
      /\ pos' = [pos EXCEPT !["decrypt"] = 0]
      /\ UNCHANGED <<target, iv, msgLen, made, store, old>>
  BY DEF Download, Go
<1>2. PICK v \in store : /\ goal' = [goal EXCEPT !["decrypt"] = v]
                         /\ source' = [source EXCEPT !["decrypt"] = v.content]
  BY DEF Download
<1>3. v \in Version /\ v.content \in File /\ Len(v.content) \in Nat
  BY FileIs DEF TypeOK, Version
<1>4. TypeOK'
  BY <1>1, <1>2, <1>3 DEF TypeOK, Jobs
<1>5. EncryptInv' /\ UploadedSealed'
  <2>1. /\ target' = [target EXCEPT !["decrypt"] = target["decrypt"]]
        /\ iv' = [iv EXCEPT !["decrypt"] = iv["decrypt"]]
    BY <1>1 DEF TypeOK
  <2> QED BY <1>1, <1>2, <2>1, DecryptSide
<1>6. DecryptInv' /\ RestoredExact'
  <2>1. /\ pc'["decrypt"] = "open" /\ goal'["decrypt"] = v /\ source'["decrypt"] = v.content
        /\ pos'["decrypt"] = 0
    BY <1>1, <1>2 DEF TypeOK, Jobs
  <2> QED BY <1>1, <1>3, <2>1 DEF DecryptInv, RestoredExact
<1> QED BY <1>4, <1>5, <1>6

\* The stream of a vector is found again.
LEMMA StreamOfIs ==
  ASSUME made \in Nat, made <= MaxBackups
  PROVE  /\ \A block : StreamOf(block) \in 0 .. MaxBackups
         /\ \A n \in 1 .. made : StreamOf(IV(n)) = n
<1>1. MaxBackups \in Nat
  BY EncryptionAssumption
<1>2. ASSUME NEW block PROVE StreamOf(block) \in 0 .. MaxBackups
  <2>1. StreamOf(block) \in 1 .. made \/ StreamOf(block) = 0
    BY Zenon DEF StreamOf
  <2> QED BY <2>1, <1>1
<1>3. ASSUME NEW n \in 1 .. made PROVE StreamOf(IV(n)) = n
  <2>1. \A m \in 1 .. made : IV(n) = IV(m) => m = n
    BY VectorIs
  <2>2. StreamOf(IV(n)) = CHOOSE m \in 1 .. made : IV(n) = IV(m)
    BY Zenon DEF StreamOf
  <2> QED BY <2>1, <2>2, Zenon
<1> QED BY <1>2, <1>3

LEMMA OpenDecryptInv == EncryptionInv /\ OpenDecrypt => EncryptionInv'
<1> SUFFICES ASSUME EncryptionInv, OpenDecrypt PROVE EncryptionInv'
  OBVIOUS
<1> USE DEF EncryptionInv
<1> DEFINE a == Archive("decrypt")  f == source["decrypt"]
           block == [i \in 1 .. BlockSize |-> f[Len(f) - BlockSize + i]]
<1>1. /\ pc["decrypt"] = "open" /\ pc' = [pc EXCEPT !["decrypt"] = "stream"]
      /\ Len(f) >= BlockSize
      /\ iv' = [iv EXCEPT !["decrypt"] = StreamOf(block)]
      /\ msgLen' = Len(f) - BlockSize /\ old' = target["decrypt"]
      /\ UNCHANGED <<source, target, pos, made, store, goal>>
  BY DEF OpenDecrypt, Go, files
<1>2. /\ a \in File /\ Len(a) \in Nat /\ f \in File /\ Len(f) \in Nat
      /\ target["decrypt"] \in File /\ Len(target["decrypt"]) \in Nat
      /\ BlockSize \in Nat \ {0} /\ made \in Nat /\ made <= MaxBackups
  BY FileIs, EncryptionAssumption DEF TypeOK, Jobs, Version, Archive
<1>3. goal["decrypt"] \in store /\ f = goal["decrypt"].content /\ pos["decrypt"] = 0
  BY <1>1 DEF DecryptInv
<1>4. StreamOf(block) \in 0 .. MaxBackups
  BY <1>2, StreamOfIs
<1>5. goal["decrypt"].whole => f = Sealed(a, StreamOf(block)) /\ Len(f) = Len(a) + BlockSize
  <2> SUFFICES ASSUME goal["decrypt"].whole
               PROVE  f = Sealed(a, StreamOf(block)) /\ Len(f) = Len(a) + BlockSize
    OBVIOUS
  <2>1. PICK n \in 1 .. made : f = Sealed(a, n)
    BY <1>3 DEF UploadedSealed, Archive
  <2>2. n \in Nat /\ Len(f) = Len(a) + BlockSize
    <3>1. n \in Nat /\ a \in File
      BY <1>2
    <3> HIDE DEF a, f
    <3>2. Len(Sealed(a, n)) = Len(a) + BlockSize
      BY <3>1, SealedIs
    <3> QED BY <2>1, <3>1, <3>2
  <2>3. IV(n) \in File /\ Len(IV(n)) = BlockSize /\ \A i \in 1 .. BlockSize : IV(n)[i] \in Byte
    BY <2>2, VectorIs, FileIs
  <2>4. \A i \in 1 .. BlockSize : f[Len(a) + i] = IV(n)[i]
    BY <1>2, <2>1, <2>2, SealedIs
  <2>5. \A i \in 1 .. BlockSize : Len(f) - BlockSize + i = Len(a) + i
    BY <1>2, <2>2
  <2>6. block = [i \in 1 .. BlockSize |-> IV(n)[i]]
    <3> HIDE DEF f
    <3> QED BY <2>4, <2>5
  <2>7. [i \in 1 .. BlockSize |-> IV(n)[i]] = IV(n)
    <3> DEFINE g == [i \in 1 .. BlockSize |-> IV(n)[i]]
    <3>1. g \in [1 .. BlockSize -> Byte] /\ BlockSize \in Nat
      BY <1>2, <2>3
    <3>2. g \in File /\ Len(g) = BlockSize /\ \A i \in 1 .. BlockSize : g[i] = IV(n)[i]
      BY <3>1, MakeFile
    <3> HIDE DEF g
    <3>3. g = IV(n)
      BY <2>3, <3>2, SameFile
    <3> QED BY <3>3 DEF g
  <2>8. StreamOf(block) = n
    <3> HIDE DEF block
    <3> QED BY <1>2, <2>6, <2>7, StreamOfIs
  <2> QED BY <2>1, <2>2, <2>8
<1> HIDE DEF block
<1>6. TypeOK'
  BY <1>1, <1>2, <1>3, <1>4 DEF TypeOK, Jobs
<1>7. EncryptInv' /\ UploadedSealed'
  <2>1. /\ source' = [source EXCEPT !["decrypt"] = source["decrypt"]]
        /\ target' = [target EXCEPT !["decrypt"] = target["decrypt"]]
        /\ pos' = [pos EXCEPT !["decrypt"] = pos["decrypt"]]
        /\ goal' = [goal EXCEPT !["decrypt"] = goal["decrypt"]]
    BY <1>1 DEF TypeOK
  <2> QED BY <1>1, <2>1, DecryptSide
<1>8. DecryptInv' /\ RestoredExact'
  <2> DEFINE v == StreamOf(block)
  <2>1. /\ pc'["decrypt"] = "stream" /\ iv'["decrypt"] = v /\ source'["decrypt"] = f
        /\ pos'["decrypt"] = 0 /\ target'["decrypt"] = target["decrypt"]
        /\ goal'["decrypt"] = goal["decrypt"] /\ goal'["decrypt"] \in store'
        /\ Archive("decrypt")' = a /\ old' = target["decrypt"]
    BY <1>1, <1>3 DEF TypeOK, Jobs, Archive
  <2>2. RestoredExact'
    BY <2>1 DEF RestoredExact
  <2>3. msgLen' <= Len(f) /\ 0 <= Len(target["decrypt"])
    BY <1>1, <1>2
  <2>4. Sealed(Archive("decrypt"), iv["decrypt"])' = Sealed(a, v)
    BY <2>1 DEF Sealed
  <2> HIDE DEF a, f, v
  <2>5. goal["decrypt"].whole => f = Sealed(a, v) /\ msgLen' = Len(a)
    BY <1>1, <1>2, <1>5 DEF v
  <2>6. /\ (IF 0 < Len(a) THEN 0 ELSE Len(a)) = 0 /\ Len(a) - 0 = Len(a) /\ 0 <= Len(f)
        /\ (IF Len(target["decrypt"]) < 0 THEN 0 ELSE Len(target["decrypt"])) = Len(target["decrypt"])
        /\ \A i \in 1 .. Len(target["decrypt"]) : ~(i <= 0)
    BY <1>2
  <2>7. f = goal["decrypt"].content
    BY <1>3
  <2>8. DecryptInv'
    BY <2>1, <2>3, <2>4, <2>5, <2>6, <2>7 DEF DecryptInv
  <2> QED BY <2>2, <2>8
<1> QED BY <1>6, <1>7, <1>8

LEMMA DecryptBufferInv == EncryptionInv /\ DecryptBuffer => EncryptionInv'
<1> SUFFICES ASSUME EncryptionInv, DecryptBuffer PROVE EncryptionInv'
  OBVIOUS
<1> USE DEF EncryptionInv
<1> DEFINE a == Archive("decrypt")  t == target["decrypt"]  p == pos["decrypt"]
           s == source["decrypt"]   v == iv["decrypt"]      o == Len(old)
<1>1. /\ pc["decrypt"] = "stream" /\ pc' = [pc EXCEPT !["decrypt"] = "stream"]
      /\ UNCHANGED <<source, iv, made, store, goal, old>>
  BY DEF DecryptBuffer, Go
<1>2. PICK n \in Buffers("decrypt") :
        LET m == IF n > msgLen THEN msgLen ELSE n IN
          /\ target' = [target EXCEPT !["decrypt"] = Overwrite(t, p, Crypted("decrypt", m, p))]
          /\ pos' = [pos EXCEPT !["decrypt"] = p + n]
          /\ msgLen' = msgLen - m
  BY DEF DecryptBuffer, Write
<1> DEFINE m == IF n > msgLen THEN msgLen ELSE n
           c == Crypted("decrypt", m, p)
           u == Overwrite(t, p, c)
<1>3. /\ a \in File /\ Len(a) \in Nat /\ t \in File /\ Len(t) \in Nat /\ p \in Nat
      /\ s \in File /\ Len(s) \in Nat /\ v \in Nat /\ old \in File /\ o \in Nat
      /\ msgLen \in Nat /\ BlockSize \in Nat
  BY FileIs, EncryptionAssumption DEF TypeOK, Jobs, Version, Archive
<1>4. n \in Nat \ {0} /\ p + n <= Len(s)
  <2>1. n \in Nat \ {0} /\ n <= Len(s) - p
    BY <1>1, BuffersAre DEF Jobs
  <2> QED BY <1>3, <2>1
<1>5. m \in Nat /\ m <= n /\ m <= msgLen
  BY <1>3, <1>4
<1>6. goal["decrypt"] \in store /\ s = goal["decrypt"].content /\ (msgLen > 0 => p <= Len(t))
      /\ msgLen <= Len(s)
  BY <1>1 DEF DecryptInv
<1>7. c \in File /\ Len(c) = m /\ \A i \in 1 .. m : c[i] = XOR(s[p + i], v, p + i)
  <2>1. "decrypt" \in Jobs /\ m \in Nat /\ m <= Len(source["decrypt"]) - pos["decrypt"]
    BY <1>3, <1>4, <1>5 DEF Jobs
  <2>2. TypeOK /\ p \in Nat
    BY <1>3
  <2> HIDE DEF m
  <2> QED BY <2>1, <2>2, CryptedIs
<1>8. target' = [target EXCEPT !["decrypt"] = u] /\ pos' = [pos EXCEPT !["decrypt"] = p + n]
      /\ msgLen' = msgLen - m
  BY <1>2
<1> HIDE DEF c, m
<1>9. /\ u \in File
      /\ Len(u) = IF m > 0 /\ Len(t) < p + m THEN p + m ELSE Len(t)
      /\ \A i \in 1 .. Len(u) : u[i] = IF i \in p + 1 .. p + m THEN c[i - p] ELSE t[i]
  <2>1. c # <<>> <=> m > 0
    BY <1>5, <1>7, NoFile, EmptySeq DEF File
  <2>2. t \in File /\ c \in File /\ p \in Nat /\ (p <= Len(t) \/ c = <<>>)
    BY <1>3, <1>5, <1>6, <1>7, <2>1
  <2> HIDE DEF t, p
  <2>3. /\ u \in File
        /\ Len(u) = IF c # <<>> /\ Len(t) < p + Len(c) THEN p + Len(c) ELSE Len(t)
        /\ \A i \in 1 .. Len(u) : u[i] = IF i \in p + 1 .. p + Len(c) THEN c[i - p] ELSE t[i]
    BY <2>2, OverwriteIs
  <2> QED BY <1>7, <2>1, <2>3
<1> HIDE DEF u
<1>10. TypeOK'
  <2>1. /\ target' \in [Jobs -> File] /\ pos' \in [Jobs -> Nat] /\ msgLen' \in Nat
        /\ pc' \in [Jobs -> {"idle", "open", "stream", "remove", "done"}]
    BY <1>1, <1>3, <1>4, <1>5, <1>8, <1>9 DEF TypeOK, Jobs
  <2>2. \A j \in Jobs : pc'[j] \in {"open", "stream"} => pos'[j] =< Len(source'[j])
    BY <1>1, <1>3, <1>4, <1>8 DEF TypeOK, Jobs
  <2> QED BY <1>1, <2>1, <2>2 DEF TypeOK
<1>11. EncryptInv' /\ UploadedSealed'
  <2>1. /\ source' = [source EXCEPT !["decrypt"] = source["decrypt"]]
        /\ iv' = [iv EXCEPT !["decrypt"] = iv["decrypt"]]
        /\ goal' = [goal EXCEPT !["decrypt"] = goal["decrypt"]]
    BY <1>1 DEF TypeOK
  <2> QED BY <1>1, <1>8, <2>1, DecryptSide
<1> DEFINE w == IF p < Len(a) THEN p ELSE Len(a)
           y == IF p + n < Len(a) THEN p + n ELSE Len(a)
<1>12. ASSUME goal["decrypt"].whole
       PROVE  /\ s = Sealed(a, v) /\ msgLen - m = Len(a) - y
              /\ Len(u) = IF o < y THEN y ELSE o
              /\ \A i \in 1 .. Len(u) : u[i] = IF i <= y THEN a[i] ELSE old[i]
  <2>1. /\ s = Sealed(a, v) /\ msgLen = Len(a) - w
        /\ Len(t) = IF o < w THEN w ELSE o
        /\ \A i \in 1 .. Len(t) : t[i] = IF i <= w THEN a[i] ELSE old[i]
    BY <1>1, <1>12 DEF DecryptInv
  <2> HIDE DEF a, t, p, s, v, o
  <2>2. w \in Nat /\ y \in Nat /\ m = y - w /\ (m > 0 => w = p) /\ y <= Len(a) /\ w <= y
    <3>1. Len(a) \in Nat /\ p \in Nat /\ n \in Nat \ {0} /\ msgLen \in Nat
      BY <1>3, <1>4
    <3>2. msgLen = Len(a) - w
      BY <2>1
    <3> HIDE DEF EncryptionInv
    <3>3. CASE p < Len(a)
      <4>1. w = p /\ msgLen = Len(a) - p
        BY <3>2, <3>3
      <4>2. y = p + m
        BY <3>1, <3>3, <4>1 DEF m
      <4> HIDE DEF w, y
      <4>3. p + m <= Len(a)
        BY <3>1, <4>1 DEF m
      <4> QED BY <3>1, <4>1, <4>2, <4>3, <1>5
    <3>4. CASE ~(p < Len(a))
      <4>1. w = Len(a) /\ y = Len(a)
        BY <3>1, <3>4
      <4>2. msgLen = 0 /\ m = 0
        BY <3>1, <3>2, <4>1 DEF m
      <4> QED BY <3>1, <4>1, <4>2
    <3> QED BY <3>3, <3>4
  <2> HIDE DEF w, y
  <2>3. msgLen - m = Len(a) - y
    BY <1>3, <2>1, <2>2
  <2>4. Len(u) = IF o < y THEN y ELSE o
    BY <1>3, <1>9, <2>1, <2>2
  <2>5. ASSUME NEW i \in 1 .. Len(u) PROVE u[i] = IF i <= y THEN a[i] ELSE old[i]
    <3>1. CASE i \in p + 1 .. p + m
      <4>1. i - p \in 1 .. m /\ p + (i - p) = i /\ i <= y /\ i \in 1 .. Len(a)
        BY <3>1, <1>3, <1>5, <2>2
      <4>2. u[i] = c[i - p]
        BY <3>1, <1>9
      <4>3. c[i - p] = XOR(s[p + (i - p)], v, p + (i - p))
        BY <4>1, <1>7
      <4>4. s[i] = XOR(a[i], v, i)
        BY <4>1, <2>1, <1>3, SealedIs
      <4>5. a[i] \in Byte /\ i \in Nat
        BY <4>1, <1>3, FileIs
      <4>6. XOR(XOR(a[i], v, i), v, i) = a[i]
        BY <4>5, <1>3, XORIs
      <4> QED BY <4>1, <4>2, <4>3, <4>4, <4>6
    <3>2. CASE i \notin p + 1 .. p + m
      <4>1. u[i] = t[i]
        BY <3>2, <1>9
      <4>2. i \in 1 .. Len(t) /\ (i <= w <=> i <= y)
        BY <3>2, <1>3, <1>5, <1>9, <2>1, <2>2, <2>4
      <4> QED BY <4>1, <4>2, <2>1
    <3> QED BY <3>1, <3>2
  <2> QED BY <2>1, <2>3, <2>4, <2>5
<1>13. DecryptInv' /\ RestoredExact'
  <2>1. /\ pc'["decrypt"] = "stream" /\ iv'["decrypt"] = v /\ source'["decrypt"] = s
        /\ pos'["decrypt"] = p + n /\ target'["decrypt"] = u
        /\ goal'["decrypt"] = goal["decrypt"] /\ goal'["decrypt"] \in store'
        /\ Archive("decrypt")' = a /\ old' = old
    BY <1>1, <1>6, <1>8 DEF TypeOK, Jobs, Archive
  <2>2. RestoredExact'
    BY <2>1 DEF RestoredExact
  <2>3. msgLen' <= Len(s) /\ (msgLen' > 0 => p + n <= Len(u)) /\ p + n <= Len(s)
    <3> HIDE DEF a, s, v, p, t
    <3>1. msgLen' \in Nat /\ msgLen' <= Len(s) /\ p + n <= Len(s)
      BY <1>3, <1>4, <1>5, <1>6, <1>8
    <3>2. msgLen' > 0 => m = n
      BY <1>3, <1>4, <1>8 DEF m
    <3>3. m = n => p + n <= Len(u)
      BY <1>3, <1>4, <1>9
    <3> QED BY <3>1, <3>2, <3>3
  <2>4. Sealed(a, v)' = Sealed(a, v)
    BY <1>1, <2>1 DEF Sealed
  <2>5. s = goal["decrypt"].content
    BY <1>6
  <2> HIDE DEF a, s, v, p, t
  <2>6. DecryptInv'
    BY <1>8, <1>12, <2>1, <2>3, <2>4, <2>5 DEF DecryptInv
  <2> QED BY <2>2, <2>6
<1> QED BY <1>10, <1>11, <1>13

LEMMA DecryptedInv == EncryptionInv /\ Decrypted => EncryptionInv'
<1> SUFFICES ASSUME EncryptionInv, Decrypted PROVE EncryptionInv'
  OBVIOUS
<1> USE DEF EncryptionInv
<1> DEFINE a == Archive("decrypt")  t == target["decrypt"]  p == pos["decrypt"]
           s == source["decrypt"]
<1>1. /\ pc["decrypt"] = "stream" /\ pc' = [pc EXCEPT !["decrypt"] = "remove"]
      /\ Buffers("decrypt") = {}
      /\ UNCHANGED <<source, target, pos, iv, msgLen, made, store, goal, old>>
  BY DEF Decrypted, Go, files
<1>2. /\ a \in File /\ Len(a) \in Nat /\ t \in File /\ Len(t) \in Nat /\ old \in File
      /\ Len(old) \in Nat /\ iv["decrypt"] \in Nat /\ BlockSize \in Nat
  BY FileIs, EncryptionAssumption DEF TypeOK, Jobs, Version, Archive
<1>3. p = Len(s)
  BY <1>1, BuffersAre DEF Jobs
<1>4. goal["decrypt"].whole => t = Overwrite(old, 0, a)
  <2> SUFFICES ASSUME goal["decrypt"].whole PROVE t = Overwrite(old, 0, a)
    OBVIOUS
  <2> DEFINE w == IF p < Len(a) THEN p ELSE Len(a)
  <2>1. /\ s = Sealed(a, iv["decrypt"])
        /\ Len(t) = IF Len(old) < w THEN w ELSE Len(old)
        /\ \A i \in 1 .. Len(t) : t[i] = IF i <= w THEN a[i] ELSE old[i]
    BY <1>1 DEF DecryptInv
  <2> HIDE DEF a, s, t, p
  <2>2. Len(s) = Len(a) + BlockSize
    BY <1>2, <2>1, SealedIs
  <2>3. w = Len(a)
    BY <1>2, <1>3, <2>2
  <2> HIDE DEF w
  <2> DEFINE u == Overwrite(old, 0, a)
  <2>4. /\ u \in File
        /\ Len(u) = IF a # <<>> /\ Len(old) < 0 + Len(a) THEN 0 + Len(a) ELSE Len(old)
        /\ \A i \in 1 .. Len(u) : u[i] = IF i \in 0 + 1 .. 0 + Len(a) THEN a[i - 0] ELSE old[i]
    BY <1>2, OverwriteIs
  <2> HIDE DEF u
  <2>5. a # <<>> <=> Len(a) > 0
    BY <1>2, EmptySeq DEF File
  <2>6. Len(u) = Len(t)
    BY <1>2, <2>1, <2>3, <2>4, <2>5
  <2>7. \A i \in 1 .. Len(t) : t[i] = u[i]
    BY <1>2, <2>1, <2>3, <2>4, <2>6
  <2>8. t = u
    BY <1>2, <2>4, <2>6, <2>7, SameFile
  <2> QED BY <2>8 DEF u
<1>5. TypeOK'
  BY <1>1 DEF TypeOK, Jobs
<1>6. EncryptInv' /\ UploadedSealed'
  <2>1. /\ source' = [source EXCEPT !["decrypt"] = source["decrypt"]]
        /\ target' = [target EXCEPT !["decrypt"] = target["decrypt"]]
        /\ pos' = [pos EXCEPT !["decrypt"] = pos["decrypt"]]
        /\ iv' = [iv EXCEPT !["decrypt"] = iv["decrypt"]]
        /\ goal' = [goal EXCEPT !["decrypt"] = goal["decrypt"]]
    BY <1>1 DEF TypeOK
  <2> QED BY <1>1, <2>1, DecryptSide
<1>7. DecryptInv'
  <2>1. pc'["decrypt"] = "remove" /\ goal'["decrypt"] \in store'
    BY <1>1 DEF TypeOK, Jobs, DecryptInv
  <2> QED BY <2>1 DEF DecryptInv
<1>8. RestoredExact'
  <2>1. Overwrite(old, 0, goal["decrypt"].of)' = Overwrite(old, 0, goal["decrypt"].of)
    BY <1>1 DEF Overwrite
  <2> QED BY <1>1, <1>4, <2>1 DEF RestoredExact, Archive
<1> QED BY <1>5, <1>6, <1>7, <1>8

LEMMA RemoveInputInv ==
  ASSUME NEW j \in Jobs PROVE EncryptionInv /\ RemoveInput(j) => EncryptionInv'
<1> SUFFICES ASSUME EncryptionInv, RemoveInput(j) PROVE EncryptionInv'
  OBVIOUS
<1> USE DEF EncryptionInv
<1>1. /\ pc[j] = "remove" /\ pc' = [pc EXCEPT ![j] = "done"]
      /\ UNCHANGED <<target, pos, iv, msgLen, made, store, goal, old>>
  BY DEF RemoveInput, Go
<1>2. PICK f \in File : source' = [source EXCEPT ![j] = f]
  <2>1. <<>> \in File /\ source[j] \in File /\ source = [source EXCEPT ![j] = source[j]]
    BY NoFile DEF TypeOK
  <2> QED BY <2>1, Zenon DEF RemoveInput
<1>3. TypeOK'
  BY <1>1, <1>2 DEF TypeOK, Jobs
<1>4. /\ target' = [target EXCEPT ![j] = target[j]] /\ pos' = [pos EXCEPT ![j] = pos[j]]
      /\ iv' = [iv EXCEPT ![j] = iv[j]] /\ goal' = [goal EXCEPT ![j] = goal[j]]
      /\ made' \in Nat /\ made <= made'
  BY <1>1, EncryptionAssumption DEF TypeOK
<1>5. CASE j = "encrypt"
  <2>1. DecryptInv' /\ RestoredExact' /\ UploadedSealed'
    BY <1>1, <1>2, <1>4, <1>5, EncryptSide
  <2>2. /\ pc'["encrypt"] = "done" /\ pc["encrypt"] = "remove"
        /\ Sealed(Archive("encrypt"), iv["encrypt"])' = Sealed(Archive("encrypt"), iv["encrypt"])
    BY <1>1, <1>5 DEF TypeOK, Jobs, Sealed, Archive
  <2>3. EncryptInv'
    BY <1>1, <2>2 DEF EncryptInv, Archive
  <2> QED BY <1>3, <2>1, <2>3
<1>6. CASE j = "decrypt"
  <2>1. EncryptInv' /\ UploadedSealed'
    BY <1>1, <1>2, <1>4, <1>6, DecryptSide
  <2>2. /\ pc'["decrypt"] = "done" /\ pc["decrypt"] = "remove"
        /\ Overwrite(old, 0, goal["decrypt"].of)' = Overwrite(old, 0, goal["decrypt"].of)
    BY <1>1, <1>6 DEF TypeOK, Jobs, Overwrite
  <2>3. DecryptInv' /\ RestoredExact'
    BY <1>1, <2>2 DEF DecryptInv, RestoredExact
  <2> QED BY <1>3, <2>1, <2>3
<1> QED BY <1>5, <1>6 DEF Jobs

\* The steps that end a job, whatever it was at.
LEMMA EndInv ==
  ASSUME EncryptionInv, NEW j \in Jobs, pc' = [pc EXCEPT ![j] = "idle"],
         UNCHANGED <<source, target, pos, iv, msgLen, made, store, goal, old>>
  PROVE  EncryptionInv'
<1> USE DEF EncryptionInv
<1>1. TypeOK'
  BY DEF TypeOK, Jobs
<1>2. made' \in Nat /\ made <= made'
  BY EncryptionAssumption DEF TypeOK
<1>3. UploadedSealed'
  BY <1>2, StoreFrame
<1>4. EncryptInv'
  <2>1. pc'["encrypt"] \in {"idle", pc["encrypt"]}
    BY DEF TypeOK, Jobs
  <2>2. CASE pc'["encrypt"] = "idle"
    BY <2>2 DEF EncryptInv
  <2>3. CASE pc'["encrypt"] = pc["encrypt"]
    BY <2>3, <1>2, EncryptFrame
  <2> QED BY <2>1, <2>2, <2>3
<1>5. DecryptInv' /\ RestoredExact'
  <2>1. pc'["decrypt"] \in {"idle", pc["decrypt"]}
    BY DEF TypeOK, Jobs
  <2>2. CASE pc'["decrypt"] = "idle"
    BY <2>2 DEF DecryptInv, RestoredExact
  <2>3. CASE pc'["decrypt"] = pc["decrypt"]
    BY <2>3, DecryptFrame
  <2> QED BY <2>1, <2>2, <2>3
<1> QED BY <1>1, <1>3, <1>4, <1>5

LEMMA StutterInv == EncryptionInv /\ UNCHANGED vars => EncryptionInv'
<1> SUFFICES ASSUME EncryptionInv, UNCHANGED vars PROVE EncryptionInv'
  OBVIOUS
<1> USE DEF EncryptionInv, vars, files
<1>1. TypeOK'
  BY DEF TypeOK
<1>2. made' \in Nat /\ made <= made'
  BY EncryptionAssumption DEF TypeOK
<1> QED BY <1>1, <1>2, EncryptFrame, DecryptFrame, StoreFrame

LEMMA NextInv == EncryptionInv /\ [Next]_vars => EncryptionInv'
<1> SUFFICES ASSUME EncryptionInv, [Next]_vars PROVE EncryptionInv'
  OBVIOUS
<1>1. CASE Compress
  BY <1>1, CompressInv
<1>2. CASE OpenEncrypt
  BY <1>2, OpenEncryptInv
<1>3. CASE EncryptBuffer
  BY <1>3, EncryptBufferInv
<1>4. CASE AppendIV
  BY <1>4, AppendIVInv
<1>5. CASE Upload
  BY <1>5, UploadInv
<1>6. CASE Download
  BY <1>6, DownloadInv
<1>7. CASE OpenDecrypt
  BY <1>7, OpenDecryptInv
<1>8. CASE OpenFails
  BY <1>8, EndInv DEF OpenFails, Go, Jobs, files
<1>9. CASE DecryptBuffer
  BY <1>9, DecryptBufferInv
<1>10. CASE Decrypted
  BY <1>10, DecryptedInv
<1>11. CASE Decompress
  BY <1>11, EndInv DEF Decompress, Go, Jobs, files
<1>12. ASSUME NEW j \in Jobs, RemoveInput(j) PROVE EncryptionInv'
  BY <1>12, RemoveInputInv
<1>13. ASSUME NEW j \in Jobs, BreakOff(j) PROVE EncryptionInv'
  BY <1>13, EndInv DEF BreakOff, files
<1>14. CASE UNCHANGED vars
  BY <1>14, StutterInv
<1> QED BY <1>1, <1>2, <1>3, <1>4, <1>5, <1>6, <1>7, <1>8, <1>9, <1>10, <1>11, <1>12,
           <1>13, <1>14 DEF Next

LEMMA Invariant == Spec => []EncryptionInv
BY InitInv, NextInv, PTL DEF Spec

-----------------------------------------------------------------------------

\* Every variable has its type; msgLen of decryptFile never gets below zero.
THEOREM EncryptionTyped == Spec => []TypeOK
<1>1. EncryptionInv => TypeOK
  BY DEF EncryptionInv
<1> QED BY <1>1, Invariant, PTL

\* What encryptFile makes of an archive of any length, however Read cuts it up and
\* whatever the output file held before, is the archive sealed with a new vector.
THEOREM SealsWhole == Spec => []UploadedSealed
<1>1. EncryptionInv => UploadedSealed
  BY DEF EncryptionInv
<1> QED BY <1>1, Invariant, PTL

\* What decryptFile makes of it, however Read cuts it up, is the archive again, and
\* behind it the rest of what the output file held.
THEOREM OpensAgain == Spec => []RestoredExact
<1>1. EncryptionInv => RestoredExact
  BY DEF EncryptionInv
<1> QED BY <1>1, Invariant, PTL
=============================================================================
