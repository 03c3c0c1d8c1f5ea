----------------------------- MODULE Encryption -----------------------------
(***************************************************************************)
(* The streams of the Encrypter (cmd/internal/encryption), buffer by       *)
(* buffer, in the two directories they work in: CreateBackup seals the     *)
(* archive in BackupDir, Restore opens the file it has downloaded to       *)
(* DownloadDir.  Both may run at the same time, break off anywhere and     *)
(* begin again on what is left there.  Both write an output file that is   *)
(* opened without being truncated.                                         *)
(*                                                                         *)
(* A byte is taken for what it is a byte of and its place there, together  *)
(* with the bytes of key streams it is XORed with; a key stream is named   *)
(* by the initialization vector it comes from.                             *)
(***************************************************************************)
EXTENDS Integers, Sequences

CONSTANTS
  BlockSize,     \* the length of an initialization vector
  BufLen,        \* the length of the buffer
  MaxLen,        \* bound on the length of an archive
  MaxBackups     \* bound on the backups

ASSUME EncryptionAssumption ==
  /\ BlockSize \in Nat \ {0} /\ BufLen \in Nat \ {0}
  /\ MaxLen \in Nat /\ MaxBackups \in Nat

VARIABLES
  pc,            \* per job: the statement it is at
  source,        \* per job: the file it reads; an absent one is empty
  target,        \* per job: the file it writes
  pos,           \* per job: how much of its source it has read
  iv,            \* per job: the key stream
  msgLen,        \* decryptFile: how much is left to write
  made,          \* the backups so far
  store,         \* what was uploaded
  goal,          \* history: per job, the version it makes or opens
  old            \* history: the target as Decrypt finds it

files == <<source, target>>
vars == <<pc, files, pos, iv, msgLen, made, store, goal, old>>

Jobs == {"encrypt", "decrypt"}

Kinds == {"archive", "iv"}
Byte == [of: Kinds, no: Nat, at: Nat, mask: SUBSET (Nat \X Nat)]
File == Seq(Byte)

\* of: the archive it was made of; whole: all of the sealed file is there.
Version == [of: File, content: File, whole: BOOLEAN]
NoVersion == [of |-> <<>>, content |-> <<>>, whole |-> FALSE]

Fresh(kind, n, len) == [i \in 1 .. len |-> [of |-> kind, no |-> n, at |-> i, mask |-> {}]]
IV(n) == Fresh("iv", n, BlockSize)

\* XORKeyStream on the byte at place i of the stream.
XOR(b, n, i) ==
  [b EXCEPT !.mask = IF <<n, i>> \in @ THEN @ \ {<<n, i>>} ELSE @ \cup {<<n, i>>}]

\* The file f after s was written at an offset.
Overwrite(f, at, s) ==
  [i \in 1 .. (IF s # <<>> /\ Len(f) < at + Len(s) THEN at + Len(s) ELSE Len(f)) |->
     IF i \in at + 1 .. at + Len(s) THEN s[i - at] ELSE f[i]]

\* The stream of a block; 0 is the stream of one that is no vector.
StreamOf(block) ==
  IF \E n \in 1 .. made : block = IV(n)
  THEN CHOOSE n \in 1 .. made : block = IV(n)
  ELSE 0

TypeOK ==
  /\ pc \in [Jobs -> {"idle", "open", "stream", "remove", "done"}]
  /\ source \in [Jobs -> File] /\ target \in [Jobs -> File]
  /\ pos \in [Jobs -> Nat]
  /\ iv \in [Jobs -> 0 .. MaxBackups]
  /\ msgLen \in Nat
  /\ made \in 0 .. MaxBackups
  /\ store \subseteq Version
  /\ goal \in [Jobs -> Version] /\ old \in File
  /\ \A j \in Jobs : pc[j] \in {"open", "stream"} => pos[j] =< Len(source[j])

Init ==
  /\ pc = [j \in Jobs |-> "idle"]
  /\ source = [j \in Jobs |-> <<>>] /\ target = [j \in Jobs |-> <<>>]
  /\ pos = [j \in Jobs |-> 0]
  /\ iv = [j \in Jobs |-> 0]
  /\ msgLen = 0
  /\ made = 0
  /\ store = {}
  /\ goal = [j \in Jobs |-> NoVersion] /\ old = <<>>

Go(j, a, b) ==
  /\ pc[j] = a
  /\ pc' = [pc EXCEPT ![j] = b]

\* The next buffer: Read returns any number of bytes up to its length.
Buffers(j) == 1 .. (IF BufLen < Len(source[j]) - pos[j] THEN BufLen
                    ELSE Len(source[j]) - pos[j])

\* The first n bytes of it, with the key stream from its k-th byte on.
Crypted(j, n, k) == [i \in 1 .. n |-> XOR(source[j][pos[j] + i], iv[j], k + i)]

Write(j, s) == target' = [target EXCEPT ![j] = Overwrite(@, pos[j], s)]

-----------------------------------------------------------------------------
(* CreateBackup, from the dump to the upload.                              *)

\* The directory is not emptied before the dump.
CompressUncleaned ==
  /\ Go("encrypt", "idle", "open")
  /\ made < MaxBackups /\ made' = made + 1
  /\ \E n \in 1 .. MaxLen :
       source' = [source EXCEPT !["encrypt"] = Fresh("archive", made', n)]
  /\ goal' = [goal EXCEPT !["encrypt"] = [NoVersion EXCEPT !.of = source'["encrypt"]]]
  /\ pos' = [pos EXCEPT !["encrypt"] = 0]
  /\ UNCHANGED <<target, iv, msgLen, store, old>>

\* The archive of an emptied directory; or, where Backup does nothing because
\* this is not the master, of one that may hold the last sealed file as well.
Compress ==
  /\ Go("encrypt", "idle", "open")
  /\ made < MaxBackups /\ made' = made + 1
  /\ \E n \in 1 .. MaxLen :
       /\ source' = [source EXCEPT !["encrypt"] = Fresh("archive", made', n)]
       /\ \/ target' = [target EXCEPT !["encrypt"] = <<>>]
          \/ Len(target["encrypt"]) < n /\ UNCHANGED target
  /\ goal' = [goal EXCEPT !["encrypt"] = [NoVersion EXCEPT !.of = source'["encrypt"]]]
  /\ pos' = [pos EXCEPT !["encrypt"] = 0]
  /\ UNCHANGED <<iv, msgLen, store, old>>

\* Encrypt: a new vector, and the output file as it is.
OpenEncrypt ==
  /\ Go("encrypt", "open", "stream")
  /\ iv' = [iv EXCEPT !["encrypt"] = made]
  /\ UNCHANGED <<files, pos, msgLen, made, store, goal, old>>

\* One turn of the loop of encryptFile.
EncryptBuffer ==
  /\ Go("encrypt", "stream", "stream")
  /\ \E n \in Buffers("encrypt") :
       /\ Write("encrypt", Crypted("encrypt", n, pos["encrypt"]))
       /\ pos' = [pos EXCEPT !["encrypt"] = @ + n]
  /\ UNCHANGED <<source, iv, msgLen, made, store, goal, old>>

\* Its end.
AppendIV ==
  /\ Go("encrypt", "stream", "remove")
  /\ Buffers("encrypt") = {}
  /\ Write("encrypt", IV(iv["encrypt"]))
  /\ UNCHANGED <<source, pos, iv, msgLen, made, store, goal, old>>

\* UploadBackup; the local provider may leave a part of the file.
Upload ==
  /\ Go("encrypt", "done", "idle")
  /\ \E k \in 0 .. Len(target["encrypt"]) :
       store' = store \cup {[of |-> goal["encrypt"].of,
                             content |-> SubSeq(target["encrypt"], 1, k),
                             whole |-> k = Len(target["encrypt"])]}
  /\ UNCHANGED <<files, pos, iv, msgLen, made, goal, old>>

-----------------------------------------------------------------------------
(* Restore, from the download to Decompress.                               *)

\* Into a new file, whatever there was.
Download ==
  /\ Go("decrypt", "idle", "open")
  /\ \E v \in store :
       /\ goal' = [goal EXCEPT !["decrypt"] = v]
       /\ source' = [source EXCEPT !["decrypt"] = v.content]
  /\ pos' = [pos EXCEPT !["decrypt"] = 0]
  /\ UNCHANGED <<target, iv, msgLen, made, store, old>>

\* Decrypt: readIVAndMessageLength, and the output file as it is.
OpenDecrypt ==
  LET f == source["decrypt"] IN
    /\ Go("decrypt", "open", "stream")
    /\ Len(f) >= BlockSize
    /\ iv' = [iv EXCEPT !["decrypt"] =
                StreamOf([i \in 1 .. BlockSize |-> f[Len(f) - BlockSize + i]])]
    /\ msgLen' = Len(f) - BlockSize
    /\ old' = target["decrypt"]
    /\ UNCHANGED <<files, pos, made, store, goal>>

\* The file is shorter than a vector.
OpenFails ==
  /\ Go("decrypt", "open", "idle")
  /\ Len(source["decrypt"]) < BlockSize
  /\ UNCHANGED <<files, pos, iv, msgLen, made, store, goal, old>>

\* All that is read is written.
DecryptUnclamped ==
  /\ Go("decrypt", "stream", "stream")
  /\ \E n \in Buffers("decrypt") :
       /\ Write("decrypt", Crypted("decrypt", n, pos["decrypt"]))
       /\ pos' = [pos EXCEPT !["decrypt"] = @ + n]
  /\ UNCHANGED <<source, iv, msgLen, made, store, goal, old>>

\* Read beyond the end of the message leaves less than nothing to write.
DecryptBelowZero ==
  /\ Go("decrypt", "stream", "stream")
  /\ \E n \in Buffers("decrypt") :
       /\ Write("decrypt", Crypted("decrypt", n, pos["decrypt"]))
       /\ pos' = [pos EXCEPT !["decrypt"] = @ + n]
       /\ msgLen' = msgLen - n
  /\ UNCHANGED <<source, iv, made, store, goal, old>>

\* One turn of the loop of decryptFile: what is read beyond the message is not
\* written.
DecryptBuffer ==
  /\ Go("decrypt", "stream", "stream")
  /\ \E n \in Buffers("decrypt") :
       LET m == IF n > msgLen THEN msgLen ELSE n IN
         /\ Write("decrypt", Crypted("decrypt", m, pos["decrypt"]))
         /\ pos' = [pos EXCEPT !["decrypt"] = @ + n]
         /\ msgLen' = msgLen - m
  /\ UNCHANGED <<source, iv, made, store, goal, old>>

\* Its end.
Decrypted ==
  /\ Go("decrypt", "stream", "remove")
  /\ Buffers("decrypt") = {}
  /\ UNCHANGED <<files, pos, iv, msgLen, made, store, goal, old>>

\* It reads the output, however it was written.
Decompress ==
  /\ Go("decrypt", "done", "idle")
  /\ UNCHANGED <<files, pos, iv, msgLen, made, store, goal, old>>

-----------------------------------------------------------------------------
(* Both.                                                                   *)

\* The input is removed; that it cannot be is logged.
RemoveInput(j) ==
  /\ Go(j, "remove", "done")
  /\ \/ source' = [source EXCEPT ![j] = <<>>]
     \/ UNCHANGED source
  /\ UNCHANGED <<target, pos, iv, msgLen, made, store, goal, old>>

\* An error, or the end of the process. The files stay as they are.
BreakOff(j) ==
  /\ pc[j] # "idle"
  /\ pc' = [pc EXCEPT ![j] = "idle"]
  /\ UNCHANGED <<files, pos, iv, msgLen, made, store, goal, old>>

Next ==
  \/ Compress \/ OpenEncrypt \/ EncryptBuffer \/ AppendIV \/ Upload
  \/ Download \/ OpenDecrypt \/ OpenFails \/ DecryptBuffer \/ Decrypted \/ Decompress
  \/ \E j \in Jobs : RemoveInput(j) \/ BreakOff(j)

Spec == Init /\ [][Next]_vars

-----------------------------------------------------------------------------
(* Properties.                                                             *)

\* The sealed file of an archive, by definition: every byte with its byte of the
\* key stream, then the vector.
Sealed(a, n) ==
  [i \in 1 .. Len(a) + BlockSize |->
     IF i =< Len(a) THEN XOR(a[i], n, i) ELSE IV(n)[i - Len(a)]]

\* What is uploaded is the archive, sealed with a vector, and nothing else: no
\* matter how Read cuts the archive up, and what broken attempts have left.
UploadedSealed ==
  \A v \in store : v.whole => \E n \in 1 .. made : v.content = Sealed(v.of, n)

\* Decompress gets the archive the version was made of. What may follow behind its
\* end is the rest of a longer file that an earlier restore has left there.
RestoredExact ==
  pc["decrypt"] \in {"remove", "done"} /\ goal["decrypt"].whole
    => target["decrypt"] = Overwrite(old, 0, goal["decrypt"].of)
=============================================================================
