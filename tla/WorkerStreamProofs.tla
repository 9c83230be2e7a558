-------------------------- MODULE WorkerStreamProofs --------------------------
(***************************************************************************)
(* Theorems of WorkerSession about the streams: what ReadNmidRes takes off *)
(* the one from the server, what becomes of the jobs it carries, and the   *)
(* replies, announcements and frames that the one to the server is made of.*)
(***************************************************************************)
EXTENDS WorkerSessionProofs

USE DEF worker, registry

-----------------------------------------------------------------------------
(* The invariants.                                                         *)

\* The bytes that the worker has not read: whole frames, except for the first,
\* of which the head may have been read; those of jobs in the order of jobs.
Stream == inbox \o net
Total(j, js) == IF j = NoJob THEN MinDataSize ELSE MinDataSize + js[j].size
Before(b, c) ==
    b[1] = NoJob \/ c[1] = NoJob \/ b[1] < c[1] \/ (b[1] = c[1] /\ b[2] < c[2])
WellFramed(s, js) ==
    /\ \A k \in 1 .. Len(s) : s[k][1] \in 0 .. Len(js) /\ s[k][2] \in 1 .. Total(s[k][1], js)
    /\ \A k \in 1 .. Len(s) : \A d \in 0 .. Total(s[k][1], js) - s[k][2] :
           k + d <= Len(s) /\ s[k + d][1] = s[k][1] /\ s[k + d][2] = s[k][2] + d
    /\ \A k \in 1 .. Len(s) - 1 : s[k][2] = Total(s[k][1], js) => s[k + 1][2] = 1
    /\ \A k, l \in 1 .. Len(s) : k < l => Before(s[k], s[l])
Framed ==
    /\ WellFramed(Stream, jobs)
    /\ ~split /\ inbox # <<>> => EndsPart(inbox[Len(inbox)])

\* Where the read/write thread is in the stream. Short is a body that ends
\* before a header would: ReadNmidRes waits for more than MinDataSize bytes.
HeadRead == res.hread /\ res.type = "job"
Short == rw = "read" /\ HeadRead /\ res.size < MinDataSize
AtStart == Stream # <<>> => Stream[1][2] = 1
AtBody ==
    /\ Stream # <<>> /\ Stream[1][1] # NoJob /\ Stream[1][2] = MinDataSize + 1
    /\ res.size = jobs[Stream[1][1]].size /\ res.size > MinDataSize
Aligned ==
    /\ rw \in {"none", "poll", "head", "body"} => ~res.hread
    /\ ~MisreadCause =>
        /\ rw \notin {"read", "gone"} => AtStart
        /\ rw = "read" => Short \/ (IF HeadRead THEN AtBody
                                               ELSE AtStart /\ res.size = MinDataSize)
        /\ InWorkerDo => res.type = "job" /\ res.job # NoJob
        /\ rw = "gone" => closed
        /\ refused => Disturbed

-----------------------------------------------------------------------------
(* The stream from the server.                                             *)

\* What an element of a stream is.
LEMMA ByteParts ==
    ASSUME SessionAssumption, NEW s \in Seq(Byte), NEW k \in 1 .. Len(s)
    PROVE  s[k] \in Byte /\ s[k][1] \in Nat /\ s[k][2] \in Nat /\ s[k][2] >= 1
<1>1. s[k] \in Byte
  BY ElementOfSeq
<1>2. s[k][1] \in 0 .. MaxJobs /\ s[k][2] \in Nat \ {0}
  BY <1>1 DEF Byte
<1> QED
  BY <1>1, <1>2 DEF SessionAssumption

\* The size of a frame.
LEMMA TotalSize ==
    ASSUME SessionAssumption, NEW js \in Seq(Job), NEW j \in 0 .. Len(js)
    PROVE  /\ Total(j, js) \in Nat /\ Total(j, js) >= MinDataSize
           /\ j = NoJob => Total(j, js) = MinDataSize
           /\ j # NoJob => /\ js[j].size \in BodySizes /\ js[j].size \in Nat /\ js[j].size >= 1
                           /\ Total(j, js) = MinDataSize + js[j].size
                           /\ Total(j, js) > MinDataSize
<1>1. MinDataSize \in Nat /\ Len(js) \in Nat
  BY DEF SessionAssumption
<1>2. CASE j = NoJob
  BY <1>1, <1>2 DEF Total
<1>3. CASE j # NoJob
  <2>1. j \in 1 .. Len(js)
    BY <1>1, <1>3 DEF NoJob
  <2>2. js[j] \in Job
    BY <2>1, ElementOfSeq
  <2>3. js[j].size \in BodySizes
    BY <2>2 DEF Job
  <2>4. js[j].size \in Nat /\ js[j].size # 0
    BY <2>3 DEF SessionAssumption
  <2>5. Total(j, js) = MinDataSize + js[j].size
    BY <1>3 DEF Total
  <2> QED
    BY <1>1, <1>3, <2>3, <2>4, <2>5
<1> QED
  BY <1>2, <1>3

\* What is left after reading is still made of frames.
LEMMA SuffixFramed ==
    ASSUME SessionAssumption, NEW s \in Seq(Byte), NEW js, NEW c \in 0 .. Len(s), NEW t \in Seq(Byte),
           Len(t) = Len(s) - c, \A k \in 1 .. Len(s) - c : t[k] = s[c + k], WellFramed(s, js)
    PROVE  WellFramed(t, js)
<1>1. Len(s) \in Nat /\ Len(t) \in Nat /\ c \in Nat /\ c <= Len(s)
  OBVIOUS
<1>2. \A k \in 1 .. Len(t) : c + k \in 1 .. Len(s) /\ t[k] = s[c + k]
  BY <1>1
<1>3. \A k \in 1 .. Len(t) : t[k][1] \in 0 .. Len(js) /\ t[k][2] \in 1 .. Total(t[k][1], js)
  BY <1>2 DEF WellFramed
<1>4. ASSUME NEW k \in 1 .. Len(t), NEW d \in 0 .. Total(t[k][1], js) - t[k][2]
      PROVE  k + d <= Len(t) /\ t[k + d][1] = t[k][1] /\ t[k + d][2] = t[k][2] + d
  <2>1. c + k \in 1 .. Len(s) /\ d \in 0 .. Total(s[c + k][1], js) - s[c + k][2]
    BY <1>2, <1>4
  <2>2. /\ (c + k) + d <= Len(s) /\ s[(c + k) + d][1] = s[c + k][1]
        /\ s[(c + k) + d][2] = s[c + k][2] + d
    BY <2>1 DEF WellFramed
  <2>3. d \in Int /\ d >= 0 /\ k \in Int /\ k >= 1
    OBVIOUS
  <2>4. (c + k) + d = c + (k + d) /\ k + d <= Len(t) /\ k + d \in 1 .. Len(t)
    BY <1>1, <2>2, <2>3
  <2>5. t[k + d] = s[c + (k + d)]
    BY <1>2, <2>4
  <2> QED
    BY <1>2, <2>2, <2>4, <2>5
<1>5. ASSUME NEW k \in 1 .. Len(t) - 1, t[k][2] = Total(t[k][1], js)
      PROVE  t[k + 1][2] = 1
  <2>1. /\ k \in 1 .. Len(t) /\ k + 1 \in 1 .. Len(t)
        /\ c + k \in 1 .. Len(s) - 1 /\ (c + k) + 1 = c + (k + 1)
    BY <1>1
  <2>2. t[k] = s[c + k] /\ t[k + 1] = s[(c + k) + 1]
    BY <1>2, <2>1
  <2> QED
    BY <1>5, <2>1, <2>2 DEF WellFramed
<1>6. ASSUME NEW k \in 1 .. Len(t), NEW l \in 1 .. Len(t), k < l
      PROVE  Before(t[k], t[l])
  <2>1. c + k < c + l
    BY <1>1, <1>6
  <2>2. Before(s[c + k], s[c + l])
    BY <1>2, <2>1 DEF WellFramed
  <2> QED
    BY <1>2, <2>2
<1> QED
  BY <1>3, <1>4, <1>5, <1>6 DEF WellFramed

\* The places in a sequence of n elements with m more at its end.
LEMMA Place ==
    \A n, m \in Nat : \A k \in 1 .. n + m : k \in 1 .. n \/ \E i \in 1 .. m : k = n + i
<1>1. \A n, m \in Nat : \A k \in 1 .. n + m : k \in 1 .. n \/ (k - n \in 1 .. m /\ k = n + (k - n))
  OBVIOUS
<1> QED
  BY <1>1

\* And the places a little further on in it.
LEMMA Places ==
    \A n, m \in Nat :
        /\ \A k \in 1 .. n : k \in 1 .. n + m
        /\ \A k \in 1 .. n : \A d \in Nat : k + d <= n => k + d \in 1 .. n /\ k + d <= n + m
        /\ \A i \in 1 .. m : \A d \in 0 .. m - i :
               i + d \in 1 .. m /\ (n + i) + d = n + (i + d) /\ (n + i) + d <= n + m
        /\ \A k \in 1 .. (n + m) - 1 : k \in 1 .. n + m /\ k + 1 <= n + m
        /\ \A k \in 1 .. n + m : k + 1 <= n => k \in 1 .. n /\ k + 1 \in 1 .. n /\ k \in 1 .. n - 1
  OBVIOUS

\* t is s with m bytes of one frame at its end; js2 is js with jobs at its end.
Extended(s, t, j, m) ==
    /\ Len(t) = Len(s) + m
    /\ \A k \in 1 .. Len(s) : t[k] = s[k]
    /\ \A i \in 1 .. m : t[Len(s) + i][1] = j /\ t[Len(s) + i][2] = i
Longer(js, js2) == Len(js) <= Len(js2) /\ \A i \in 1 .. Len(js) : js2[i] = js[i]

\* A stream of frames with another frame at its end is one.
LEMMA FrameAppended ==
    ASSUME SessionAssumption, NEW s \in Seq(Byte), NEW t \in Seq(Byte),
           NEW js \in Seq(Job), NEW js2 \in Seq(Job), Longer(js, js2),
           NEW j \in 0 .. Len(js2), j = NoJob \/ j > Len(js),
           Extended(s, t, j, Total(j, js2)), WellFramed(s, js)
    PROVE  WellFramed(t, js2)
<1> DEFINE l0 == Len(s)
           m0 == Total(j, js2)
<1>a. l0 \in Nat /\ m0 \in Nat /\ l0 = Len(s)
  BY TotalSize
<1>b. /\ Len(t) = l0 + m0 /\ \A k \in 1 .. l0 : t[k] = s[k]
      /\ \A i \in 1 .. m0 : t[l0 + i][1] = j /\ t[l0 + i][2] = i
  BY DEF Extended
<1>c. Len(js) <= Len(js2) /\ \A i \in 1 .. Len(js) : js2[i] = js[i]
  BY DEF Longer
<1> HIDE DEF l0
<1> SUFFICES ASSUME NEW n \in Nat, n = Len(s), NEW m \in Nat, m = Total(j, js2),
                      Len(js) <= Len(js2), \A i \in 1 .. Len(js) : js2[i] = js[i],
                      Len(t) = n + m,
                      \A k \in 1 .. n : t[k] = s[k],
                      \A i \in 1 .. m : t[n + i][1] = j /\ t[n + i][2] = i
               PROVE  WellFramed(t, js2)
  BY <1>a, <1>b, <1>c
<1>1. Len(js) \in Nat /\ Len(js2) \in Nat
  OBVIOUS
<1>0. j = 0 \/ \A x \in 0 .. Len(js) : x < j
  <2>1. CASE j > Len(js)
    BY <1>1, <2>1
  <2> QED
    BY <2>1 DEF NoJob
<1>2. \A x \in 0 .. Len(js) : x \in 0 .. Len(js2) /\ Total(x, js2) = Total(x, js)
  <2> SUFFICES ASSUME NEW x \in 0 .. Len(js)
               PROVE  x \in 0 .. Len(js2) /\ Total(x, js2) = Total(x, js)
    OBVIOUS
  <2>1. x = 0 \/ x \in 1 .. Len(js)
    BY <1>1
  <2>2. x \in 0 .. Len(js2)
    BY <1>1
  <2> QED
    BY <2>1, <2>2 DEF Total, NoJob
<1>3. ASSUME NEW k \in 1 .. n
      PROVE  /\ t[k] = s[k] /\ t[k][2] \in Nat
             /\ t[k][1] \in 0 .. Len(js) /\ t[k][1] \in 0 .. Len(js2)
             /\ Total(t[k][1], js2) = Total(s[k][1], js) /\ Total(t[k][1], js2) \in Nat
  <2>0. k \in 1 .. n + m
    BY Places
  <2>1. k \in 1 .. Len(t) /\ t[k] = s[k]
    BY <2>0
  <2>2. s[k][1] \in 0 .. Len(js)
    BY DEF WellFramed
  <2>3. t[k][2] \in Nat
    BY <2>1, ByteParts
  <2>4. s[k][1] \in 0 .. Len(js2) /\ Total(s[k][1], js2) = Total(s[k][1], js)
    BY <1>2, <2>2
  <2>5. Total(s[k][1], js2) \in Nat
    BY <2>4, TotalSize
  <2>6. t[k][1] = s[k][1]
    BY <2>1
  <2>7. Total(t[k][1], js2) = Total(s[k][1], js) /\ Total(t[k][1], js2) \in Nat
    BY <2>4, <2>5, <2>6
  <2>8. t[k][1] \in 0 .. Len(js) /\ t[k][1] \in 0 .. Len(js2)
    BY <2>2, <2>4, <2>6
  <2>9. t[k] = s[k] /\ t[k][2] \in Nat
    BY <2>1, <2>3
  <2>10. t[k][1] \in 0 .. Len(js) /\ t[k][1] \in 0 .. Len(js2)
         /\ Total(t[k][1], js2) = Total(s[k][1], js) /\ Total(t[k][1], js2) \in Nat
    BY <2>7, <2>8
  <2> QED
    BY <2>9, <2>10
<1>4. \A k \in 1 .. n + m : k \in 1 .. n \/ \E i \in 1 .. m : k = n + i
  BY Place
<1>11. \A i \in 1 .. m : \A d \in 0 .. m - i :
          i + d \in 1 .. m /\ (n + i) + d = n + (i + d) /\ (n + i) + d <= n + m
  BY Places
<1>5. ASSUME NEW k \in 1 .. n + m
      PROVE  t[k][1] \in 0 .. Len(js2) /\ t[k][2] \in 1 .. Total(t[k][1], js2)
  <2>1. CASE k \in 1 .. n
    <3>1. s[k][2] \in 1 .. Total(s[k][1], js)
      BY <2>1 DEF WellFramed
    <3>2. t[k] = s[k] /\ Total(t[k][1], js2) = Total(s[k][1], js) /\ t[k][1] \in 0 .. Len(js2)
      BY <1>3, <2>1
    <3> QED
      BY <3>1, <3>2
  <2>2. ASSUME NEW i \in 1 .. m, k = n + i
        PROVE  t[k][1] \in 0 .. Len(js2) /\ t[k][2] \in 1 .. Total(t[k][1], js2)
    <3>1. t[k][1] = j /\ t[k][2] = i
      BY <2>2
    <3> QED
      BY <3>1
  <2> QED
    BY <1>4, <2>1, <2>2
<1>6. ASSUME NEW k \in 1 .. n + m, NEW d \in 0 .. Total(t[k][1], js2) - t[k][2]
      PROVE  k + d <= n + m /\ t[k + d][1] = t[k][1] /\ t[k + d][2] = t[k][2] + d
  <2>1. CASE k \in 1 .. n
    <3>1. t[k] = s[k] /\ d \in 0 .. Total(s[k][1], js) - s[k][2]
          /\ t[k][2] \in Nat /\ Total(t[k][1], js2) \in Nat
      BY <1>3, <2>1
    <3>2. k + d <= n /\ s[k + d][1] = s[k][1] /\ s[k + d][2] = s[k][2] + d
      BY <2>1, <3>1 DEF WellFramed
    <3>3. d \in Nat
      BY <1>6, <3>1
    <3>4. k + d \in 1 .. n /\ k + d <= n + m
      BY <2>1, <3>2, <3>3, Places
    <3>5. t[k + d] = s[k + d]
      BY <3>4
    <3> QED
      BY <3>1, <3>2, <3>4, <3>5
  <2>2. ASSUME NEW i \in 1 .. m, k = n + i
        PROVE  k + d <= n + m /\ t[k + d][1] = t[k][1] /\ t[k + d][2] = t[k][2] + d
    <3>1. t[k][1] = j /\ t[k][2] = i
      BY <2>2
    <3>2. d \in 0 .. m - i
      BY <1>6, <3>1
    <3>3. i + d \in 1 .. m /\ (n + i) + d = n + (i + d) /\ (n + i) + d <= n + m
      BY <1>11, <3>2
    <3>4. t[n + (i + d)][1] = j /\ t[n + (i + d)][2] = i + d
      BY <3>3
    <3> QED
      BY <2>2, <3>1, <3>3, <3>4
  <2> QED
    BY <1>4, <2>1, <2>2
<1>7. ASSUME NEW k \in 1 .. n + m, k + 1 <= n + m, t[k][2] = Total(t[k][1], js2)
      PROVE  t[k + 1][2] = 1
  <2>2. CASE k + 1 <= n
    <3>1. k \in 1 .. n /\ k + 1 \in 1 .. n /\ k \in 1 .. n - 1
      BY <2>2, Places
    <3>2. s[k][2] = Total(s[k][1], js) /\ t[k + 1] = s[k + 1]
      BY <1>3, <1>7, <3>1
    <3> QED
      BY <3>1, <3>2 DEF WellFramed
  <2>3. CASE k = n
    <3>1. 1 \in 1 .. m
      BY <1>7, <2>3
    <3> QED
      BY <2>3, <3>1
  <2>4. ASSUME NEW i \in 1 .. m, k = n + i
        PROVE  FALSE
    <3>1. t[k][1] = j /\ t[k][2] = i
      BY <2>4
    <3>2. i = m
      BY <1>7, <3>1
    <3> QED
      BY <1>7, <2>4, <3>2
  <2>5. k + 1 <= n \/ k = n \/ k \notin 1 .. n
    OBVIOUS
  <2> QED
    BY <1>4, <2>2, <2>3, <2>4, <2>5
<1>8. ASSUME NEW k \in 1 .. n + m, NEW l \in 1 .. n + m, k < l
      PROVE  Before(t[k], t[l])
  <2>1. CASE l \in 1 .. n
    <3>1. k \in 1 .. n
      BY <1>8, <2>1
    <3>2. Before(s[k], s[l])
      BY <1>8, <2>1, <3>1 DEF WellFramed
    <3> QED
      BY <2>1, <3>1, <3>2
  <2>2. ASSUME NEW i \in 1 .. m, l = n + i, k \in 1 .. n
        PROVE  Before(t[k], t[l])
    <3>1. t[k][1] \in 0 .. Len(js)
      BY <1>3, <2>2
    <3>2. t[l][1] = j
      BY <2>2
    <3>3. j = 0 \/ t[k][1] < j
      BY <1>0, <3>1
    <3> QED
      BY <3>2, <3>3 DEF Before, NoJob
  <2>3. ASSUME NEW i \in 1 .. m, l = n + i, NEW h \in 1 .. m, k = n + h
        PROVE  Before(t[k], t[l])
    <3>1. t[n + h][1] = j /\ t[n + h][2] = h /\ t[n + i][1] = j /\ t[n + i][2] = i
      OBVIOUS
    <3>2. h < i
      BY <1>8, <2>3
    <3> QED
      BY <2>3, <3>1, <3>2 DEF Before
  <2> QED
    BY <1>4, <2>1, <2>2, <2>3
<1>9. Len(t) = n + m /\ \A k \in 1 .. Len(t) - 1 : k \in 1 .. n + m /\ k + 1 <= n + m
  <2>1. \A k \in 1 .. (n + m) - 1 : k \in 1 .. n + m /\ k + 1 <= n + m
    BY Places
  <2> QED
    BY <2>1
<1>10. \A k \in 1 .. Len(t) - 1 : t[k][2] = Total(t[k][1], js2) => t[k + 1][2] = 1
  BY <1>7, <1>9
<1> QED
  BY <1>5, <1>6, <1>8, <1>9, <1>10 DEF WellFramed

\* What two sequences have when one follows the other.
LEMMA Joined ==
    ASSUME NEW S, NEW s \in Seq(S), NEW t \in Seq(S)
    PROVE  /\ s \o t \in Seq(S) /\ Len(s \o t) = Len(s) + Len(t)
           /\ \A k \in 1 .. Len(s) : (s \o t)[k] = s[k]
           /\ \A i \in 1 .. Len(t) : (s \o t)[Len(s) + i] = t[i]
<1>1. /\ s \o t \in Seq(S) /\ Len(s \o t) = Len(s) + Len(t)
      /\ \A i \in 1 .. Len(s) + Len(t) :
             (s \o t)[i] = IF i <= Len(s) THEN s[i] ELSE t[i - Len(s)]
  BY ConcatProperties
<1>2. Len(s) \in Nat /\ Len(t) \in Nat
  OBVIOUS
<1>3. \A k \in 1 .. Len(s) : k \in 1 .. Len(s) + Len(t) /\ k <= Len(s)
  BY <1>2
<1>4. \A i \in 1 .. Len(t) : /\ Len(s) + i \in 1 .. Len(s) + Len(t) /\ ~(Len(s) + i <= Len(s))
                             /\ (Len(s) + i) - Len(s) = i
  BY <1>2
<1>5. \A k \in 1 .. Len(s) : (s \o t)[k] = s[k]
  BY <1>1, <1>3
<1>6. \A i \in 1 .. Len(t) : (s \o t)[Len(s) + i] = t[i]
  BY <1>1, <1>4
<1> QED
  BY <1>1, <1>5, <1>6

\* Three in a row, whichever two are joined first.
LEMMA Regrouped == \A s, t, u \in Seq(Byte) : (s \o t) \o u = s \o (t \o u)
<1> SUFFICES ASSUME NEW s \in Seq(Byte), NEW t \in Seq(Byte), NEW u \in Seq(Byte)
             PROVE  (s \o t) \o u = s \o (t \o u)
  OBVIOUS
<1> QED
  BY ConcatAssociative

\* The bytes that the worker has not read.
LEMMA StreamElems ==
    ASSUME SessionAssumption, Typed
    PROVE  /\ Stream \in Seq(Byte) /\ Len(Stream) = Len(inbox) + Len(net)
           /\ inbox \in Seq(Byte) /\ Len(inbox) \in Nat /\ net \in Seq(Byte) /\ Len(net) \in Nat
           /\ \A k \in 1 .. Len(inbox) : Stream[k] = inbox[k]
           /\ \A i \in 1 .. Len(net) : Stream[Len(inbox) + i] = net[i]
<1>1. inbox \in Seq(Byte) /\ Len(inbox) \in Nat /\ net \in Seq(Byte) /\ Len(net) \in Nat
  BY Shape
<1> QED
  BY <1>1, Joined DEF Stream

\* Bytes that arrive stay where they are in it.
LEMMA StreamDelivered ==
    ASSUME SessionAssumption, Typed, NEW k \in 1 .. Len(net),
           inbox' = inbox \o SubSeq(net, 1, k), net' = SubSeq(net, k + 1, Len(net))
    PROVE  Stream' = Stream
<1>1. inbox \in Seq(Byte) /\ net \in Seq(Byte) /\ Len(net) \in Nat
  BY Shape
<1>2. k \in 0 .. Len(net) /\ Len(net) \in k .. Len(net)
  BY <1>1
<1>3. \A i \in 1 .. k : net[i] \in Byte
  BY <1>1, <1>2, ElementOfSeq
<1> DEFINE u == SubSeq(net, 1, k)
           v == SubSeq(net, k + 1, Len(net))
<1>4. u \in Seq(Byte)
  BY <1>2, <1>3, SubSeqProperties
<1>5. v \in Seq(Byte)
  BY <1>1, <1>2, Rest
<1>6. u \o v = net
  <2>1. k \in 1 - 1 .. Len(net) /\ 1 \in 1 .. Len(net) + 1
    BY <1>1, <1>2
  <2>2. u \o v = SubSeq(net, 1, Len(net))
    BY <1>1, <1>2, <2>1, ConcatAdjacentSubSeq
  <2> QED
    BY <1>1, <2>2, SubSeqFull
<1>7. Stream' = (inbox \o u) \o v
  BY DEF Stream
<1> HIDE DEF u, v
<1>8. (inbox \o u) \o v = inbox \o (u \o v)
  <2>1. inbox \in Seq(Byte)
    BY <1>1
  <2> QED
    BY <1>4, <1>5, <2>1, Regrouped
<1> QED
  BY <1>6, <1>7, <1>8 DEF Stream

\* Bytes that are sent are added at its end.
LEMMA StreamSent ==
    ASSUME SessionAssumption, Typed, NEW w \in Seq(Byte), net' = net \o w, inbox' = inbox
    PROVE  /\ Stream' \in Seq(Byte) /\ Len(Stream') = Len(Stream) + Len(w)
           /\ \A k \in 1 .. Len(Stream) : Stream'[k] = Stream[k]
           /\ \A i \in 1 .. Len(w) : Stream'[Len(Stream) + i] = w[i]
<1>1. inbox \in Seq(Byte) /\ net \in Seq(Byte) /\ w \in Seq(Byte)
  BY Shape
<1>2. Stream' = inbox \o (net \o w)
  BY DEF Stream
<1>5. (inbox \o net) \o w = inbox \o (net \o w)
  <2>1. inbox \in Seq(Byte)
    BY <1>1
  <2>2. net \in Seq(Byte)
    BY <1>1
  <2>3. \A t, u \in Seq(Byte) : (inbox \o t) \o u = inbox \o (t \o u)
    BY <2>1, Regrouped
  <2> QED
    BY <2>2, <2>3
<1>3. Stream' = Stream \o w
  BY <1>2, <1>5 DEF Stream
<1>4. Stream \in Seq(Byte)
  BY StreamElems
<1> QED
  BY <1>3, <1>4, Joined

\* A read takes bytes off its front.
LEMMA StreamRead ==
    ASSUME SessionAssumption, Typed, Reading
    PROVE  /\ Count \in 1 .. Len(Stream) /\ Count \in 0 .. Len(Stream) /\ Stream[1] = inbox[1]
           /\ Stream' \in Seq(Byte) /\ Len(Stream') = Len(Stream) - Count
           /\ \A k \in 1 .. Len(Stream) - Count : Stream'[k] = Stream[Count + k]
<1>1. /\ Count \in 1 .. Len(inbox) /\ inbox \in Seq(Byte) /\ inbox' \in Seq(Byte)
      /\ Len(inbox') = Len(inbox) - Count
      /\ \A k \in 1 .. Len(inbox) - Count : inbox'[k] = inbox[Count + k]
  BY ReadLeaves
<1>2. /\ Stream \in Seq(Byte) /\ Len(Stream) = Len(inbox) + Len(net)
      /\ inbox \in Seq(Byte) /\ Len(inbox) \in Nat /\ net \in Seq(Byte) /\ Len(net) \in Nat
      /\ \A k \in 1 .. Len(inbox) : Stream[k] = inbox[k]
      /\ \A i \in 1 .. Len(net) : Stream[Len(inbox) + i] = net[i]
  BY StreamElems
<1>3. Stream' = inbox' \o net
  BY DEF Reading, server, Stream
<1>4. /\ Stream' \in Seq(Byte) /\ Len(Stream') = Len(inbox') + Len(net)
      /\ \A k \in 1 .. Len(inbox') : Stream'[k] = inbox'[k]
      /\ \A i \in 1 .. Len(net) : Stream'[Len(inbox') + i] = net[i]
  <2>1. inbox' \in Seq(Byte) /\ net \in Seq(Byte)
    BY <1>1, <1>2
  <2> QED
    BY <1>3, <2>1, Joined
<1>5. Count \in 1 .. Len(Stream) /\ Count \in 0 .. Len(Stream) /\ Len(Stream') = Len(Stream) - Count
  BY <1>1, <1>2, <1>4
<1>6. ASSUME NEW k \in 1 .. Len(Stream) - Count
      PROVE  Stream'[k] = Stream[Count + k]
  <2>1. CASE k <= Len(inbox) - Count
    <3>1. k \in 1 .. Len(inbox) - Count /\ k \in 1 .. Len(inbox') /\ Count + k \in 1 .. Len(inbox)
      BY <1>1, <1>2, <2>1
    <3> QED
      BY <1>1, <1>2, <1>4, <3>1
  <2>2. CASE ~(k <= Len(inbox) - Count)
    <3> DEFINE i == k - (Len(inbox) - Count)
    <3>1. i \in 1 .. Len(net) /\ k = Len(inbox') + i /\ Count + k = Len(inbox) + i
      BY <1>1, <1>2, <2>2
    <3> HIDE DEF i
    <3> QED
      BY <1>2, <1>4, <3>1
  <2> QED
    BY <2>1, <2>2
<1>7. Stream[1] = inbox[1]
  BY <1>1, <1>2
<1> QED
  BY <1>4, <1>5, <1>6, <1>7

\* The stream of a new connection.
LEMMA FramedInit == SessionAssumption /\ Init => Framed
<1> SUFFICES ASSUME SessionAssumption, Init
             PROVE  Framed
  OBVIOUS
<1>1. inbox = <<>> /\ net = <<>>
  BY DEF Init
<1>2. Stream = <<>> /\ Len(<<>>) = 0
  BY <1>1 DEF Stream
<1>3. WellFramed(<<>>, jobs)
  BY <1>2 DEF WellFramed
<1> QED
  BY <1>1, <1>2, <1>3 DEF Framed

\* A frame that the server sends is at the end of the stream.
LEMMA FrameSent ==
    ASSUME SessionAssumption, Typed, NEW j \in 0 .. MaxJobs, NEW n \in Nat,
           net' = net \o Frame(j, n), inbox' = inbox
    PROVE  Extended(Stream, Stream', j, MinDataSize + n) /\ Stream' \in Seq(Byte)
<1> DEFINE w == Frame(j, n)
           m == MinDataSize + n
<1>1. /\ w \in Seq(Byte) /\ Len(w) = m
      /\ \A i \in 1 .. m : w[i] = <<j, i>>
  BY FrameBytes
<1>2. m \in Nat
  BY DEF SessionAssumption
<1>3. net' = net \o w
  OBVIOUS
<1> HIDE DEF w, m
<1>4. /\ Stream' \in Seq(Byte) /\ Len(Stream') = Len(Stream) + Len(w)
      /\ \A k \in 1 .. Len(Stream) : Stream'[k] = Stream[k]
      /\ \A i \in 1 .. Len(w) : Stream'[Len(Stream) + i] = w[i]
  BY <1>1, <1>3, StreamSent
<1>5. Len(Stream') = Len(Stream) + m
  BY <1>1, <1>4
<1>10. \A i \in 1 .. m : Stream'[Len(Stream) + i][1] = j /\ Stream'[Len(Stream) + i][2] = i
  <2> SUFFICES ASSUME NEW i \in 1 .. m
               PROVE  Stream'[Len(Stream) + i][1] = j /\ Stream'[Len(Stream) + i][2] = i
    OBVIOUS
  <2>1. Stream'[Len(Stream) + i] = w[i]
    BY <1>1, <1>4
  <2>2. w[i] = <<j, i>>
    BY <1>1
  <2> QED
    BY <2>1, <2>2
<1> QED
  BY <1>1, <1>4, <1>5, <1>10 DEF Extended, m

\* The stream is still made of frames then.
LEMMA FramedSend ==
    ASSUME SessionAssumption, Typed, Framed, NEW j \in 0 .. MaxJobs, NEW n \in Nat,
           net' = net \o Frame(j, n), inbox' = inbox, split' = split,
           jobs' \in Seq(Job), Len(jobs) <= Len(jobs'), \A i \in 1 .. Len(jobs) : jobs'[i] = jobs[i],
           j \in 0 .. Len(jobs'), j = NoJob \/ j > Len(jobs), Total(j, jobs') = MinDataSize + n
    PROVE  Framed'
<1> DEFINE m == MinDataSize + n
<1>2. m \in Nat
  BY DEF SessionAssumption
<1>4. Extended(Stream, Stream', j, m) /\ Stream' \in Seq(Byte)
  BY FrameSent
<1> HIDE DEF m
<1>11. Stream \in Seq(Byte) /\ Len(Stream) \in Nat
  BY StreamElems
<1>6. jobs \in Seq(Job) /\ Len(jobs) \in Nat
  BY Shape
<1>7. m = Total(j, jobs') /\ WellFramed(Stream, jobs)
  BY DEF m, Framed
<1>12. Extended(Stream, Stream', j, m) /\ Longer(jobs, jobs')
  BY <1>4 DEF Longer
<1>13. Stream' \in Seq(Byte) /\ jobs' \in Seq(Job) /\ j \in 0 .. Len(jobs')
  BY <1>4
<1>8. WellFramed(Stream', jobs')
  BY <1>6, <1>7, <1>11, <1>12, <1>13, FrameAppended
<1>9. ASSUME ~split, inbox # <<>>
      PROVE  EndsPart(inbox[Len(inbox)])'
  <2>1. inbox \in Seq(Byte) /\ Len(inbox) \in 1 .. Len(inbox)
    BY <1>9, Shape, EmptySeq
  <2>2. inbox[Len(inbox)][1] \in 0 .. Len(jobs)
    <3>1. inbox[Len(inbox)][1] \in Nat
      BY <2>1, ByteParts
    <3>2. inbox[Len(inbox)][1] <= Len(jobs)
      BY <2>1 DEF Typed, Ranges
    <3> QED
      BY <1>6, <3>1, <3>2
  <2>3. inbox[Len(inbox)][1] > 0 => inbox[Len(inbox)][1] \in 1 .. Len(jobs)
    BY <1>6, <2>2
  <2>4. EndsPart(inbox[Len(inbox)])
    BY <1>9 DEF Framed
  <2> QED
    BY <2>3, <2>4 DEF EndsPart
<1> QED
  BY <1>8, <1>9 DEF Framed

\* The stream stays made of frames.
LEMMA FramedNext ==
    ASSUME SessionAssumption, Typed, Framed, [Next]_vars
    PROVE  Framed'
<1>0. /\ Stream \in Seq(Byte) /\ Len(Stream) \in Nat /\ inbox \in Seq(Byte) /\ Len(inbox) \in Nat
      /\ Len(jobs) \in 0 .. MaxJobs /\ MaxJobs \in Nat /\ jobs \in Seq(Job)
  <2>1. Stream \in Seq(Byte) /\ Len(Stream) \in Nat /\ inbox \in Seq(Byte) /\ Len(inbox) \in Nat
    BY StreamElems
  <2>2. Len(jobs) \in 0 .. MaxJobs /\ MaxJobs \in Nat /\ jobs \in Seq(Job)
    BY Shape
  <2> QED
    BY <2>1, <2>2
<1>1. ASSUME UNCHANGED <<jobs, inbox, split>>, Stream' = Stream
      PROVE  Framed'
  BY <1>1 DEF Framed, EndsPart
<1>2. ASSUME UNCHANGED <<jobs, inbox, split, net>>
      PROVE  Framed'
  BY <1>1, <1>2 DEF Stream
<1>3. CASE Reading
  <2>1. UNCHANGED <<jobs, split>>
    BY <1>3 DEF Reading, server
  <2>2. /\ Count \in 0 .. Len(Stream) /\ Stream' \in Seq(Byte) /\ Len(Stream') = Len(Stream) - Count
        /\ \A k \in 1 .. Len(Stream) - Count : Stream'[k] = Stream[Count + k]
    BY <1>3, StreamRead
  <2>3. WellFramed(Stream, jobs)
    BY DEF Framed
  <2>4. WellFramed(Stream', jobs)
    BY <1>0, <2>2, <2>3, SuffixFramed
  <2>5. ASSUME ~split, inbox' # <<>>
        PROVE  EndsPart(inbox[Len(inbox)])'
    <3>1. /\ Count \in 1 .. Len(inbox) /\ inbox' \in Seq(Byte) /\ Len(inbox') = Len(inbox) - Count
          /\ \A k \in 1 .. Len(inbox) - Count : inbox'[k] = inbox[Count + k]
      BY <1>3, ReadLeaves
    <3>2. Len(inbox') # 0
      BY <2>5, <3>1, EmptySeq
    <3>3. Len(inbox') \in 1 .. Len(inbox) - Count /\ Count + Len(inbox') = Len(inbox)
          /\ Len(inbox) # 0
      BY <1>0, <3>1, <3>2
    <3>4. inbox'[Len(inbox')] = inbox[Len(inbox)]
      BY <3>1, <3>3
    <3>5. inbox # <<>>
      BY <3>3
    <3>6. EndsPart(inbox[Len(inbox)])
      BY <2>5, <3>5 DEF Framed
    <3> QED
      BY <2>1, <3>4, <3>6 DEF EndsPart
  <2> QED
    BY <2>1, <2>4, <2>5 DEF Framed
<1>4. CASE Deliver
  <2>1. UNCHANGED jobs
    BY <1>4 DEF Deliver
  <2>2. PICK k \in 1 .. Len(net) :
            /\ split' = (split \/ ~EndsPart(net[k]))
            /\ inbox' = inbox \o SubSeq(net, 1, k)
            /\ net' = SubSeq(net, k + 1, Len(net))
    BY <1>4 DEF Deliver
  <2>3. Stream' = Stream
    BY <2>2, StreamDelivered
  <2>4. /\ Len(inbox \o SubSeq(net, 1, k)) = Len(inbox) + k
        /\ \A i \in 1 .. k : (inbox \o SubSeq(net, 1, k))[Len(inbox) + i] = net[i]
    BY Shape, Moved
  <2>5. k \in 1 .. k
    OBVIOUS
  <2>6. inbox'[Len(inbox')] = net[k]
    BY <2>2, <2>4, <2>5
  <2>7. ~split' => EndsPart(inbox[Len(inbox)])'
    BY <2>1, <2>2, <2>6 DEF EndsPart
  <2> QED
    BY <2>1, <2>3, <2>7 DEF Framed
<1>5. ASSUME NEW f \in Funcs, NEW n \in BodySizes, NEW d \in Decodable, SendJob(f, n, d)
      PROVE  Framed'
  <2>1. /\ jobs' = Append(jobs, [func |-> f, size |-> n, decodes |-> d]) /\ Len(jobs) < MaxJobs
        /\ net' = net \o Frame(Len(jobs) + 1, n) /\ UNCHANGED <<inbox, split>>
    BY <1>5 DEF SendJob
  <2>2. [func |-> f, size |-> n, decodes |-> d] \in Job
    BY DEF Job, SessionAssumption
  <2>3. /\ jobs' \in Seq(Job) /\ Len(jobs') = Len(jobs) + 1 /\ jobs'[Len(jobs) + 1].size = n
        /\ \A i \in 1 .. Len(jobs) : jobs'[i] = jobs[i]
    BY <1>0, <2>1, <2>2, AppendProperties
  <2> DEFINE j == Len(jobs) + 1
  <2>4. j \in 0 .. MaxJobs /\ j \in 0 .. Len(jobs') /\ Len(jobs) <= Len(jobs') /\ j > Len(jobs) /\ j # 0
    BY <1>0, <2>1, <2>3
  <2>5. n \in Nat
    BY DEF SessionAssumption
  <2>6. net' = net \o Frame(j, n) /\ jobs'[j].size = n
    BY <2>1, <2>3
  <2> HIDE DEF j
  <2>7. Total(j, jobs') = MinDataSize + n
    BY <2>4, <2>6 DEF Total, NoJob
  <2> QED
    BY <2>1, <2>3, <2>4, <2>5, <2>6, <2>7, FramedSend
<1>6. CASE SendNotice
  <2>1. net' = net \o Frame(NoJob, 0) /\ UNCHANGED <<inbox, split, jobs>>
    BY <1>6 DEF SendNotice
  <2>2. NoJob \in 0 .. MaxJobs /\ NoJob \in 0 .. Len(jobs)
    BY <1>0 DEF NoJob
  <2>3. Total(NoJob, jobs) = MinDataSize + 0
    BY DEF Total, SessionAssumption
  <2>4. jobs' \in Seq(Job) /\ Len(jobs) <= Len(jobs') /\ \A i \in 1 .. Len(jobs) : jobs'[i] = jobs[i]
    BY <1>0, <2>1
  <2>5. NoJob \in 0 .. Len(jobs') /\ Total(NoJob, jobs') = MinDataSize + 0
    BY <2>1, <2>2, <2>3
  <2> QED
    BY <2>1, <2>2, <2>4, <2>5, FramedSend
<1>7. CASE \/ RegisterNext \/ Ready \/ Find \/ Announce \/ Grab \/ Start \/ Join \/ ReadEvent
           \/ ReadClosed \/ ReadFailed \/ BadBody \/ GetFunc \/ RefuseJob \/ CallFunction
           \/ CallFreed \/ CopyResult \/ PackResult \/ WriteEvent \/ ReplyHead \/ ReplyBody
           \/ Broadcast \/ BroadcastPack \/ BroadcastHead \/ BroadcastBody \/ BroadcastFree
           \/ ServerReceive \/ ServerClose \/ BrokenPipe
  BY <1>2, <1>7 DEF RegisterNext, Ready, Find, Announce, Grab, Start, Join, ReadEvent, ReadClosed,
                    ReadFailed, BadBody, GetFunc, RefuseJob, CallFunction, CallFreed, CopyResult,
                    PackResult, ReadDone, WriteEvent, ReplyHead, ReplyBody, Broadcast,
                    BroadcastPack, BroadcastHead, BroadcastBody, BroadcastFree, ServerReceive,
                    ServerClose, BrokenPipe, server
<1>8. ASSUME NEW f \in Funcs, AddFunction(f) \/ DelFunction(f)
      PROVE  Framed'
  BY <1>2, <1>8 DEF AddFunction, DelFunction, Call, server
<1>9. CASE UNCHANGED vars
  BY <1>2, <1>9 DEF vars, server
<1>10. ReadDropped \/ ReadHeader \/ ReadBody => Reading
  BY DEF ReadDropped, ReadHeader, ReadBody
<1> QED
  BY <1>3, <1>4, <1>5, <1>6, <1>7, <1>8, <1>9, <1>10
     DEF Next, Main, ReadWrite, Application, Environment

-----------------------------------------------------------------------------
(* What the worker reads.                                                  *)

\* The rest of the frame that the first byte of the stream is of, and the
\* frame that follows it.
LEMMA FirstFrame ==
    ASSUME SessionAssumption, Typed, Framed, Stream # <<>>
    PROVE  \E j \in 0 .. Len(jobs), n \in Nat, i \in Nat :
               /\ n = Total(j, jobs) /\ i >= 1 /\ n >= i /\ Stream[1][1] = j /\ Stream[1][2] = i
               /\ Len(Stream) >= n - i + 1
               /\ \A d \in 0 .. n - i : Stream[1 + d][1] = j /\ Stream[1 + d][2] = i + d
               /\ Len(Stream) > n - i + 1 => Stream[(n - i + 1) + 1][2] = 1
<1> DEFINE s == Stream
           j == s[1][1]
           i == s[1][2]
           n == Total(j, jobs)
<1>1. s \in Seq(Byte) /\ Len(s) \in Nat /\ jobs \in Seq(Job)
  <2>1. s \in Seq(Byte)
    BY StreamElems
  <2>2. jobs \in Seq(Job)
    BY Shape
  <2> QED
    BY <2>1, <2>2
<1>2. Len(s) # 0
  BY <1>1, EmptySeq
<1>3. 1 \in 1 .. Len(s) /\ WellFramed(s, jobs)
  BY <1>1, <1>2 DEF Framed
<1> HIDE DEF s
<1>4. j \in 0 .. Len(jobs) /\ i \in 1 .. n
  BY <1>3 DEF WellFramed
<1>5. n \in Nat
  BY <1>1, <1>4, TotalSize
<1>6. \A d \in 0 .. n - i : 1 + d <= Len(s) /\ s[1 + d][1] = j /\ s[1 + d][2] = i + d
  BY <1>3 DEF WellFramed
<1>7. \A k \in 1 .. Len(s) - 1 : s[k][2] = Total(s[k][1], jobs) => s[k + 1][2] = 1
  BY <1>3 DEF WellFramed
<1> HIDE DEF j, n
<1>8. i \in 1 .. n /\ i \in Nat /\ n - i \in 0 .. n - i /\ 1 + (n - i) = n - i + 1 /\ i + (n - i) = n
      /\ n - i \in Nat
  <2>1. \A y \in Nat : \A x \in 1 .. y :
            /\ x \in Nat /\ y - x \in 0 .. y - x /\ 1 + (y - x) = y - x + 1 /\ x + (y - x) = y
            /\ y - x \in Nat
    OBVIOUS
  <2> QED
    BY <1>4, <1>5, <2>1
<1> HIDE DEF i
<1>9. Len(s) >= n - i + 1 /\ s[n - i + 1][1] = j /\ s[n - i + 1][2] = n
  BY <1>1, <1>6, <1>8
<1>10. n = Total(j, jobs)
  BY DEF n
<1>11. ASSUME Len(s) > n - i + 1
       PROVE  s[(n - i + 1) + 1][2] = 1
  <2>1. n - i + 1 \in 1 .. Len(s) - 1
    BY <1>1, <1>8, <1>11
  <2> QED
    BY <1>7, <1>9, <1>10, <2>1
<1>12. s[1][1] = j /\ s[1][2] = i /\ i >= 1 /\ n >= i
  BY <1>5, <1>8 DEF i, j
<1>13. /\ j \in 0 .. Len(jobs) /\ n \in Nat /\ i \in Nat
       /\ n = Total(j, jobs) /\ i >= 1 /\ n >= i /\ s[1][1] = j /\ s[1][2] = i
       /\ Len(s) >= n - i + 1
       /\ \A d \in 0 .. n - i : s[1 + d][1] = j /\ s[1 + d][2] = i + d
       /\ Len(s) > n - i + 1 => s[(n - i + 1) + 1][2] = 1
  BY <1>4, <1>5, <1>6, <1>8, <1>9, <1>10, <1>11, <1>12
<1> QED
  BY <1>13 DEF s

\* So much for a stream that starts with a frame, or with a body.
LEMMA FirstHeader ==
    ASSUME SessionAssumption, Typed, Framed, Stream # <<>>, AtStart
    PROVE  \E j \in 0 .. Len(jobs) :
               /\ Stream[1][1] = j /\ Stream[1][2] = 1 /\ Len(Stream) >= Total(j, jobs)
               /\ j # NoJob => Stream[MinDataSize + 1][1] = j
                               /\ Stream[MinDataSize + 1][2] = MinDataSize + 1
               /\ j = NoJob /\ Len(Stream) > MinDataSize => Stream[MinDataSize + 1][2] = 1
<1>1. PICK j \in 0 .. Len(jobs), n \in Nat, i \in Nat :
          /\ n = Total(j, jobs) /\ Stream[1][1] = j /\ Stream[1][2] = i
          /\ Len(Stream) >= n - i + 1
          /\ \A d \in 0 .. n - i : Stream[1 + d][1] = j /\ Stream[1 + d][2] = i + d
          /\ Len(Stream) > n - i + 1 => Stream[(n - i + 1) + 1][2] = 1
  BY FirstFrame
<1>2. i = 1
  BY <1>1 DEF AtStart
<1>3. n - i + 1 = n /\ \A d \in 0 .. n - 1 : Stream[1 + d][1] = j /\ Stream[1 + d][2] = 1 + d
  BY <1>1, <1>2
<1>4. MinDataSize \in Nat /\ jobs \in Seq(Job)
  BY Shape
<1>5. ASSUME j # NoJob
      PROVE  Stream[MinDataSize + 1][1] = j /\ Stream[MinDataSize + 1][2] = MinDataSize + 1
  <2>1. n > MinDataSize
    BY <1>1, <1>4, <1>5, TotalSize
  <2>2. MinDataSize \in 0 .. n - 1 /\ 1 + MinDataSize = MinDataSize + 1
    BY <1>4, <2>1
  <2> QED
    BY <1>3, <2>2
<1>6. j = NoJob => n = MinDataSize
  BY <1>1, <1>4, TotalSize
<1> QED
  BY <1>1, <1>2, <1>3, <1>5, <1>6

\* Where a body starts, a frame starts after it.
LEMMA FirstBody ==
    ASSUME SessionAssumption, Typed, Framed, AtBody
    PROVE  Len(Stream) > res.size => Stream[res.size + 1][2] = 1
<1>1. PICK j \in 0 .. Len(jobs), n \in Nat, i \in Nat :
          /\ n = Total(j, jobs) /\ Stream[1][1] = j /\ Stream[1][2] = i
          /\ Len(Stream) > n - i + 1 => Stream[(n - i + 1) + 1][2] = 1
  BY FirstFrame DEF AtBody
<1>2. MinDataSize \in Nat /\ jobs \in Seq(Job) /\ res.size \in Nat
  BY Shape
<1>3. i = MinDataSize + 1 /\ j # NoJob /\ res.size = jobs[j].size
  BY <1>1 DEF AtBody
<1>4. n = MinDataSize + res.size
  BY <1>1, <1>2, <1>3, TotalSize
<1>5. n - i + 1 = res.size
  <2>1. MinDataSize \in Int /\ res.size \in Int /\ i = MinDataSize + 1
    BY <1>2, <1>3
  <2>2. \A m, s \in Int : (m + s) - (m + 1) + 1 = s
    OBVIOUS
  <2> QED
    BY <1>4, <2>1, <2>2
<1> QED
  BY <1>1, <1>5

\* As long as every part has arrived whole, a header that has arrived at all is
\* there, and so is a body.
LEMMA HeaderWhole ==
    ASSUME SessionAssumption, Typed, Framed, ~split, inbox # <<>>, AtStart
    PROVE  Len(inbox) >= MinDataSize
<1>1. /\ Stream \in Seq(Byte) /\ inbox \in Seq(Byte) /\ Len(inbox) \in Nat
      /\ Len(Stream) = Len(inbox) + Len(net) /\ Len(net) \in Nat
      /\ \A k \in 1 .. Len(inbox) : Stream[k] = inbox[k]
  BY StreamElems
<1>2. Len(inbox) # 0
  BY <1>1, EmptySeq
<1>3. Stream # <<>>
  BY <1>1, <1>2
<1>4. PICK j \in 0 .. Len(jobs), n \in Nat, i \in Nat :
          /\ n = Total(j, jobs) /\ Stream[1][2] = i
          /\ \A d \in 0 .. n - i : Stream[1 + d][1] = j /\ Stream[1 + d][2] = i + d
  BY <1>3, FirstFrame
<1>5. i = 1 /\ MinDataSize \in Nat \ {0} /\ n \in Nat /\ n >= MinDataSize
  <2>1. i = 1
    BY <1>3, <1>4 DEF AtStart
  <2>2. jobs \in Seq(Job) /\ MinDataSize \in Nat \ {0}
    BY Shape
  <2>3. Total(j, jobs) \in Nat /\ Total(j, jobs) >= MinDataSize
    BY <2>2, TotalSize
  <2> QED
    BY <1>4, <2>1, <2>2, <2>3
<1>6. SUFFICES ASSUME Len(inbox) < MinDataSize
               PROVE  FALSE
  BY <1>1, <1>5
<1>7. Len(inbox) - 1 \in 0 .. n - 1 /\ 1 + (Len(inbox) - 1) = Len(inbox) /\ Len(inbox) \in 1 .. Len(inbox)
  BY <1>1, <1>2, <1>5, <1>6
<1>8. inbox[Len(inbox)][1] = j /\ inbox[Len(inbox)][2] = Len(inbox)
  BY <1>1, <1>4, <1>5, <1>7
<1>9. EndsPart(inbox[Len(inbox)])
  BY DEF Framed
<1> DEFINE l == inbox[Len(inbox)]
<1>10. l[2] = MinDataSize \/ (l[1] > 0 /\ l[2] = MinDataSize + jobs[l[1]].size)
  BY <1>9 DEF EndsPart
<1>11. l[1] = j /\ l[2] = Len(inbox)
  BY <1>8
<1> HIDE DEF l
<1>12. j > 0 /\ Len(inbox) = MinDataSize + jobs[j].size
  <2>1. Len(inbox) # MinDataSize
    BY <1>1, <1>5, <1>6
  <2> QED
    BY <1>10, <1>11, <2>1
<1>13. jobs[j].size \in Nat
  <2>1. jobs \in Seq(Job) /\ j # NoJob
    BY <1>12, Shape DEF NoJob
  <2> QED
    BY <2>1, TotalSize
<1>14. \A a, m, s \in Nat : a = m + s => ~(a < m)
  OBVIOUS
<1>15. Len(inbox) \in Nat /\ MinDataSize \in Nat
  BY <1>1, <1>5
<1> QED
  BY <1>6, <1>12, <1>13, <1>14, <1>15

\* The same of a body.
LEMMA BodyWhole ==
    ASSUME SessionAssumption, Typed, Framed, ~split, inbox # <<>>, AtBody
    PROVE  Len(inbox) >= res.size
<1>1. /\ Stream \in Seq(Byte) /\ inbox \in Seq(Byte) /\ Len(inbox) \in Nat
      /\ Len(Stream) = Len(inbox) + Len(net) /\ Len(net) \in Nat
      /\ \A k \in 1 .. Len(inbox) : Stream[k] = inbox[k]
  BY StreamElems
<1>2. Len(inbox) # 0
  BY <1>1, EmptySeq
<1>4. PICK j \in 0 .. Len(jobs), n \in Nat, i \in Nat :
          /\ n = Total(j, jobs) /\ Stream[1][1] = j /\ Stream[1][2] = i
          /\ \A d \in 0 .. n - i : Stream[1 + d][1] = j /\ Stream[1 + d][2] = i + d
  BY FirstFrame DEF AtBody
<1>5. j # NoJob /\ i = MinDataSize + 1 /\ res.size = jobs[j].size
  BY <1>4 DEF AtBody
<1>6. MinDataSize \in Nat /\ jobs \in Seq(Job) /\ res.size \in Nat
  BY Shape
<1>7. n = MinDataSize + res.size
  BY <1>4, <1>5, <1>6, TotalSize
<1>8. SUFFICES ASSUME Len(inbox) < res.size
               PROVE  FALSE
  BY <1>1, <1>6
<1>9. Len(inbox) - 1 \in 0 .. n - i /\ 1 + (Len(inbox) - 1) = Len(inbox) /\ Len(inbox) \in 1 .. Len(inbox)
      /\ i + (Len(inbox) - 1) = MinDataSize + Len(inbox)
  <2>1. \A x, m, r \in Nat : x # 0 /\ x < r =>
            /\ x - 1 \in 0 .. (m + r) - (m + 1) /\ 1 + (x - 1) = x /\ x \in 1 .. x
            /\ (m + 1) + (x - 1) = m + x
    OBVIOUS
  <2> QED
    BY <1>1, <1>2, <1>5, <1>6, <1>7, <1>8, <2>1
<1>10. inbox[Len(inbox)][1] = j /\ inbox[Len(inbox)][2] = MinDataSize + Len(inbox)
  <2>1. /\ Stream[1 + (Len(inbox) - 1)][1] = j
        /\ Stream[1 + (Len(inbox) - 1)][2] = i + (Len(inbox) - 1)
    BY <1>4, <1>9
  <2>2. Stream[Len(inbox)] = inbox[Len(inbox)]
    BY <1>1, <1>9
  <2> QED
    BY <1>9, <2>1, <2>2
<1>11. EndsPart(inbox[Len(inbox)])
  BY DEF Framed
<1>12. MinDataSize + Len(inbox) = MinDataSize \/ MinDataSize + Len(inbox) = MinDataSize + res.size
  BY <1>5, <1>10, <1>11 DEF EndsPart
<1> QED
  BY <1>1, <1>2, <1>6, <1>8, <1>12

\* What no step takes back: jobs that were sent, a part that arrived in
\* pieces, a name that was deleted, the end of the connection.
LEMMA Kept ==
    ASSUME SessionAssumption, Typed, [Next]_vars
    PROVE  /\ Longer(jobs, jobs')
           /\ (split => split') /\ (deleted => deleted') /\ (closed => closed')
<1>0. jobs \in Seq(Job) /\ Len(jobs) \in Nat
  BY Shape
<1>1. UNCHANGED jobs => Longer(jobs, jobs')
  BY <1>0 DEF Longer
<1>2. ASSUME NEW f \in Funcs, NEW n \in BodySizes, NEW d \in Decodable, SendJob(f, n, d)
      PROVE  Longer(jobs, jobs') /\ UNCHANGED <<split, deleted, closed>>
  <2>1. jobs' = Append(jobs, [func |-> f, size |-> n, decodes |-> d]) /\ UNCHANGED <<split, deleted, closed>>
    BY <1>2 DEF SendJob, history
  <2>2. [func |-> f, size |-> n, decodes |-> d] \in Job
    BY DEF Job, SessionAssumption
  <2>3. Len(jobs') = Len(jobs) + 1 /\ \A i \in 1 .. Len(jobs) : jobs'[i] = jobs[i]
    BY <1>0, <2>1, <2>2, AppendProperties
  <2> QED
    BY <1>0, <2>1, <2>3 DEF Longer
<1>3. CASE Deliver
  <2>1. UNCHANGED <<jobs, deleted, closed>>
    BY <1>3 DEF Deliver, history
  <2>2. PICK k \in 1 .. Len(net) : split' = (split \/ ~EndsPart(net[k]))
    BY <1>3 DEF Deliver
  <2> QED
    BY <1>1, <2>1, <2>2
<1>4. CASE \/ RegisterNext \/ Ready \/ Find \/ Announce \/ Grab \/ Start \/ Join \/ ReadEvent
           \/ ReadDropped \/ ReadHeader \/ ReadBody \/ ReadClosed \/ ReadFailed \/ BadBody
           \/ GetFunc \/ RefuseJob \/ CallFunction \/ CallFreed \/ CopyResult \/ PackResult
           \/ WriteEvent \/ ReplyHead \/ ReplyBody \/ Broadcast \/ BroadcastPack \/ BroadcastHead
           \/ BroadcastBody \/ BroadcastFree \/ ServerReceive \/ SendNotice \/ BrokenPipe
  <2>1. UNCHANGED <<jobs, split, deleted, closed>>
    BY <1>4 DEF RegisterNext, Ready, Find, Announce, Grab, Start, Join, ReadEvent, ReadDropped,
                ReadHeader, ReadBody, Reading, ReadClosed, ReadFailed, BadBody, GetFunc,
                RefuseJob, CallFunction, CallFreed, CopyResult, PackResult, ReadDone, WriteEvent,
                ReplyHead, ReplyBody, Broadcast, BroadcastPack, BroadcastHead, BroadcastBody,
                BroadcastFree, ServerReceive, SendNotice, BrokenPipe, server, history
  <2> QED
    BY <1>1, <2>1
<1>5. CASE ServerClose
  BY <1>1, <1>5 DEF ServerClose, history
<1>6. ASSUME NEW f \in Funcs, AddFunction(f) \/ DelFunction(f)
      PROVE  Longer(jobs, jobs') /\ UNCHANGED <<split, closed>> /\ (deleted => deleted')
  BY <1>1, <1>6 DEF AddFunction, DelFunction, Call, server
<1>7. CASE UNCHANGED vars
  BY <1>1, <1>7 DEF vars, server, history
<1> QED
  BY <1>2, <1>3, <1>4, <1>5, <1>6, <1>7 DEF Next, Main, ReadWrite, Application, Environment

\* Nor what makes the worker misread.
LEMMA CauseKept ==
    ASSUME SessionAssumption, Typed, [Next]_vars, MisreadCause
    PROVE  MisreadCause'
<1>0. jobs \in Seq(Job) /\ Len(jobs) \in Nat
  BY Shape
<1>1. CASE split
  BY <1>1, Kept DEF MisreadCause
<1>2. ASSUME NEW j \in 1 .. Len(jobs), jobs[j].size = MinDataSize
      PROVE  MisreadCause'
  <2>1. Longer(jobs, jobs')
    BY Kept
  <2>2. Len(jobs) <= Len(jobs') /\ jobs'[j] = jobs[j]
    BY <2>1 DEF Longer
  <2>3. j \in 1 .. Len(jobs') /\ jobs'[j].size = MinDataSize
    <3>1. j \in 1 .. Len(jobs')
      BY <1>0, <2>2
    <3> QED
      BY <1>2, <2>2, <3>1
  <2> QED
    BY <2>3 DEF MisreadCause
<1> QED
  BY <1>1, <1>2 DEF MisreadCause

\* The registry never shrinks.
LEMMA GrownKept ==
    ASSUME SessionAssumption, Typed, Table, [Next]_vars
    PROVE  Grown => Grown'
<1>1. size \in Nat /\ MapSize \in Nat /\ MapSize <= size
  BY DEF Typed, RegistryShape, SessionAssumption, Table
<1>2. ASSUME NEW f \in Funcs, Register(f)
      PROVE  Grown => Grown'
  <2>1. size' >= size /\ size' \in {size, 2 * size}
    BY <1>2, Registering
  <2> QED
    BY <1>1, <2>1 DEF Grown
<1>3. UNCHANGED size => (Grown => Grown')
  BY DEF Grown
<1>4. ASSUME NEW f \in Funcs, DelFunction(f)
      PROVE  UNCHANGED size
  <2>1. UNCHANGED size \/ (Live(slots[Slot(f)]) /\ Unregister(slots[Slot(f)]))
    BY <1>4 DEF DelFunction
  <2> QED
    BY <2>1, Unregistering
<1>5. ASSUME NEW f \in Funcs, AddFunction(f)
      PROVE  Register(f)
  BY <1>5 DEF AddFunction
<1>6. CASE RegisterNext
  <2>1. PICK f \in Funcs : Register(f)
    <3>1. next \in 1 .. Len(Initial)
      BY <1>6 DEF RegisterNext, Typed, SessionShape, Ranges, SessionAssumption
    <3>2. Initial[next] \in Funcs
      BY <3>1, ElementOfSeq DEF SessionAssumption
    <3> QED
      BY <1>6, <3>2 DEF RegisterNext
  <2> QED
    BY <1>2, <2>1
<1>7. CASE \/ Ready \/ Find \/ Announce \/ Grab \/ Start \/ Join
           \/ Broadcast \/ BroadcastPack \/ BroadcastHead \/ BroadcastBody \/ BroadcastFree
           \/ Environment \/ UNCHANGED vars
  <2>1. UNCHANGED size
    BY <1>7 DEF Ready, Find, Announce, Grab, Start, Join,
                Broadcast, BroadcastPack, BroadcastHead, BroadcastBody, BroadcastFree, Environment,
                ServerReceive, SendNotice, Deliver, ServerClose, BrokenPipe, SendJob, appVars, vars
  <2> QED
    BY <1>3, <2>1
<1>8. CASE ReadWrite
  <2>1. UNCHANGED size
    BY <1>8 DEF ReadWrite, ReadEvent, ReadDropped, ReadHeader, ReadBody, Reading, ReadClosed,
                ReadFailed, CloseAndExit, CloseAndReturn, BadBody, GetFunc, RefuseJob,
                CallFunction, CallFreed, CopyResult, PackResult, ReadDone, WriteEvent, ReplyHead,
                ReplyBody, appVars
  <2> QED
    BY <1>3, <2>1
<1> QED
  BY <1>2, <1>3, <1>4, <1>5, <1>6, <1>7, <1>8 DEF Next, Main, Application

\* What the registry has lost stays lost.
LEMMA DisturbedKept ==
    ASSUME SessionAssumption, Typed, Table, [Next]_vars
    PROVE  Disturbed => Disturbed'
<1>1. CASE main # "register"
  BY <1>1, Undisturbed
<1>2. CASE main = "register"
  <2>1. ~deleted /\ Len(fn) <= Len(Initial) /\ Len(fn) \in Nat /\ Len(Initial) \in Nat
    BY <1>2, Shaped DEF Table, SessionAssumption
  <2>2. ~Overwritten
    BY <2>1 DEF Overwritten
  <2> QED
    BY <2>1, <2>2, GrownKept DEF Disturbed
<1> QED
  BY <1>1, <1>2

\* A frame more at the end of the stream changes nothing for the reader.
LEMMA PlaceKept ==
    ASSUME SessionAssumption, Typed, NEW w \in Seq(Byte), Len(w) >= 1, w[1][2] = 1,
           net' = net \o w, inbox' = inbox, Longer(jobs, jobs'), res' = res
    PROVE  (AtStart => AtStart') /\ (AtBody => AtBody')
<1>1. /\ Stream' \in Seq(Byte) /\ Len(Stream') = Len(Stream) + Len(w)
      /\ \A k \in 1 .. Len(Stream) : Stream'[k] = Stream[k]
      /\ \A i \in 1 .. Len(w) : Stream'[Len(Stream) + i] = w[i]
  BY StreamSent
<1>2. Stream \in Seq(Byte) /\ Len(Stream) \in Nat /\ jobs \in Seq(Job)
  <2>1. Stream \in Seq(Byte)
    BY StreamElems
  <2>2. jobs \in Seq(Job)
    BY Shape
  <2> QED
    BY <2>1, <2>2
<1>3. CASE Stream = <<>>
  <2>1. Len(Stream) = 0 /\ 1 \in 1 .. Len(w)
    BY <1>2, <1>3
  <2>2. Stream'[Len(Stream) + 1] = w[1]
    BY <1>1, <2>1
  <2>3. Stream'[1] = w[1]
    BY <2>1, <2>2
  <2> QED
    BY <1>3, <2>3 DEF AtStart, AtBody
<1>4. CASE Stream # <<>>
  <2>1. 1 \in 1 .. Len(Stream) /\ Stream'[1] = Stream[1]
    BY <1>1, <1>2, <1>4, EmptySeq
  <2>2. Stream' # <<>>
    <3>1. Len(Stream') # 0
      BY <1>1, <1>2, <2>1
    <3> QED
      BY <3>1
  <2>3. AtStart => AtStart'
    BY <1>4, <2>1 DEF AtStart
  <2>4. ASSUME AtBody
        PROVE  AtBody'
    <3>1. Stream[1][1] # NoJob /\ Stream[1][1] \in 0 .. Len(jobs)
      <4>1. Stream[1][1] \in Nat
        BY <1>2, <2>1, ByteParts
      <4>2. Stream[1][1] <= Len(jobs)
        <5>1. /\ Len(Stream) = Len(inbox) + Len(net) /\ Len(inbox) \in Nat /\ Len(net) \in Nat
              /\ \A k \in 1 .. Len(inbox) : Stream[k] = inbox[k]
              /\ \A i \in 1 .. Len(net) : Stream[Len(inbox) + i] = net[i]
          BY StreamElems
        <5>2. /\ \A k \in 1 .. Len(inbox) : inbox[k][1] <= Len(jobs)
              /\ \A k \in 1 .. Len(net) : net[k][1] <= Len(jobs)
          BY DEF Typed, Ranges
        <5>3. 1 \in 1 .. Len(inbox) \/ (Len(inbox) = 0 /\ 1 \in 1 .. Len(net) /\ Len(inbox) + 1 = 1)
          BY <2>1, <5>1
        <5> QED
          BY <5>1, <5>2, <5>3
      <4> QED
        BY <1>2, <2>4, <4>1, <4>2 DEF AtBody
    <3>2. Stream[1][1] \in 1 .. Len(jobs)
      <4>1. Len(jobs) \in Nat
        BY <1>2
      <4> QED
        BY <3>1, <4>1 DEF NoJob
    <3>3. jobs'[Stream[1][1]] = jobs[Stream[1][1]]
      BY <3>2 DEF Longer
    <3> QED
      BY <2>1, <2>2, <2>4, <3>3 DEF AtBody
  <2> QED
    BY <2>3, <2>4
<1> QED
  BY <1>3, <1>4

\* Where the reader is, said of the next state too.
InPlace ==
    /\ rw \in {"read", "do"}
    /\ rw = "read" => Short \/ (IF HeadRead THEN AtBody ELSE AtStart /\ res.size = MinDataSize)
    /\ rw = "do" => AtStart /\ res.type = "job" /\ res.job # NoJob

\* A body shorter than a header is dropped, whatever is read after it.
LEMMA ReadShort ==
    ASSUME SessionAssumption, Typed, Short, ReadDropped \/ ReadHeader \/ ReadBody
    PROVE  InPlace'
<1>1. Reading
  BY DEF ReadDropped, ReadHeader, ReadBody
<1>2. Count <= res.size /\ Count \in Nat /\ res.size \in Nat /\ MinDataSize \in Nat
  BY <1>1, ReadLeaves, Shape
<1>3. Count < MinDataSize
  BY <1>2 DEF Short
<1>4. ~(Count = MinDataSize) /\ ~(Count > MinDataSize)
  BY <1>2, <1>3
<1>5. ReadDropped
  BY <1>4 DEF ReadHeader, ReadBody
<1>6. UNCHANGED <<rw, res>>
  BY <1>5 DEF ReadDropped
<1>7. Short'
  BY <1>6 DEF Short, HeadRead
<1> QED
  BY <1>6, <1>7 DEF InPlace, Short

\* Where a frame starts, a header is read, and its body is next.
LEMMA ReadStart ==
    ASSUME SessionAssumption, Typed, Framed, ~MisreadCause, rw = "read", AtStart,
           ~HeadRead, res.size = MinDataSize, ReadDropped \/ ReadHeader \/ ReadBody
    PROVE  InPlace'
<1> DEFINE M == MinDataSize
<1>1. Reading
  BY DEF ReadDropped, ReadHeader, ReadBody
<1>2. /\ Count \in 1 .. Len(inbox) /\ Len(inbox) \in Nat /\ (Count = Len(inbox) \/ Count = res.size)
      /\ Bytes[1] = inbox[1] /\ Count <= res.size /\ M \in Nat \ {0}
  BY <1>1, ReadLeaves, Shape
<1>3. Len(inbox) >= M
  BY <1>1, HeaderWhole DEF MisreadCause, Reading
<1>4. Count = M
  BY <1>2, <1>3
<1>5. /\ Stream \in Seq(Byte) /\ Len(Stream) \in Nat /\ Count \in 1 .. Len(Stream) /\ Bytes[1] = Stream[1]
      /\ Stream' \in Seq(Byte) /\ Len(Stream') = Len(Stream) - M
      /\ \A k \in 1 .. Len(Stream) - M : Stream'[k] = Stream[M + k]
  BY <1>1, <1>2, <1>4, StreamRead, StreamElems
<1>6. Stream # <<>>
  BY <1>5
<1>7. PICK j \in 0 .. Len(jobs) :
          /\ Stream[1][1] = j /\ Stream[1][2] = 1 /\ Len(Stream) >= Total(j, jobs)
          /\ j # NoJob => Stream[M + 1][1] = j /\ Stream[M + 1][2] = M + 1
          /\ j = NoJob /\ Len(Stream) > M => Stream[M + 1][2] = 1
  BY <1>6, FirstHeader
<1>8. jobs \in Seq(Job) /\ Bytes[1][1] = j /\ Bytes[1][2] = 1
  BY <1>5, <1>7, Shape
<1>9. ReadHeader
  BY <1>2, <1>4 DEF ReadDropped, ReadBody
<1>10. \/ /\ j # NoJob /\ rw' = rw
          /\ res' = [res EXCEPT !.hread = TRUE, !.type = "job", !.size = jobs[j].size]
       \/ /\ j = NoJob /\ rw' = rw
          /\ res' = [res EXCEPT !.hread = TRUE, !.type = "notice"]
  BY <1>8, <1>9 DEF ReadHeader
<1>11. res \in Responses /\ jobs' = jobs
  BY <1>1, Shape DEF Reading, server
<1>12. CASE j # NoJob
  <2>1. rw' = "read" /\ res'.hread /\ res'.type = "job" /\ res'.size = jobs[j].size
    BY <1>10, <1>11, <1>12 DEF Responses
  <2>2. Len(Stream) > M /\ jobs[j].size \in Nat
    <3>1. Total(j, jobs) \in Nat /\ Total(j, jobs) > M /\ jobs[j].size \in Nat
      BY <1>8, <1>12, TotalSize
    <3> QED
      BY <1>2, <1>5, <1>7, <3>1
  <2>3. j \in 1 .. Len(jobs)
    BY <1>12, Shape DEF NoJob
  <2>4. jobs[j].size # M
    BY <2>3 DEF MisreadCause
  <2>5. CASE jobs[j].size < M
    BY <2>1, <2>5 DEF InPlace, Short, HeadRead
  <2>6. CASE jobs[j].size > M
    <3>1. 1 \in 1 .. Len(Stream) - M /\ Len(Stream) - M # 0
      BY <1>2, <1>5, <2>2
    <3>2. Stream'[1] = Stream[M + 1] /\ Stream' # <<>>
      BY <1>5, <3>1
    <3>3. Stream'[1][1] = j /\ Stream'[1][2] = M + 1
      BY <1>7, <1>12, <3>2
    <3>4. AtBody'
      BY <1>11, <1>12, <2>1, <2>6, <3>2, <3>3 DEF AtBody
    <3> QED
      BY <2>1, <3>4 DEF InPlace, HeadRead
  <2> QED
    BY <1>2, <2>2, <2>4, <2>5, <2>6
<1>13. CASE j = NoJob
  <2>1. rw' = "read" /\ res'.type = "notice" /\ res'.size = M
    BY <1>10, <1>11, <1>13 DEF Responses
  <2>3. ASSUME Stream' # <<>>
        PROVE  Stream'[1][2] = 1
    <3>1. Len(Stream') # 0
      BY <1>5, <2>3, EmptySeq
    <3>2. Len(Stream) > M /\ 1 \in 1 .. Len(Stream) - M
      BY <1>2, <1>4, <1>5, <3>1
    <3>3. Stream'[1] = Stream[M + 1]
      BY <1>5, <3>2
    <3> QED
      BY <1>7, <1>13, <3>2, <3>3
  <2> QED
    BY <2>1, <2>3 DEF InPlace, AtStart, HeadRead
<1> QED
  BY <1>12, <1>13

\* Where a body starts, all of it is read, and a frame is next.
LEMMA ReadWhole ==
    ASSUME SessionAssumption, Typed, Framed, ~MisreadCause, rw = "read", AtBody,
           HeadRead, ReadDropped \/ ReadHeader \/ ReadBody
    PROVE  InPlace' /\ rw' = "do" /\ res'.job = Stream[1][1] /\ Count = res.size
<1> DEFINE M == MinDataSize
<1>1. Reading
  BY DEF ReadDropped, ReadHeader, ReadBody
<1>2. /\ Count \in 1 .. Len(inbox) /\ Len(inbox) \in Nat /\ (Count = Len(inbox) \/ Count = res.size)
      /\ Bytes[1] = inbox[1] /\ Count <= res.size /\ M \in Nat \ {0} /\ res.size \in Nat
  BY <1>1, ReadLeaves, Shape
<1>3. Len(inbox) >= res.size
  BY <1>1, BodyWhole DEF MisreadCause, Reading
<1>4. Count = res.size
  BY <1>2, <1>3
<1>5. /\ Stream \in Seq(Byte) /\ Len(Stream) \in Nat /\ Count \in 1 .. Len(Stream) /\ Bytes[1] = Stream[1]
      /\ Stream' \in Seq(Byte) /\ Len(Stream') = Len(Stream) - Count
      /\ \A k \in 1 .. Len(Stream) - Count : Stream'[k] = Stream[Count + k]
  BY <1>1, <1>2, StreamRead, StreamElems
<1>6. Stream # <<>>
  BY <1>5
<1> DEFINE j == Stream[1][1]
<1>8. /\ j # NoJob /\ Bytes[1][1] = j /\ Bytes[1][2] = M + 1
      /\ res.size = jobs[j].size /\ res.size > M
  BY <1>5 DEF AtBody
<1>10. Count > M
  BY <1>4, <1>8
<1>11. ReadBody
  <2>1. ~(Count < M) /\ ~(Count = M) /\ res.hread
    BY <1>2, <1>10 DEF HeadRead
  <2> QED
    BY <2>1 DEF ReadDropped, ReadHeader
<1>12. Count >= jobs[j].size
  BY <1>2, <1>4, <1>8
<1>13. rw' = "do" /\ res' = [res EXCEPT !.job = j]
  BY <1>8, <1>11, <1>12 DEF ReadBody
<1>14. res'.job = j /\ res'.type = "job"
  BY <1>13, Shape DEF Responses, HeadRead
<1>15. ASSUME Stream' # <<>>
       PROVE  Stream'[1][2] = 1
  <2>1. Len(Stream') # 0
    BY <1>5, <1>15, EmptySeq
  <2>2. Count <= Len(Stream) /\ Len(Stream) - Count # 0 /\ Count \in Nat
    BY <1>2, <1>5, <2>1
  <2>3. Len(Stream) > Count /\ 1 \in 1 .. Len(Stream) - Count
    BY <1>5, <2>2
  <2>4. Stream'[1] = Stream[Count + 1]
    BY <1>5, <2>3
  <2> QED
    BY <1>4, <2>3, <2>4, FirstBody
<1>16. InPlace'
  BY <1>8, <1>13, <1>14, <1>15 DEF InPlace, AtStart
<1> QED
  BY <1>4, <1>13, <1>14, <1>16

\* The reader of a new connection is at the start of a frame.
LEMMA AlignedInit == SessionAssumption /\ Init => Aligned
<1> SUFFICES ASSUME SessionAssumption, Init
             PROVE  Aligned
  OBVIOUS
<1>1. res = NewResponse /\ rw = "none" /\ refused = FALSE
      /\ inbox = <<>> /\ net = <<>>
  BY DEF Init
<1>2. ~res.hread
  BY <1>1 DEF NewResponse
<1>3. AtStart
  BY <1>1 DEF AtStart, Stream
<1> QED
  BY <1>1, <1>2, <1>3 DEF Aligned, InWorkerDo

\* A job is refused for what the registry has lost.
LEMMA RefusedWhy ==
    ASSUME SessionAssumption, Typed, Names, RefuseJob, res.type = "job", res.job # NoJob
    PROVE  Disturbed
<1> SUFFICES ASSUME ~Disturbed
             PROVE  FALSE
  OBVIOUS
<1> DEFINE g == jobs[res.job].func
<1>1. main # "register"
  BY DEF RefuseJob, NotFound, OtherName, Typed, Ranges
<1>2. res.job \in 1 .. Len(jobs) /\ Len(jobs) \in Nat
  BY Shape DEF NoJob
<1>3. Found
  BY DEF Names
<1>4. Callable(g)
  BY <1>2, <1>3 DEF Found
<1>5. Handles = {g}
  BY DEF Handles
<1>6. ~NotFound
  <2>1. slots[Slot(g)] \in 1 .. Len(fn) /\ Len(fn) \in Nat
    BY <1>4, Shaped DEF Callable
  <2>2. slots[Slot(g)] \notin {Null, Junk}
    BY <2>1 DEF Null, Junk
  <2> QED
    BY <1>5, <2>2 DEF NotFound
<1>7. ~OtherName
  <2>1. rw = "call" => fn[func].name = g
    BY <1>3 DEF Found
  <2> QED
    BY <1>5, <2>1 DEF OtherName
<1> QED
  BY <1>6, <1>7 DEF RefuseJob

\* As long as parts arrive whole and no body is as long as a header, the
\* reader stays where a header or a body starts.
LEMMA AlignedNext ==
    ASSUME SessionAssumption, Typed, Table, Names, Framed, Aligned, [Next]_vars
    PROVE  Aligned'
<1> DEFINE Good ==
               /\ rw \notin {"read", "gone"} => AtStart
               /\ rw = "read" => Short \/ (IF HeadRead THEN AtBody
                                                      ELSE AtStart /\ res.size = MinDataSize)
               /\ InWorkerDo => res.type = "job" /\ res.job # NoJob
               /\ rw = "gone" => closed
               /\ refused => Disturbed
<1>0. /\ rw \in {"none", "poll", "head", "body"} => ~res.hread
      /\ ~MisreadCause => Good
  BY DEF Aligned
<1>1. ~MisreadCause' => ~MisreadCause
  BY CauseKept
<1>2. (Disturbed => Disturbed') /\ (closed => closed')
  BY Kept, DisturbedKept
<1>3. ASSUME UNCHANGED <<rw, res, refused>>, AtStart => AtStart', AtBody => AtBody'
      PROVE  Aligned'
  <2>1. Short => Short'
    BY <1>3 DEF Short, HeadRead
  <2>2. HeadRead' <=> HeadRead
    BY <1>3 DEF HeadRead
  <2>3. ~MisreadCause' => Good'
    BY <1>0, <1>1, <1>2, <1>3, <2>1, <2>2 DEF InWorkerDo
  <2>4. rw' \in {"none", "poll", "head", "body"} => ~res'.hread
    BY <1>0, <1>3
  <2> QED
    BY <2>3, <2>4 DEF Aligned
<1>4. ASSUME UNCHANGED <<rw, res, refused, inbox, net, jobs>>
      PROVE  Aligned'
  <2>1. (AtStart => AtStart') /\ (AtBody => AtBody')
    BY <1>4 DEF AtStart, AtBody, Stream
  <2> QED
    BY <1>3, <1>4, <2>1
<1>5. ASSUME rw \notin {"read", "gone"}, rw' \in {"none", "poll", "head", "body"},
             ~res'.hread, UNCHANGED <<inbox, net>>,
             ~MisreadCause /\ Good /\ refused' => refused \/ Disturbed'
      PROVE  Aligned'
  <2>1. AtStart => AtStart'
    BY <1>5 DEF AtStart, Stream
  <2>2. ~MisreadCause' => Good'
    BY <1>0, <1>1, <1>2, <1>5, <2>1 DEF InWorkerDo
  <2> QED
    BY <1>5, <2>2 DEF Aligned
<1> HIDE DEF Good
<1>6. CASE UNCHANGED vars
  BY <1>4, <1>6 DEF vars, reader, server, history
<1>7. CASE \/ RegisterNext \/ Ready \/ Find \/ Announce \/ Grab \/ Join
           \/ Broadcast \/ BroadcastPack \/ BroadcastHead \/ BroadcastBody \/ BroadcastFree
           \/ ServerReceive \/ ServerClose \/ BrokenPipe \/ BadBody \/ CallFreed
  <2>1. UNCHANGED <<rw, res, refused, inbox, net, jobs>>
    BY <1>7 DEF RegisterNext, Ready, Find, Announce, Grab, Join, Broadcast, BroadcastPack,
         BroadcastHead, BroadcastBody, BroadcastFree, ServerReceive, ServerClose, BrokenPipe,
         BadBody, CallFreed, reader, server, history
  <2> QED
    BY <1>4, <2>1
<1>8. ASSUME NEW f \in Funcs, AddFunction(f) \/ DelFunction(f)
      PROVE  Aligned'
  BY <1>4, <1>8 DEF AddFunction, DelFunction, Call, reader, server
<1>9. CASE Start
  <2>1. rw = "none"
    BY <1>9 DEF Start, Typed, Ranges
  <2>2. ~res'.hread /\ rw' = "poll" /\ UNCHANGED <<refused, inbox, net, proc>>
    BY <1>9 DEF Start, NewResponse, server, history
  <2> QED
    BY <1>5, <2>1, <2>2
<1>10. CASE WriteEvent \/ ReplyHead \/ ReplyBody
  <2>1. /\ rw \in {"poll", "head", "body"} /\ rw' \in {"poll", "head", "body"}
        /\ UNCHANGED <<res, refused, inbox, net>> /\ (proc' = proc \/ proc' = "ub")
    BY <1>10 DEF WriteEvent, ReplyHead, ReplyBody, WriteHead, WriteBody, server, history
  <2>2. ~res'.hread
    BY <1>0, <2>1
  <2> QED
    BY <1>5, <2>1, <2>2
<1>11. CASE ReadEvent
  <2>1. /\ rw = "poll" /\ rw' = "read" /\ res' = [res EXCEPT !.size = MinDataSize]
        /\ UNCHANGED <<refused, inbox, net, proc>>
    BY <1>11 DEF ReadEvent, FreshBuffer, server, history
  <2>2. ~res'.hread /\ res'.size = MinDataSize
    BY <1>0, <2>1, Shape DEF Responses
  <2>3. AtStart => AtStart'
    BY <2>1 DEF AtStart, Stream
  <2>4. ~MisreadCause' => Good'
    BY <1>0, <1>1, <1>2, <2>1, <2>2, <2>3 DEF Good, HeadRead, InWorkerDo
  <2> QED
    BY <2>1, <2>4 DEF Aligned, Good
<1>12. CASE ReadDropped \/ ReadHeader \/ ReadBody
  <2>1. rw = "read" /\ UNCHANGED refused /\ UNCHANGED proc
    BY <1>12 DEF ReadDropped, ReadHeader, ReadBody, Reading, history
  <2>2. rw' \in {"read", "do", "gone"}
    BY <1>12, <2>1 DEF ReadDropped, ReadHeader, ReadBody
  <2>3. ASSUME ~MisreadCause'
        PROVE  Good'
    <3>1. ~MisreadCause /\ Good
      BY <1>0, <1>1, <2>3
    <3>2. InPlace'
      <4>1. Short \/ (HeadRead /\ AtBody) \/ (~HeadRead /\ AtStart /\ res.size = MinDataSize)
        BY <2>1, <3>1 DEF Good
      <4> QED
        BY <1>12, <2>1, <3>1, <4>1, ReadShort, ReadStart, ReadWhole
    <3> QED
      BY <1>2, <2>1, <3>1, <3>2 DEF Good, InPlace, InWorkerDo
  <2> QED
    BY <2>2, <2>3 DEF Aligned, Good
<1>13. CASE ReadClosed \/ ReadFailed
  <2>1. /\ rw = "read" /\ closed /\ rw' \in {"read", "gone"}
        /\ UNCHANGED <<res, refused, inbox, net, jobs>>
    BY <1>13 DEF ReadClosed, ReadFailed, CloseAndReturn, CloseAndExit, server, history
  <2>2. (AtStart => AtStart') /\ (AtBody => AtBody') /\ (HeadRead' <=> HeadRead)
    BY <2>1 DEF AtStart, AtBody, Stream, HeadRead
  <2>3. Short /\ rw' = "read" => Short'
    BY <2>1, <2>2 DEF Short
  <2>4. ~MisreadCause' => Good'
    BY <1>0, <1>1, <1>2, <2>1, <2>2, <2>3 DEF Good, InWorkerDo
  <2> QED
    BY <2>1, <2>4 DEF Aligned, Good
<1>14. CASE GetFunc \/ CallFunction \/ CopyResult
  <2>1. /\ rw \in {"do", "call", "copy"} /\ rw' \in {"call", "copy", "pack"}
        /\ UNCHANGED <<res, refused, inbox, net>>
    BY <1>14 DEF GetFunc, CallFunction, CopyResult, server, history
  <2>2. AtStart => AtStart'
    BY <2>1 DEF AtStart, Stream
  <2>3. ~MisreadCause' => Good'
    BY <1>0, <1>1, <1>2, <2>1, <2>2 DEF Good, InWorkerDo
  <2> QED
    BY <2>1, <2>3 DEF Aligned, Good
<1>19. CASE RefuseJob \/ PackResult
  <2>1. /\ rw \in {"do", "call", "pack"} /\ rw' = "poll" /\ UNCHANGED <<inbox, net>>
        /\ res' = [res EXCEPT !.hread = FALSE, !.params = "freed"]
    BY <1>19 DEF RefuseJob, PackResult, NotFound, OtherName, ReadDone, server
  <2>2. ~res'.hread
    BY <2>1, Shape DEF Responses
  <2>3. CASE PackResult
    <3>1. refused' = refused
      BY <2>3 DEF PackResult
    <3> QED
      BY <1>5, <2>1, <2>2, <3>1
  <2>4. CASE RefuseJob
    <3>1. ASSUME ~MisreadCause, Good
          PROVE  Disturbed
      <4>1. res.type = "job" /\ res.job # NoJob
        BY <2>1, <3>1 DEF Good, InWorkerDo
      <4> QED
        BY <2>4, <4>1, RefusedWhy
    <3> QED
      BY <1>2, <1>5, <2>1, <2>2, <3>1
  <2> QED
    BY <1>19, <2>3, <2>4
<1>15. CASE Deliver
  <2>1. UNCHANGED <<rw, res, refused, jobs>>
    BY <1>15 DEF Deliver, reader, history
  <2>2. Stream' = Stream
    BY <1>15, StreamDelivered DEF Deliver
  <2>3. (AtStart => AtStart') /\ (AtBody => AtBody')
    BY <2>1, <2>2 DEF AtStart, AtBody
  <2> QED
    BY <1>3, <2>1, <2>3
<1>16. ASSUME NEW j \in 0 .. MaxJobs, NEW n \in Nat, net' = net \o Frame(j, n),
              UNCHANGED <<rw, res, refused, inbox>>
       PROVE  Aligned'
  <2> DEFINE w == Frame(j, n)
  <2>1. w \in Seq(Byte) /\ Len(w) = MinDataSize + n /\ \A i \in 1 .. MinDataSize + n : w[i] = <<j, i>>
    BY FrameBytes
  <2>2. net' = net \o w
    BY <1>16
  <2> HIDE DEF w
  <2>3. Len(w) >= 1 /\ 1 \in 1 .. MinDataSize + n
    BY <2>1, Shape
  <2>4. w[1][2] = 1
    BY <2>1, <2>3
  <2>5. Longer(jobs, jobs')
    BY Kept
  <2>6. (AtStart => AtStart') /\ (AtBody => AtBody')
    BY <1>16, <2>1, <2>2, <2>3, <2>4, <2>5, PlaceKept
  <2> QED
    BY <1>3, <1>16, <2>6
<1>17. ASSUME NEW f \in Funcs, NEW n \in BodySizes, NEW d \in Decodable, SendJob(f, n, d)
       PROVE  Aligned'
  <2>1. /\ Len(jobs) < MaxJobs /\ net' = net \o Frame(Len(jobs) + 1, n)
        /\ UNCHANGED <<rw, res, refused, inbox>>
    BY <1>17 DEF SendJob, reader, history
  <2>2. Len(jobs) + 1 \in 0 .. MaxJobs /\ n \in Nat
    BY <2>1, Shape DEF SessionAssumption
  <2> QED
    BY <1>16, <2>1, <2>2
<1>18. CASE SendNotice
  <2>1. net' = net \o Frame(NoJob, 0) /\ UNCHANGED <<rw, res, refused, inbox>>
    BY <1>18 DEF SendNotice, reader, history
  <2>2. NoJob \in 0 .. MaxJobs
    BY Shape DEF NoJob
  <2> QED
    BY <1>16, <2>1, <2>2
<1> QED
  BY <1>6, <1>7, <1>8, <1>9, <1>10, <1>11, <1>12, <1>13, <1>14, <1>15, <1>17, <1>18, <1>19
     DEF Next, Main, ReadWrite, Application, Environment

-----------------------------------------------------------------------------
(* The theorems.                                                           *)

Reads == Typed /\ Table /\ Heap /\ Names /\ Framed /\ Aligned

\* A new session satisfies the invariant that the theorems on reading rest on.
LEMMA ReadsInit == SessionAssumption /\ Init => Reads
<1> SUFFICES ASSUME SessionAssumption, Init
             PROVE  Reads
  OBVIOUS
<1>1. Typed /\ Framed /\ Aligned
  BY TypedInit, FramedInit, AlignedInit
<1>2. Heap
  <2>1. Len(req) = 0
    BY DEF Init
  <2> QED
    BY <2>1 DEF Init, Heap
<1>3. /\ main = "register" /\ calls = 0 /\ next = 1 /\ Len(fn) = 0 /\ Len(keys) = 0 /\ Len(jobs) = 0
      /\ Len(wire) = 0 /\ Len(req) = 0 /\ size = MapSize /\ ~deleted /\ rw = "none"
      /\ wire = <<>> /\ jobs = <<>> /\ req = <<>> /\ app.kind = "none"
      /\ \A k \in 0 .. size - 1 : slots[k] = Null
  BY DEF Init
<1>4. Names
  BY <1>3 DEF Names, Found
<1>5. Table
  <2>1. \A k \in 0 .. size - 1 : slots[k] # Junk /\ slots[k] \notin 1 .. Len(fn)
    BY <1>3 DEF Null, Junk
  <2>2. Filled
    BY <1>3, <2>1 DEF Filled
  <2>3. MapSize \in Nat /\ Len(Initial) \in Nat
    BY DEF SessionAssumption
  <2> QED
    BY <1>3, <2>1, <2>2, <2>3 DEF Table
<1> QED
  BY <1>1, <1>2, <1>4, <1>5 DEF Reads

\* And every step keeps it.
LEMMA ReadsNext == SessionAssumption /\ Reads /\ [Next]_vars => Reads'
<1> SUFFICES ASSUME SessionAssumption, Reads, [Next]_vars
             PROVE  Reads'
  OBVIOUS
<1>1. Typed /\ Table /\ Heap /\ Names /\ Framed /\ Aligned
  BY DEF Reads
<1>2. Typed' /\ Table' /\ Heap'
  BY <1>1, TypedNext, TableNext, HeapNext
<1>3. Names' /\ Framed' /\ Aligned'
  BY <1>1, NamesNext, FramedNext, AlignedNext
<1> QED
  BY <1>2, <1>3 DEF Reads

\* The invariant that the theorems on reading rest on.
THEOREM ReadsCorrect == Spec => []Reads
<1>1. Init => Reads
  BY SessionAssumption, ReadsInit
<1>2. Reads /\ [Next]_vars => Reads'
  BY SessionAssumption, ReadsNext
<1> QED
  BY <1>1, <1>2, PTL DEF Spec

\* What the invariant says of a failure: before a request was added, a job
\* refused or the registry changed, it is one in a job that does not decode.
LEMMA Failures ==
    ASSUME SessionAssumption, Reads, ~MisreadCause, proc \in {"ub", "abort"}
    PROVE  \/ Len(req) > 1 \/ refused \/ deleted \/ Grown
           \/ rw = "do" /\ res.job \in 1 .. Len(jobs) /\ ~jobs[res.job].decodes
<1>1. \/ Len(req) > 1 \/ refused \/ deleted \/ Grown
      \/ rw = "do" /\ ~(Decodes /\ res.job # NoJob)
  BY DEF Reads, Heap
<1>2. ASSUME rw = "do", ~(Decodes /\ res.job # NoJob)
      PROVE  res.job \in 1 .. Len(jobs) /\ ~jobs[res.job].decodes
  <2>1. res.type = "job" /\ res.job # NoJob
    BY <1>2 DEF Reads, Aligned, InWorkerDo
  <2>2. res.job \in 1 .. Len(jobs)
    BY <2>1, Shape DEF Reads, NoJob
  <2> QED
    BY <1>2, <2>1, <2>2 DEF Decodes
<1> QED
  BY <1>1, <1>2

\* And the registry is changed by calls at run time, or grows.
LEMMA Changes ==
    ASSUME SessionAssumption, Reads, Disturbed
    PROVE  calls > 0 \/ Grown
<1>1. deleted => calls > 0
  BY DEF Reads, Table
<1>2. Overwritten => calls > 0
  <2>1. Len(fn) \in Nat /\ Len(Initial) \in Nat
    BY Shaped DEF Reads, SessionAssumption
  <2>2. Overwritten => Len(fn) > Len(Initial)
    BY <2>1 DEF Overwritten
  <2> QED
    BY <2>2 DEF Reads, Table
<1> QED
  BY <1>1, <1>2 DEF Disturbed

\* As long as the stream is read right and jobs decode: a freed object is used
\* or an assertion fails only after a Broadcast at run time allocated a request
\* of its own, a job was refused, a function was deleted or the registry grew;
\* and a job is refused only after a registration at run time took a slot in
\* use, a function was deleted or the registry grew.
THEOREM NoUseAfterFree == Spec => []UndefinedOnlyAfter
<1>1. Reads => UndefinedOnlyAfter
  <2> SUFFICES ASSUME Reads, ~MisreadCause, ~Undecodable
               PROVE  UndefinedOnlyAfter
    BY DEF UndefinedOnlyAfter
  <2>1. proc \in {"abort", "ub"} => Len(req) > 1 \/ refused \/ deleted \/ Grown
    BY SessionAssumption, Failures DEF Undecodable
  <2>2. refused => Disturbed
    BY DEF Reads, Aligned
  <2> QED
    BY <2>1, <2>2 DEF UndefinedOnlyAfter
<1> QED
  BY <1>1, ReadsCorrect, PTL

\* The stream is misread only if a part of a frame arrived in pieces or a body
\* was as long as a header; and without that the worker fails only in a job
\* that does not decode, or once functions were changed at run time or the
\* registry grew.
THEOREM NoMisread == Spec => []MisreadOnlyIf
<1>1. Reads => MisreadOnlyIf
  <2> SUFFICES ASSUME Reads, ~MisreadCause
               PROVE  MisreadOnlyIf
    BY DEF MisreadOnlyIf
  <2>1. /\ rw \notin {"read", "gone"} => AtStart
        /\ InWorkerDo => res.job # NoJob
        /\ rw = "gone" => closed
        /\ refused => Disturbed
    BY DEF Reads, Aligned
  <2>2. proc \in {"abort", "ub"} => Undecodable \/ calls > 0 \/ Grown
    <3>1. Disturbed => calls > 0 \/ Grown
      BY SessionAssumption, Changes
    <3>2. Len(req) > 1 => calls > 0
      BY DEF Reads, Heap
    <3>3. deleted => Disturbed
      BY DEF Disturbed
    <3> QED
      BY SessionAssumption, Failures, <2>1, <3>1, <3>2, <3>3 DEF Undecodable
  <2>3. AlignedReads
    <3> SUFFICES ASSUME rw = "poll", Stream # <<>>
                 PROVE  Head(Stream)[2] = 1
      BY DEF AlignedReads, Stream
    <3>1. Stream[1][2] = 1
      BY <2>1 DEF AtStart
    <3>2. Stream \in Seq(Byte)
      BY SessionAssumption, StreamElems DEF Reads
    <3> QED
      BY <3>1, <3>2
  <2> QED
    BY <2>1, <2>2, <2>3 DEF MisreadOnlyIf
<1> QED
  BY <1>1, ReadsCorrect, PTL

\* No fragments, and no body as long as a header.
Whole == ~Fragmented /\ MinDataSize \notin BodySizes

\* Then, as long as no part has arrived in pieces, nothing makes the worker
\* misread.
LEMMA NoCause ==
    ASSUME SessionAssumption, Whole, Typed, ~split
    PROVE  ~MisreadCause
<1>1. ASSUME NEW j \in 1 .. Len(jobs)
      PROVE  jobs[j].size # MinDataSize
  <2>1. jobs[j] \in Job
    BY Shape, ElementOfSeq
  <2> QED
    BY <2>1 DEF Job, Whole
<1> QED
  BY <1>1 DEF MisreadCause

\* And none arrives in pieces.
LEMMA NotSplit ==
    ASSUME SessionAssumption, Whole, Typed, ~split, [Next]_vars
    PROVE  ~split'
<1>1. CASE Deliver
  <2>1. PICK k \in 1 .. Len(net) :
            (Fragmented \/ EndsPart(net[k])) /\ split' = (split \/ ~EndsPart(net[k]))
    BY <1>1 DEF Deliver
  <2> QED
    BY <2>1 DEF Whole
<1>2. CASE \/ RegisterNext \/ Ready \/ Find \/ Announce \/ Grab \/ Start \/ Join \/ ReadEvent
           \/ ReadDropped \/ ReadHeader \/ ReadBody \/ ReadClosed \/ ReadFailed \/ BadBody
           \/ GetFunc \/ RefuseJob \/ CallFunction \/ CallFreed \/ CopyResult \/ PackResult
           \/ WriteEvent \/ ReplyHead \/ ReplyBody \/ Broadcast \/ BroadcastPack \/ BroadcastHead
           \/ BroadcastBody \/ BroadcastFree \/ ServerReceive \/ SendNotice \/ ServerClose
           \/ BrokenPipe
  <2>1. UNCHANGED split
    BY <1>2 DEF RegisterNext, Ready, Find, Announce, Grab, Start, Join, ReadEvent, ReadDropped,
                ReadHeader, ReadBody, Reading, ReadClosed, ReadFailed, BadBody, GetFunc,
                RefuseJob, CallFunction, CallFreed, CopyResult, PackResult, ReadDone, WriteEvent,
                ReplyHead, ReplyBody, Broadcast, BroadcastPack, BroadcastHead, BroadcastBody,
                BroadcastFree, ServerReceive, SendNotice, ServerClose, BrokenPipe, server
  <2> QED
    BY <2>1
<1>3. ASSUME NEW f \in Funcs, AddFunction(f) \/ DelFunction(f)
      PROVE  UNCHANGED split
  BY <1>3 DEF AddFunction, DelFunction, Call, server
<1>4. ASSUME NEW f \in Funcs, NEW n \in BodySizes, NEW d \in Decodable, SendJob(f, n, d)
      PROVE  UNCHANGED split
  BY <1>4 DEF SendJob
<1>5. CASE UNCHANGED vars
  BY <1>5 DEF vars, server
<1> QED
  BY <1>1, <1>2, <1>3, <1>4, <1>5 DEF Next, Main, ReadWrite, Application, Environment

\* With whole parts and no such body there is never a cause.
THEOREM NeverMisread ==
    ASSUME Whole
    PROVE  Spec => []~MisreadCause
<1> USE SessionAssumption
<1>1. Init => ~split
  BY DEF Init
<1>2. ~split /\ Reads /\ [Next]_vars => ~split'
  BY NotSplit DEF Reads
<1>3. ~split /\ Reads => ~MisreadCause
  BY NoCause DEF Reads
<1> QED
  BY <1>1, <1>2, <1>3, ReadsCorrect, PTL DEF Spec

\* Then the next byte the worker reads is always the first of a frame.
THEOREM StaysAligned ==
    ASSUME Whole
    PROVE  Spec => []AlignedReads
<1>1. MisreadOnlyIf /\ ~MisreadCause => AlignedReads
  BY DEF MisreadOnlyIf
<1> QED
  BY <1>1, NeverMisread, NoMisread, PTL

\* A registry that has room for the first functions does not grow as long as
\* they are the only ones.
LEMMA NotGrown ==
    ASSUME SessionAssumption, Len(Initial) <= MapSize, RuntimeCalls = 0, Typed, Table, ~Grown,
           [Next]_vars
    PROVE  ~Grown'
<1>1. calls \in 0 .. 0
  BY DEF Typed, SessionShape
<1>2. CASE RegisterNext
  <2>1. main = "register" /\ next <= Len(Initial) /\ size' = Larger
    BY <1>2 DEF RegisterNext, Register
  <2>2. ~deleted /\ Len(keys) = Len(fn) /\ next = Len(fn) + 1
    BY <1>1, <2>1 DEF Table, Filled
  <2>3. Len(keys) < size /\ size = MapSize
    <3>1. Len(fn) \in Nat /\ Len(Initial) \in Nat /\ MapSize \in Nat /\ size = MapSize
      BY Shaped DEF SessionAssumption, Grown
    <3> QED
      BY <2>1, <2>2, <3>1
  <2>4. ~(Len(keys) >= size)
    BY <2>3, Shaped DEF SessionAssumption
  <2> QED
    BY <2>1, <2>3, <2>4 DEF Larger, Grown
<1>3. ASSUME NEW f \in Funcs, AddFunction(f) \/ DelFunction(f)
      PROVE  FALSE
  <2>1. calls < RuntimeCalls
    BY <1>3 DEF AddFunction, DelFunction, Call
  <2> QED
    BY <1>1, <2>1
<1>4. CASE \/ Ready \/ Find \/ Announce \/ Grab \/ Start \/ Join
           \/ Broadcast \/ BroadcastPack \/ BroadcastHead \/ BroadcastBody \/ BroadcastFree
           \/ Environment \/ UNCHANGED vars
  <2>1. UNCHANGED size
    BY <1>4 DEF Ready, Find, Announce, Grab, Start, Join,
                Broadcast, BroadcastPack, BroadcastHead, BroadcastBody, BroadcastFree, Environment,
                ServerReceive, SendNotice, Deliver, ServerClose, BrokenPipe, SendJob, appVars, vars
  <2> QED
    BY <2>1 DEF Grown
<1>5. CASE ReadWrite
  <2>1. UNCHANGED size
    BY <1>5 DEF ReadWrite, ReadEvent, ReadDropped, ReadHeader, ReadBody, Reading, ReadClosed,
                ReadFailed, CloseAndExit, CloseAndReturn, BadBody, GetFunc, RefuseJob,
                CallFunction, CallFreed, CopyResult, PackResult, ReadDone, WriteEvent, ReplyHead,
                ReplyBody, appVars
  <2> QED
    BY <2>1 DEF Grown
<1> QED
  BY <1>2, <1>3, <1>4, <1>5 DEF Next, Main, Application

\* So it never grows.
LEMMA NeverGrown ==
    ASSUME Len(Initial) <= MapSize, RuntimeCalls = 0
    PROVE  Spec => []~Grown
<1>1. Init => ~Grown
  BY DEF Init, Grown
<1>2. ~Grown /\ Reads /\ [Next]_vars => ~Grown'
  BY SessionAssumption, NotGrown DEF Reads
<1> QED
  BY <1>1, <1>2, ReadsCorrect, PTL DEF Spec

\* And if the registry has room for the first functions and none is added or
\* deleted at run time, no freed object is used and no assertion fails, except
\* in a job whose parameters do not decode.
THEOREM SafeSession ==
    ASSUME Whole, RuntimeCalls = 0, Len(Initial) <= MapSize
    PROVE  Spec => []NoUndefinedBehaviour
<1>1. Reads /\ ~MisreadCause /\ ~Grown => NoUndefinedBehaviour
  <2> SUFFICES ASSUME Reads, ~MisreadCause, ~Grown, proc \in {"ub", "abort"}
               PROVE  rw = "do" /\ res.job # NoJob /\ ~jobs[res.job].decodes
    BY DEF NoUndefinedBehaviour
  <2>1. calls \in 0 .. 0
    BY DEF Reads, Typed, SessionShape
  <2>2. ~(calls > 0)
    BY <2>1
  <2>3. ~Disturbed
    BY <2>2, SessionAssumption, Changes
  <2>4. ~(Len(req) > 1) /\ ~refused /\ ~deleted
    BY <2>2, <2>3 DEF Reads, Heap, Aligned, Disturbed
  <2>5. rw = "do" /\ res.job \in 1 .. Len(jobs) /\ ~jobs[res.job].decodes
    BY <2>4, SessionAssumption, Failures
  <2>6. res.job # NoJob
    BY <2>5 DEF NoJob
  <2> QED
    BY <2>5, <2>6
<1> QED
  BY <1>1, NeverMisread, NeverGrown, ReadsCorrect, PTL

-----------------------------------------------------------------------------
(* The replies.                                                            *)

\* Jobs are answered in the order of the stream. Served is the job whose
\* result a->Req holds, and Pending says that it is not written yet.
Held == Len(req) = 1 /\ req[1].kind = "ret"
Served == IF Held THEN req[1].arg ELSE 0
Pending == proc = "run" /\ rw \in {"poll", "head", "body"} /\ watch = "WRITE"
Beyond(s, n) == \A k \in 1 .. Len(s) : s[k][1] = NoJob \/ s[k][1] > n
Increasing ==
    \A i, k \in 1 .. Len(wire) :
        i < k /\ IsReply(wire[i]) /\ IsReply(wire[k]) => wire[i].arg < wire[k].arg
Ordered ==
    /\ Served \in 0 .. Len(jobs) /\ Beyond(Stream, Served) /\ (Held => Served > 0)
    /\ InWorkerDo => res.job > Served /\ Beyond(Stream, res.job)
    /\ \A i \in 1 .. Len(wire) : IsReply(wire[i]) =>
           wire[i].arg \in 1 .. Served /\ (Pending => wire[i].arg < Served)
    /\ Increasing

\* A session whose functions stay as they are, with room for all of them, and
\* that has not misread.
Quiet == calls = 0 /\ ~MisreadCause /\ ~Grown
Order == Quiet => Ordered

\* With whole writes and frames that arrive in whole parts, none is left out:
\* each job has been run, is about to be, or has its last byte ahead, unless
\* the thread has ended or waits for the rest of a body it will never take;
\* and each job that was run is answered, the last one as soon as a->Req is
\* written.
Stuck == rw = "gone" \/ Short
Ahead(j) == \E k \in 1 .. Len(Stream) : Stream[k][1] = j /\ Stream[k][2] = Total(j, jobs)
Cover ==
    /\ \A j \in 1 .. Len(jobs) : j <= Served \/ (InWorkerDo /\ j = res.job) \/ Ahead(j) \/ Stuck
    /\ \A j \in 1 .. Served : Answered(j) \/ (j = Served /\ (proc = "run" => Pending))

-----------------------------------------------------------------------------
(* A quiet session.                                                        *)

\* What is the case in one: Start's request is the only one, nobody has
\* changed the functions, and no job was refused.
LEMMA QuietFacts ==
    ASSUME SessionAssumption, Reads, Quiet
    PROVE  /\ app.at = "idle" /\ ~Disturbed /\ ~refused /\ (proc \in {"ub", "abort"} => rw = "do")
           /\ Len(req) = 0 \/ Len(req) = 1
           /\ rw = "none" => Len(req) = 0
           /\ rw # "none" => Len(req) = 1 /\ aReq = 1 /\ req[1] \in Requests
           /\ rw \in {"head", "body"} => wreq = 1 /\ watch = "WRITE" /\ req[1].kind = "ret"
<1>1. Typed /\ Heap /\ Aligned /\ calls = 0 /\ ~MisreadCause /\ ~Grown
  BY DEF Reads, Quiet
<1>2. Len(req) \in Nat
  BY <1>1, Shape
<1>3. ~(calls > 0)
  BY <1>1
<1>4. ~(Len(req) > 1) /\ app.at = "idle" /\ ~Disturbed /\ ~deleted
  <2>1. ~Disturbed
    BY <1>1, <1>3, Changes
  <2> QED
    BY <1>1, <1>3, <2>1 DEF Heap, Disturbed
<1>5. Len(req) = 0 \/ Len(req) = 1
  <2>1. \A n \in Nat : ~(n > 1) => n = 0 \/ n = 1
    OBVIOUS
  <2> QED
    BY <1>2, <1>4, <2>1
<1>6. ~refused
  BY <1>1, <1>4 DEF Aligned
<1>7. proc \in {"ub", "abort"} => rw = "do"
  BY <1>1, <1>4, <1>6, Failures
<1>8. rw = "none" => Len(req) = 0
  BY <1>1 DEF Typed, Ranges
<1>9. rw # "none" => Len(req) = 1 /\ aReq = 1 /\ req[1] \in Requests
  <2>1. rw # "none" => aReq \in 1 .. Len(req)
    BY <1>1, OnlyRequest
  <2>2. rw # "none" => Len(req) = 1
    BY <1>5, <2>1
  <2> QED
    BY <1>1, <2>2, OnlyRequest
<1>10. rw \in {"head", "body"} => wreq = 1 /\ watch = "WRITE" /\ req[1].kind = "ret"
  BY <1>1, <1>9, OnlyRequest DEF Heap
<1> QED
  BY <1>4, <1>5, <1>6, <1>7, <1>8, <1>9, <1>10

\* A call is never taken back.
LEMMA CallsKept ==
    ASSUME SessionAssumption, Typed, [Next]_vars, calls' = 0
    PROVE  calls = 0
<1>1. calls \in Nat
  <2>1. calls \in 0 .. RuntimeCalls
    BY DEF Typed, SessionShape
  <2> QED
    BY <2>1
<1>2. CASE \/ RegisterNext \/ Ready \/ Find \/ Announce \/ Grab \/ Start \/ Join \/ ReadEvent
           \/ ReadDropped \/ ReadHeader \/ ReadBody \/ ReadClosed \/ ReadFailed \/ BadBody
           \/ GetFunc \/ RefuseJob \/ CallFunction \/ CallFreed \/ CopyResult \/ PackResult
           \/ WriteEvent \/ ReplyHead \/ ReplyBody \/ Broadcast \/ BroadcastPack \/ BroadcastHead
           \/ BroadcastBody \/ BroadcastFree \/ ServerReceive \/ SendNotice \/ Deliver
           \/ ServerClose \/ BrokenPipe
  <2>1. UNCHANGED calls
    BY <1>2 DEF RegisterNext, Ready, Find, Announce, Grab, Start, Join, ReadEvent, ReadDropped,
                ReadHeader, ReadBody, Reading, ReadClosed, ReadFailed, BadBody, GetFunc,
                RefuseJob, CallFunction, CallFreed, CopyResult, PackResult, ReadDone, WriteEvent,
                ReplyHead, ReplyBody, Broadcast, BroadcastPack, BroadcastHead, BroadcastBody,
                BroadcastFree, ServerReceive, SendNotice, Deliver, ServerClose, BrokenPipe,
                appVars
  <2> QED
    BY <2>1
<1>3. ASSUME NEW f \in Funcs, AddFunction(f) \/ DelFunction(f)
      PROVE  FALSE
  <2>1. calls' = calls + 1
    BY <1>3 DEF AddFunction, DelFunction, Call
  <2> QED
    BY <1>1, <2>1
<1>4. ASSUME NEW f \in Funcs, NEW n \in BodySizes, NEW d \in Decodable, SendJob(f, n, d)
      PROVE  UNCHANGED calls
  BY <1>4 DEF SendJob, appVars
<1>5. CASE UNCHANGED vars
  BY <1>5 DEF vars, appVars
<1> QED
  BY <1>2, <1>3, <1>4, <1>5 DEF Next, Main, ReadWrite, Application, Environment

\* So a session that is quiet after a step was quiet before it, and the step
\* is not the application's.
LEMMA QuietKept ==
    ASSUME SessionAssumption, Reads, Quiet', [Next]_vars
    PROVE  Quiet /\ (Next => proc = "run" /\ (Main \/ ReadWrite \/ Environment))
<1>1. Typed /\ calls' = 0 /\ ~MisreadCause'
  BY DEF Reads, Quiet
<1>2. calls = 0
  BY <1>1, CallsKept
<1>3. ~MisreadCause /\ ~Grown
  BY <1>1, CauseKept, GrownKept DEF Reads, Quiet
<1>4. Quiet
  BY <1>2, <1>3 DEF Quiet
<1>5. app.at = "idle"
  BY <1>4, QuietFacts
<1>6. ASSUME NEW f \in Funcs, AddFunction(f) \/ DelFunction(f)
      PROVE  FALSE
  <2>1. calls' = calls + 1
    BY <1>6 DEF AddFunction, DelFunction, Call
  <2> QED
    BY <1>1, <1>2, <2>1
<1>7. ~Application
  BY <1>5, <1>6 DEF Application, Broadcast, BroadcastPack, BroadcastHead, BroadcastBody,
                    BroadcastFree
<1> QED
  BY <1>4, <1>7 DEF Next

\* After the step, too, no job was refused, and the worker has failed in no job
\* but one that does not decode.
LEMMA QuietAfter ==
    ASSUME SessionAssumption, Reads, Quiet', [Next]_vars
    PROVE  ~refused' /\ (proc' \in {"ub", "abort"} => rw' = "do")
<1>1. Reads' /\ calls' = 0 /\ ~MisreadCause' /\ ~Grown'
  BY ReadsNext DEF Quiet
<1>2. ~(calls' > 0)
  BY <1>1
<1>3. Aligned' /\ Table'
  BY <1>1 DEF Reads
<1>4. ~deleted'
  BY <1>2, <1>3 DEF Table
<1>5. ~Overwritten'
  <2>1. Len(fn') \in Nat /\ Len(Initial) \in Nat
    BY <1>1 DEF Reads, Typed, RegistryShape, SessionAssumption
  <2>2. Overwritten' => Len(fn') > Len(Initial)
    BY <2>1 DEF Overwritten
  <2> QED
    BY <1>2, <1>3, <2>2 DEF Table
<1>6. ~refused'
  BY <1>1, <1>3, <1>4, <1>5 DEF Aligned, Disturbed
<1>7. Heap'
  BY <1>1 DEF Reads
<1> QED
  BY <1>1, <1>2, <1>4, <1>6, <1>7 DEF Heap

\* The result is put into a->Req without being packed yet: what a->Req says it
\* answers is still the job of the last result.
LEMMA CopyHeld ==
    ASSUME SessionAssumption, Reads, Quiet, CopyResult
    PROVE  Served' = Served /\ Held' = Held
<1>1. Typed /\ rw = "copy"
  BY DEF Reads, CopyResult
<1>2. Len(req) = 1 /\ aReq = 1
  BY <1>1, QuietFacts
<1>3. Len(req') = Len(req) /\ req'[aReq].kind = req[aReq].kind
      /\ (req[aReq].kind = "ret" => req'[aReq].arg = req[aReq].arg)
  BY <1>1, Copies
<1>4. Len(req') = 1 /\ req'[1].kind = req[1].kind /\ (req[1].kind = "ret" => req'[1].arg = req[1].arg)
  BY <1>2, <1>3
<1> QED
  BY <1>2, <1>4 DEF Served, Held

-----------------------------------------------------------------------------
(* No job is answered twice, and no answer overtakes another.              *)

\* A step that leaves the request's result and the thread's job as they are,
\* and writes no reply.
LEMMA OrderSame ==
    ASSUME SessionAssumption, Typed, Ordered, Served' = Served, Held' => Held, Len(jobs) \in Nat, Len(jobs') \in Nat,
           Len(jobs) <= Len(jobs'),
           \A n \in 0 .. Len(jobs) : Beyond(Stream, n) => Beyond(Stream', n),
           InWorkerDo' => InWorkerDo /\ res'.job = res.job,
           Pending' => Pending,
           \A i \in 1 .. Len(wire') : IsReply(wire'[i]) => i \in 1 .. Len(wire) /\ wire'[i] = wire[i]
    PROVE  Ordered'
<1>1. /\ Served \in 0 .. Len(jobs) /\ Beyond(Stream, Served) /\ Served' \in 0 .. Len(jobs')
      /\ Held' => Served' > 0
  BY DEF Ordered
<1>2. Beyond(Stream', Served')
  BY <1>1
<1>3. InWorkerDo' => res'.job > Served' /\ Beyond(Stream', res'.job)
  <2>1. res.job \in 0 .. Len(jobs)
    BY Shape
  <2> QED
    BY <2>1 DEF Ordered
<1>4. \A i \in 1 .. Len(wire') : IsReply(wire'[i]) =>
          wire'[i].arg \in 1 .. Served' /\ (Pending' => wire'[i].arg < Served')
  BY DEF Ordered
<1>5. Increasing'
  BY DEF Ordered, Increasing, IsReply
<1> QED
  BY <1>1, <1>2, <1>3, <1>4, <1>5 DEF Ordered, IsReply

\* What is left of a stream is beyond what all of it is beyond.
LEMMA BeyondRest ==
    ASSUME NEW s \in Seq(Byte), NEW t \in Seq(Byte), NEW c \in 0 .. Len(s), Len(t) = Len(s) - c,
           \A k \in 1 .. Len(s) - c : t[k] = s[c + k], NEW n, Beyond(s, n)
    PROVE  Beyond(t, n)
<1>1. \A k \in 1 .. Len(t) : c + k \in 1 .. Len(s) /\ t[k] = s[c + k]
  <2>1. Len(s) \in Nat /\ c \in Nat
    OBVIOUS
  <2> QED
    BY <2>1
<1> QED
  BY <1>1 DEF Beyond

\* The job of a whole body that is read is ahead of all that follow it.
LEMMA ReadInOrder ==
    ASSUME SessionAssumption, Reads, Ordered, ~MisreadCause, ReadBody
    PROVE  res'.job > Served /\ Beyond(Stream', res'.job)
<1>1. Typed /\ Framed /\ Aligned /\ Reading /\ rw = "read" /\ Count > MinDataSize /\ res.hread
  BY DEF Reads, ReadBody, Reading
<1>2. Count <= res.size /\ res.size \in Nat /\ Count \in Nat /\ MinDataSize \in Nat
  <2>1. Count <= res.size /\ res.size \in Nat /\ Count \in 1 .. Len(inbox) /\ MinDataSize \in Nat
    BY <1>1, ReadLeaves, Shape
  <2> QED
    BY <2>1
<1>3. res.size > MinDataSize
  BY <1>1, <1>2
<1>4. HeadRead /\ AtBody
  BY <1>1, <1>2, <1>3 DEF Aligned, Short
<1> DEFINE j == Stream[1][1]
           M == MinDataSize
<1>5. res'.job = j /\ Count = res.size
  BY <1>1, <1>4, ReadWhole
<1>6. j # NoJob /\ Stream[1][2] = M + 1 /\ Count = jobs[j].size
  BY <1>4, <1>5 DEF AtBody
<1>7. /\ Stream \in Seq(Byte) /\ Len(Stream) \in Nat /\ Count \in 1 .. Len(Stream)
      /\ Stream' \in Seq(Byte) /\ Len(Stream') = Len(Stream) - Count
      /\ \A k \in 1 .. Len(Stream) - Count : Stream'[k] = Stream[Count + k]
  BY <1>1, StreamElems, StreamRead
<1>8. 1 \in 1 .. Len(Stream) /\ j \in Nat
  <2>1. 1 \in 1 .. Len(Stream)
    BY <1>7
  <2> QED
    BY <1>7, <2>1, ByteParts
<1>9. j > Served
  BY <1>6, <1>8 DEF Ordered, Beyond
<1>10. /\ \A k \in 1 .. Len(Stream) :
              Stream[k][1] \in 0 .. Len(jobs) /\ Stream[k][2] \in 1 .. Total(Stream[k][1], jobs)
       /\ \A k \in 1 .. Len(Stream) : \A d \in 0 .. Total(Stream[k][1], jobs) - Stream[k][2] :
              /\ k + d <= Len(Stream) /\ Stream[k + d][1] = Stream[k][1]
              /\ Stream[k + d][2] = Stream[k][2] + d
       /\ \A k, l \in 1 .. Len(Stream) : k < l => Before(Stream[k], Stream[l])
  BY <1>1 DEF Framed, WellFramed
<1>11. Total(j, jobs) = M + Count
  BY <1>6 DEF Total
<1>12. Stream[Count][1] = j /\ Stream[Count][2] = Total(j, jobs)
  <2>1. Count - 1 \in 0 .. Total(j, jobs) - (M + 1) /\ 1 + (Count - 1) = Count
        /\ (M + 1) + (Count - 1) = M + Count
    BY <1>2, <1>7, <1>11
  <2>2. Count - 1 \in 0 .. Total(Stream[1][1], jobs) - Stream[1][2]
    BY <1>6, <2>1
  <2>3. Stream[1 + (Count - 1)][1] = j /\ Stream[1 + (Count - 1)][2] = Stream[1][2] + (Count - 1)
    BY <1>8, <1>10, <2>2
  <2> QED
    BY <1>6, <1>11, <2>1, <2>3
<1>13. ASSUME NEW k \in 1 .. Len(Stream')
       PROVE  Stream'[k][1] = NoJob \/ Stream'[k][1] > j
  <2>1. /\ Count + k \in 1 .. Len(Stream) /\ Count \in 1 .. Len(Stream) /\ Count < Count + k
        /\ Stream'[k] = Stream[Count + k]
    <3>1. k \in 1 .. Len(Stream) - Count /\ Count \in 1 .. Len(Stream) /\ Len(Stream) \in Nat
      BY <1>7
    <3>2. Stream'[k] = Stream[Count + k]
      BY <1>7, <3>1
    <3> QED
      BY <3>1, <3>2
  <2> DEFINE b == Stream[Count + k]
  <2>2. Before(Stream[Count], b)
    BY <1>10, <2>1
  <2>3. b[1] \in Nat /\ b[2] \in 1 .. Total(b[1], jobs)
    BY <1>7, <1>10, <2>1, ByteParts
  <2>4. b[1] = NoJob \/ j < b[1] \/ (b[1] = j /\ Total(j, jobs) < b[2])
    BY <1>6, <1>12, <2>2 DEF Before
  <2>5. ~(b[1] = j /\ Total(j, jobs) < b[2])
    <3>1. M + Count \in Nat
      BY <1>2
    <3> QED
      BY <1>11, <2>3, <3>1
  <2> QED
    BY <1>8, <2>1, <2>3, <2>4, <2>5
<1> QED
  BY <1>5, <1>9, <1>13 DEF Beyond

\* Nor does a frame at the end of it change that.
LEMMA BeyondSent ==
    ASSUME SessionAssumption, Typed, NEW j \in 0 .. MaxJobs, NEW n \in Nat,
           net' = net \o Frame(j, n), inbox' = inbox,
           NEW m \in Nat, j = NoJob \/ j > m, Beyond(Stream, m)
    PROVE  Beyond(Stream', m)
<1> DEFINE l == MinDataSize + n
<1>1. MinDataSize \in Nat
  BY DEF SessionAssumption
<1>2. l \in Nat
  BY <1>1
<1>3. Stream \in Seq(Byte)
  BY StreamElems
<1>4. Extended(Stream, Stream', j, l)
  BY FrameSent
<1> HIDE DEF l
<1>5. Len(Stream) \in Nat
  BY <1>3
<1>6. Len(Stream') = Len(Stream) + l
  BY <1>4 DEF Extended
<1>7. \A k \in 1 .. Len(Stream') : k \in 1 .. Len(Stream) \/ \E i \in 1 .. l : k = Len(Stream) + i
  <2>1. \A k \in 1 .. Len(Stream) + l : k \in 1 .. Len(Stream) \/ \E i \in 1 .. l : k = Len(Stream) + i
    BY <1>2, <1>5, Place
  <2> QED
    BY <1>6, <2>1
<1>8. ASSUME NEW k \in 1 .. Len(Stream')
      PROVE  Stream'[k][1] = NoJob \/ Stream'[k][1] > m
  <2>1. CASE k \in 1 .. Len(Stream)
    BY <2>1, <1>4 DEF Beyond, Extended
  <2>2. CASE \E i \in 1 .. l : k = Len(Stream) + i
    BY <2>2, <1>4 DEF Extended
  <2> QED
    BY <1>7, <2>1, <2>2
<1> QED
  BY <1>8 DEF Beyond

\* A frame of the worker's own is no reply.
LEMMA NoReply ==
    ASSUME SessionAssumption, wire \in Seq(Parts), NEW k \in Kinds \ {"ret"}, NEW x \in Args,
           NEW w \in FrameWritten(k, x)
    PROVE  \A i \in 1 .. Len(w) : IsReply(w[i]) => i \in 1 .. Len(wire) /\ w[i] = wire[i]
<1>1. \A i \in 1 .. Len(w) :
          \/ i \in 1 .. Len(wire) /\ w[i] = wire[i]
          \/ w[i].part = "head" /\ w[i].kind = k
          \/ w[i].part = "body" /\ w[i].kind = k /\ w[i].arg = x
  BY FrameParts
<1> QED
  BY <1>1 DEF IsReply

\* What Work's thread writes is a frame of its own, if anything.
LEMMA MainFrame ==
    ASSUME SessionAssumption, Typed, Announce \/ Grab
    PROVE  wire' = wire \/ \E k \in Kinds \ {"ret"}, x \in Args : wire' \in FrameWritten(k, x)
<1>1. CASE Announce
  <2> DEFINE x == fn[func].name
  <2>1. wire' = wire \/ (Live(func) /\ wire' \in FrameWritten("add", x))
    BY <1>1 DEF Announce
  <2>2. Live(func) => x \in Args
    BY Shaped DEF Live, Args
  <2>3. "add" \in Kinds \ {"ret"}
    BY DEF Kinds
  <2> HIDE DEF x
  <2> QED
    BY <2>1, <2>2, <2>3
<1>2. CASE Grab
  <2>1. NoJob \in Args /\ "grab" \in Kinds \ {"ret"}
    BY Shape DEF Kinds, NoJob
  <2> QED
    BY <1>2, <2>1 DEF Grab
<1> QED
  BY <1>1, <1>2

\* The body of a->Req is the reply that was pending.
LEMMA ReplyInOrder ==
    ASSUME SessionAssumption, Reads, Quiet, Ordered, proc = "run", ReplyBody
    PROVE  /\ Served' = Served /\ Held' = Held /\ ~Pending'
           /\ \A i \in 1 .. Len(wire') : IsReply(wire'[i]) => wire'[i].arg \in 1 .. Served
           /\ Increasing'
<1>1. /\ rw = "body" /\ rw' = "poll" /\ watch' = "READ" /\ WriteBody(wreq) /\ Typed
      /\ jobs' = jobs
  BY DEF ReplyBody, AfterWrite, Reads, server
<1>2. Len(req) = 1 /\ wreq = 1 /\ watch = "WRITE" /\ req[1].kind = "ret" /\ 1 \in 1 .. Len(req)
  BY <1>1, QuietFacts
<1>3. /\ wire \in Seq(Parts) /\ Len(wire) \in Nat /\ Len(req') = 1
      /\ req'[1].kind = "ret" /\ req'[1].arg = req[1].arg
      /\ \E o \in Outcomes : /\ o \in Results /\ Part("body", "ret", req[1].arg) \in Parts
                             /\ wire' = Write(wire, Part("body", "ret", req[1].arg), o)
  <2>1. wire \in Seq(Parts) /\ Len(wire) \in Nat
    BY <1>1, Shape
  <2>2. WriteBody(1) /\ 1 \in 1 .. Len(req)
    BY <1>1, <1>2
  <2>3. /\ Len(req') = Len(req)
        /\ \A x \in 1 .. Len(req) : req'[x].kind = req[x].kind /\ req'[x].arg = req[x].arg
        /\ \E o \in Outcomes : /\ o \in Results /\ Part("body", req[1].kind, req[1].arg) \in Parts
                               /\ wire' = Write(wire, Part("body", req[1].kind, req[1].arg), o)
    BY <1>1, <2>2, BodyWrites
  <2> QED
    BY <1>2, <2>1, <2>3
<1> DEFINE p == Part("body", "ret", req[1].arg)
<1>4. PICK o \in Outcomes : o \in Results /\ p \in Parts /\ wire' = Write(wire, p, o)
  BY <1>3
<1>5. p.arg = Served
  BY <1>2 DEF Part, Served, Held
<1> HIDE DEF p
<1>6. \A i \in 1 .. Len(wire') :
          \/ i \in 1 .. Len(wire) /\ wire'[i] = wire[i]
          \/ i = Len(wire) + 1 /\ wire'[i].arg = Served
  <2>1. \A i \in 1 .. Len(wire') :
            \/ i \in 1 .. Len(wire) /\ wire'[i] = wire[i]
            \/ /\ i = Len(wire) + 1 /\ i = Len(wire') /\ o # "none"
               /\ wire'[i].part = p.part /\ wire'[i].kind = p.kind /\ wire'[i].arg = p.arg
               /\ (wire'[i].whole => o = "full") /\ (o = "full" => wire'[i] = p)
    BY <1>3, <1>4, WrittenParts
  <2> QED
    BY <1>5, <2>1
<1>7. Served' = Served /\ Held' = Held
  BY <1>2, <1>3 DEF Served, Held
<1>8. Pending /\ ~Pending'
  BY <1>1, <1>2 DEF Pending
<1>9. \A i \in 1 .. Len(wire) : IsReply(wire[i]) => wire[i].arg \in 1 .. Served /\ wire[i].arg < Served
  BY <1>8 DEF Ordered
<1>10. Increasing'
  <2> SUFFICES ASSUME NEW i \in 1 .. Len(wire'), NEW k \in 1 .. Len(wire'), i < k,
                      IsReply(wire'[i]), IsReply(wire'[k])
               PROVE  wire'[i].arg < wire'[k].arg
    BY DEF Increasing, IsReply
  <2>1. i \in 1 .. Len(wire) /\ wire'[i] = wire[i]
    <3>1. i # Len(wire) + 1
      <4>1. k \in 1 .. Len(wire) \/ k = Len(wire) + 1
        BY <1>6
      <4> QED
        BY <1>3, <4>1
    <3> QED
      BY <1>6, <3>1
  <2>2. CASE k \in 1 .. Len(wire) /\ wire'[k] = wire[k]
    BY <2>1, <2>2 DEF Ordered, Increasing
  <2>3. CASE k = Len(wire) + 1 /\ wire'[k].arg = Served
    BY <1>9, <2>1, <2>3
  <2> QED
    BY <1>6, <2>2, <2>3
<1>11. \A i \in 1 .. Len(wire') : IsReply(wire'[i]) => wire'[i].arg \in 1 .. Served
  <2> SUFFICES ASSUME NEW i \in 1 .. Len(wire'), IsReply(wire'[i])
               PROVE  wire'[i].arg \in 1 .. Served
    OBVIOUS
  <2>1. Served \in 0 .. Len(jobs) /\ Served > 0
    BY <1>2 DEF Ordered, Held
  <2> QED
    BY <1>6, <1>9, <2>1
<1> QED
  BY <1>7, <1>8, <1>10, <1>11

\* A step of the reader that is no ReadBody takes bytes off the stream and
\* leaves the rest in its order.
LEMMA OrderRead ==
    ASSUME SessionAssumption, Reads, Ordered, ReadDropped \/ ReadHeader
    PROVE  Ordered'
<1>1. /\ Typed /\ Reading /\ UNCHANGED <<req, jobs, wire, proc, watch>>
      /\ rw' \in {"read", "gone"}
  BY DEF Reads, ReadDropped, ReadHeader, Reading, server
<1>2. Served' = Served /\ Held' = Held /\ ~Pending' /\ ~InWorkerDo'
  BY <1>1 DEF Served, Held, Pending, InWorkerDo
<1>3. ASSUME NEW n, Beyond(Stream, n)
      PROVE  Beyond(Stream', n)
  BY <1>1, <1>3, StreamRead, StreamElems, BeyondRest
<1>4. Len(jobs) \in Nat
  BY <1>1, Shape
<1> QED
  BY <1>1, <1>2, <1>3, <1>4, OrderSame

\* A step of another kind, which neither runs a job nor writes a reply.
LEMMA OrderKept ==
    ASSUME SessionAssumption, Typed, Ordered, UNCHANGED <<jobs, wire, inbox, net>>,
           Served' = Served, Held' = Held,
           InWorkerDo' => InWorkerDo /\ res'.job = res.job, Pending' => Pending
    PROVE  Ordered'
<1>1. Stream' = Stream
  BY DEF Stream
<1>2. Len(jobs) \in Nat
  BY Shape
<1> QED
  BY <1>1, <1>2, OrderSame

\* A step that writes something that is no reply, and nothing else.
LEMMA OrderWritten ==
    ASSUME SessionAssumption, Typed, Ordered, jobs' = jobs, Stream' = Stream,
           Served' = Served, Held' = Held,
           InWorkerDo' => InWorkerDo /\ res'.job = res.job, Pending' => Pending,
           \A i \in 1 .. Len(wire') : IsReply(wire'[i]) => i \in 1 .. Len(wire) /\ wire'[i] = wire[i]
    PROVE  Ordered'
<1>1. Len(jobs) \in Nat
  BY Shape
<1> QED
  BY <1>1, OrderSame

\* Every step keeps the order.
LEMMA OrderNext ==
    ASSUME SessionAssumption, Reads, Order, [Next]_vars
    PROVE  Order'
<1> SUFFICES ASSUME Quiet'
             PROVE  Ordered'
  BY DEF Order
<1>1. /\ Quiet /\ Ordered /\ Typed /\ Heap /\ Framed /\ Aligned /\ ~MisreadCause
      /\ Next => proc = "run" /\ (Main \/ ReadWrite \/ Environment)
  BY QuietKept DEF Order, Reads, Quiet
<1>2. ~refused'
  BY QuietAfter
<1>3. /\ wire \in Seq(Parts) /\ Len(wire) \in Nat /\ Len(jobs) \in Nat /\ jobs \in Seq(Job)
      /\ MaxJobs \in Nat
  BY <1>1, Shape
<1>4. CASE UNCHANGED vars
  <2>1. UNCHANGED <<req, jobs, wire, inbox, net, rw, res, watch, proc>>
    BY <1>4 DEF vars, reader, server
  <2>2. Served' = Served /\ Held' = Held /\ Stream' = Stream /\ Pending' = Pending
    BY <2>1 DEF Served, Held, Stream, Pending
  <2>3. InWorkerDo' = InWorkerDo
    BY <2>1 DEF InWorkerDo
  <2> QED
    BY <1>1, <1>3, <2>1, <2>2, <2>3, OrderSame
<1>21. UNCHANGED req => Served' = Served /\ Held' = Held
  BY DEF Served, Held
<1>5. CASE ReadEvent \/ ReadFailed \/ WriteEvent
  <2>1. UNCHANGED <<req, jobs, wire, inbox, net>> /\ ~InWorkerDo'
    BY <1>5 DEF ReadEvent, ReadFailed, CloseAndReturn, WriteEvent, reader, server, InWorkerDo
  <2>2. Pending' => Pending
    BY <1>5 DEF ReadEvent, ReadFailed, CloseAndReturn, WriteEvent, AfterWrite, Pending, reader
  <2> QED
    BY <1>1, <1>21, <2>1, <2>2, OrderKept
<1>6. CASE ReadClosed
  <2>1. UNCHANGED <<req, jobs, wire, inbox, net>> /\ rw' \in {"read", "gone"}
    BY <1>6 DEF ReadClosed, CloseAndExit, server
  <2>2. ~Pending' /\ ~InWorkerDo'
    BY <2>1 DEF Pending, InWorkerDo
  <2> QED
    BY <1>1, <1>21, <2>1, <2>2, OrderKept
<1>20. CASE \/ RegisterNext \/ Ready \/ Find \/ Join \/ ServerReceive \/ ServerClose \/ BrokenPipe
            \/ BadBody \/ CallFreed
  <2>1. UNCHANGED <<req, jobs, wire, inbox, net, rw, res, watch>>
    BY <1>20 DEF RegisterNext, Ready, Find, Join, ServerReceive, ServerClose, BrokenPipe, BadBody,
         CallFreed, reader, server
  <2>2. proc' = "run" => proc = "run"
    BY <1>20 DEF RegisterNext, Ready, Find, Join, ServerReceive, ServerClose, BrokenPipe, BadBody,
         CallFreed
  <2>3. (Pending' => Pending) /\ (InWorkerDo' => InWorkerDo)
    BY <2>1, <2>2 DEF Pending, InWorkerDo
  <2> QED
    BY <1>1, <1>21, <2>1, <2>3, OrderKept
<1>22. CASE GetFunc \/ CallFunction \/ CopyResult
  <2>1. /\ rw \in {"do", "call", "copy"} /\ rw' \in {"call", "copy", "pack"}
        /\ UNCHANGED <<res, jobs, wire, inbox, net>>
    BY <1>22 DEF GetFunc, CallFunction, CopyResult, server
  <2>2. ~Pending' /\ InWorkerDo
    BY <2>1 DEF Pending, InWorkerDo
  <2>3. Served' = Served /\ Held' = Held
    <3>1. CASE CopyResult
      BY <1>1, <3>1, CopyHeld
    <3>2. CASE GetFunc \/ CallFunction
      BY <1>21, <3>2 DEF GetFunc, CallFunction
    <3> QED
      BY <1>22, <3>1, <3>2
  <2> QED
    BY <1>1, <2>1, <2>2, <2>3, OrderKept
<1>7. CASE Announce \/ Grab
  <2>1. UNCHANGED <<req, jobs, inbox, net, rw, res, watch>>
    BY <1>7 DEF Announce, Grab, reader, server
  <2>2. Served' = Served /\ Held' = Held /\ Stream' = Stream
    BY <2>1 DEF Served, Held, Stream
  <2>3. (Pending' => Pending) /\ (InWorkerDo' => InWorkerDo)
    <3>1. rw' = rw /\ rw = "none"
      BY <1>1, <1>7, <2>1 DEF Announce, Grab, Typed, Ranges
    <3> QED
      BY <3>1 DEF Pending, InWorkerDo
  <2>4. wire' = wire \/ \E k \in Kinds \ {"ret"}, x \in Args : wire' \in FrameWritten(k, x)
    BY <1>1, <1>7, MainFrame
  <2>5. \A i \in 1 .. Len(wire') : IsReply(wire'[i]) => i \in 1 .. Len(wire) /\ wire'[i] = wire[i]
    BY <1>3, <2>4, NoReply
  <2>6. jobs' = jobs /\ (InWorkerDo' => InWorkerDo /\ res'.job = res.job)
    BY <2>1, <2>3
  <2> QED
    BY <1>1, <2>2, <2>3, <2>5, <2>6, OrderWritten
<1>8. CASE Start
  <2>1. /\ req' = Append(req, NewRequest) /\ rw' = "poll" /\ watch' = "READ" /\ main = "start"
        /\ UNCHANGED <<jobs, inbox, net, wire>>
    BY <1>8 DEF Start, server
  <2>2. NewRequest \in Requests /\ NewRequest.kind = "none" /\ req \in Seq(Requests)
    BY <1>1, Shape DEF NewRequest, Requests, Kinds
  <2>3. Len(req) \in Nat /\ Len(req') = Len(req) + 1 /\ req'[Len(req) + 1] = NewRequest
    BY <2>1, <2>2, AppendProperties
  <2>4. Len(req) = 0
    <3>1. Len(req) = 0 \/ Len(req) = 1
      BY <1>1, QuietFacts
    <3>2. rw = "none" \/ main # "start"
      BY <1>1 DEF Typed, Ranges
    <3> QED
      BY <1>1, <2>1, <3>2, QuietFacts
  <2>5. ~Held /\ ~Held' /\ Served = 0 /\ Served' = 0 /\ ~Pending' /\ Stream' = Stream
    BY <2>1, <2>2, <2>3, <2>4 DEF Held, Served, Pending, Stream
  <2>6. Served' = Served /\ (Held' => Held) /\ ~InWorkerDo'
    BY <2>1, <2>5 DEF InWorkerDo
  <2> QED
    BY <1>1, <1>3, <2>1, <2>5, <2>6, OrderSame
<1>9. CASE ReadDropped \/ ReadHeader
  BY <1>1, <1>9, OrderRead
<1>10. CASE ReadBody
  <2>1. Reading /\ rw' = "do" /\ rw = "read" /\ UNCHANGED <<req, jobs, wire>>
    BY <1>10 DEF ReadBody, Reading, server
  <2>2. Served' = Served /\ Held' = Held /\ ~Pending'
    BY <2>1 DEF Served, Held, Pending
  <2>3. Beyond(Stream, Served) => Beyond(Stream', Served)
    BY <1>1, <2>1, StreamRead, StreamElems, BeyondRest
  <2>4. res'.job > Served /\ Beyond(Stream', res'.job)
    BY <1>1, <1>10, ReadInOrder
  <2> QED
    BY <2>1, <2>2, <2>3, <2>4, <1>1 DEF Ordered, Increasing, IsReply
<1>11. CASE PackResult
  <2>1. rw = "pack" /\ rw' = "poll" /\ UNCHANGED <<jobs, wire, inbox, net>>
    BY <1>11 DEF PackResult, ReadDone, server
  <2>8. InWorkerDo /\ ~InWorkerDo'
    BY <2>1 DEF InWorkerDo
  <2>2. Len(req) = 1 /\ aReq = 1
    BY <1>1, <2>1, QuietFacts
  <2>3. Len(req') = 1 /\ req'[1].kind = "ret" /\ req'[1].arg = res.job
    <3>1. Len(req') = Len(req) /\ req'[aReq].kind = "ret" /\ req'[aReq].arg = res.job
      BY <1>1, <1>11, Packs
    <3> QED
      BY <2>2, <3>1
  <2>4. Held' /\ Served' = res.job /\ Stream' = Stream
    BY <2>1, <2>3 DEF Held, Served, Stream
  <2>5. res.job > Served /\ Beyond(Stream, res.job) /\ Served \in 0 .. Len(jobs) /\ res.job \in 0 .. Len(jobs)
    BY <1>1, <2>8, Shape DEF Ordered
  <2>6. Served' > 0 /\ Served' \in 0 .. Len(jobs')
    BY <1>3, <2>1, <2>4, <2>5
  <2>7. \A i \in 1 .. Len(wire) : IsReply(wire[i]) => wire[i].arg \in 1 .. res.job /\ wire[i].arg < res.job
    <3> SUFFICES ASSUME NEW i \in 1 .. Len(wire), IsReply(wire[i])
                 PROVE  wire[i].arg \in 1 .. res.job /\ wire[i].arg < res.job
      OBVIOUS
    <3>1. wire[i].arg \in 1 .. Served
      BY <1>1 DEF Ordered
    <3> QED
      BY <2>5, <3>1
  <2> QED
    BY <1>1, <2>1, <2>4, <2>5, <2>6, <2>7, <2>8 DEF Ordered, Increasing, IsReply
<1>12. ~RefuseJob
  BY <1>2 DEF RefuseJob
<1>13. CASE ReplyHead
  <2>1. /\ rw = "head" /\ rw' = "body" /\ WriteHead(wreq)
        /\ UNCHANGED <<jobs, inbox, net, watch>>
    BY <1>13 DEF ReplyHead, server
  <2>2. Len(req) = 1 /\ wreq = 1 /\ 1 \in 1 .. Len(req)
    BY <1>1, <2>1, QuietFacts
  <2>3. /\ req' = req /\ proc' \in {proc, "ub"}
        /\ \E o \in Outcomes : /\ o \in Results /\ Part("head", req[1].kind, 0) \in Parts
                               /\ wire' = Write(wire, Part("head", req[1].kind, 0), o)
    BY <1>1, <2>1, <2>2, HeadWrites
  <2>4. Part("head", req[1].kind, 0).part = "head"
    BY DEF Part
  <2>5. \A i \in 1 .. Len(wire') : IsReply(wire'[i]) => i \in 1 .. Len(wire) /\ wire'[i] = wire[i]
    <3>1. \A i \in 1 .. Len(wire') : (i \in 1 .. Len(wire) /\ wire'[i] = wire[i]) \/ wire'[i].part = "head"
      BY <1>3, <2>3, <2>4, WrittenParts
    <3> QED
      BY <3>1 DEF IsReply
  <2>6. Served' = Served /\ Held' = Held /\ Stream' = Stream
    BY <2>1, <2>3 DEF Served, Held, Stream
  <2>7. (Pending' => Pending) /\ ~InWorkerDo'
    BY <2>1, <2>3, <1>1 DEF Pending, InWorkerDo
  <2> QED
    BY <1>1, <1>3, <2>1, <2>5, <2>6, <2>7, OrderSame
<1>14. ASSUME proc = "run", ReplyBody
       PROVE  Ordered'
  <2>1. Served' = Served /\ Held' = Held /\ ~Pending' /\ Increasing'
        /\ \A i \in 1 .. Len(wire') : IsReply(wire'[i]) => wire'[i].arg \in 1 .. Served
    BY <1>1, <1>14, ReplyInOrder
  <2>2. rw' = "poll" /\ UNCHANGED <<jobs, inbox, net>>
    BY <1>14 DEF ReplyBody, server
  <2>3. Stream' = Stream /\ ~InWorkerDo'
    BY <2>2 DEF Stream, InWorkerDo
  <2> QED
    BY <1>1, <2>1, <2>2, <2>3 DEF Ordered, IsReply
<1>15. ASSUME NEW j \in 0 .. MaxJobs, NEW n \in Nat, net' = net \o Frame(j, n), inbox' = inbox,
              UNCHANGED <<req, rw, res, watch, proc, wire>>, Len(jobs') \in Nat, Len(jobs) <= Len(jobs'),
              j = NoJob \/ j > Len(jobs)
       PROVE  Ordered'
  <2>1. Served' = Served /\ Held' = Held /\ Pending' = Pending
    BY <1>15 DEF Served, Held, Pending
  <2>3. InWorkerDo' = InWorkerDo
    BY <1>15 DEF InWorkerDo
  <2>2. ASSUME NEW m \in 0 .. Len(jobs), Beyond(Stream, m)
        PROVE  Beyond(Stream', m)
    <3>1. m \in Nat /\ (j = NoJob \/ j > m)
      BY <1>3, <1>15
    <3> QED
      BY <1>1, <1>15, <2>2, <3>1, BeyondSent
  <2> QED
    BY <1>1, <1>3, <1>15, <2>1, <2>2, <2>3, OrderSame
<1>16. ASSUME NEW f \in Funcs, NEW n \in BodySizes, NEW d \in Decodable, SendJob(f, n, d)
       PROVE  Ordered'
  <2>1. /\ jobs' = Append(jobs, [func |-> f, size |-> n, decodes |-> d]) /\ Len(jobs) < MaxJobs
        /\ net' = net \o Frame(Len(jobs) + 1, n)
        /\ UNCHANGED <<req, rw, res, watch, proc, wire, inbox>>
    BY <1>16 DEF SendJob, reader
  <2>2. [func |-> f, size |-> n, decodes |-> d] \in Job
    BY DEF Job, SessionAssumption
  <2>3. Len(jobs') = Len(jobs) + 1
    BY <1>3, <2>1, <2>2, AppendProperties
  <2>4. Len(jobs) + 1 \in 0 .. MaxJobs /\ Len(jobs) + 1 > Len(jobs)
    BY <1>3, <2>1
  <2>5. n \in Nat
    BY DEF SessionAssumption
  <2>6. Len(jobs') \in Nat /\ Len(jobs) <= Len(jobs')
    BY <1>3, <2>3
  <2> QED
    BY <1>15, <2>1, <2>4, <2>5, <2>6
<1>17. CASE SendNotice
  <2>1. /\ net' = net \o Frame(NoJob, 0)
        /\ UNCHANGED <<req, rw, res, watch, proc, wire, inbox, jobs>>
    BY <1>17 DEF SendNotice, reader
  <2>2. NoJob \in 0 .. MaxJobs /\ 0 \in Nat /\ Len(jobs) <= Len(jobs)
    BY <1>3 DEF NoJob
  <2> QED
    BY <1>3, <1>15, <2>1, <2>2
<1>18. CASE Deliver
  <2>1. UNCHANGED <<req, jobs, wire, rw, res, watch, proc>>
    BY <1>18 DEF Deliver, reader
  <2>2. PICK k \in 1 .. Len(net) : inbox' = inbox \o SubSeq(net, 1, k) /\ net' = SubSeq(net, k + 1, Len(net))
    BY <1>18 DEF Deliver
  <2>3. Stream' = Stream
    BY <1>1, <2>2, StreamDelivered
  <2>4. Served' = Served /\ Held' = Held /\ Pending' = Pending /\ InWorkerDo' = InWorkerDo
    BY <2>1 DEF Served, Held, Pending, InWorkerDo
  <2> QED
    BY <1>1, <1>3, <2>1, <2>3, <2>4, OrderSame
<1> QED
  BY <1>1, <1>4, <1>5, <1>6, <1>7, <1>8, <1>9, <1>10, <1>11, <1>12, <1>13, <1>14, <1>16, <1>17,
     <1>18, <1>20, <1>22 DEF Main, ReadWrite, Environment

\* A new session has answered nothing.
LEMMA OrderInit == SessionAssumption /\ Init => Order
<1> SUFFICES ASSUME SessionAssumption, Init
             PROVE  Ordered
  BY DEF Order
<1>1. /\ req = <<>> /\ jobs = <<>> /\ wire = <<>> /\ inbox = <<>> /\ net = <<>> /\ rw = "none"
  BY DEF Init
<1>2. Len(req) = 0 /\ Len(jobs) = 0 /\ Len(wire) = 0 /\ Len(Stream) = 0
  BY <1>1 DEF Stream
<1>3. ~Held /\ Served = 0
  BY <1>2 DEF Held, Served
<1> QED
  BY <1>1, <1>2, <1>3 DEF Ordered, Beyond, Increasing, InWorkerDo

\* The replies on the stream are in the order of the jobs, and behind the job
\* whose result a->Req holds.
THEOREM OrderCorrect == Spec => []Order
<1>1. Init => Order
  BY SessionAssumption, OrderInit
<1>2. Reads /\ Order /\ [Next]_vars => Order'
  BY SessionAssumption, OrderNext
<1> QED
  BY <1>1, <1>2, ReadsCorrect, PTL DEF Spec

\* For any constants: a job is answered at most once, and in the order in which
\* the jobs came, whatever the outcome of each write.
THEOREM AnswersInOrder == Spec => []NoDuplicateReply
<1>1. Reads /\ Order => NoDuplicateReply
  <2> SUFFICES ASSUME Reads, Order, ~MisreadCause, ~(calls > 0), ~Grown
               PROVE  NoDuplicateReply
    BY DEF NoDuplicateReply
  <2>1. calls = 0
    <3>1. calls \in 0 .. RuntimeCalls /\ RuntimeCalls \in Nat
      BY SessionAssumption, Shape DEF Reads, Typed, SessionShape
    <3> QED
      BY <3>1
  <2>2. Increasing
    BY <2>1 DEF Order, Ordered, Quiet
  <2> QED
    BY <2>2 DEF Increasing, NoDuplicateReply
<1> QED
  BY <1>1, ReadsCorrect, OrderCorrect, PTL

-----------------------------------------------------------------------------
(* No job is left out.                                                     *)

\* A reply that has been written stays.
LEMMA AnsweredKept ==
    ASSUME wire \in Seq(Parts), NEW j, Answered(j), Len(wire') \in Nat, Len(wire) <= Len(wire'),
           \A i \in 1 .. Len(wire) : wire'[i] = wire[i]
    PROVE  Answered(j)'
<1>1. PICK i \in 1 .. Len(wire) : IsReply(wire[i]) /\ wire[i].arg = j
  BY DEF Answered
<1>2. i \in 1 .. Len(wire') /\ wire'[i] = wire[i]
  BY <1>1
<1> QED
  BY <1>1, <1>2 DEF Answered, IsReply

\* A step that takes nothing off the stream, leaves the request's result and
\* the thread's job as they are, and does not miss the reply.
LEMMA CoverSame ==
    ASSUME SessionAssumption, Typed, Cover, Served' = Served, Longer(jobs, jobs'),
           Len(wire') \in Nat, Len(wire) <= Len(wire'), \A i \in 1 .. Len(wire) : wire'[i] = wire[i],
           \A j \in 1 .. Len(jobs') : j \in 1 .. Len(jobs) \/ Ahead(j)',
           \A j \in 1 .. Len(jobs) :
               Ahead(j) => Ahead(j)' \/ (InWorkerDo' /\ j = res'.job) \/ Stuck',
           InWorkerDo => InWorkerDo' /\ res'.job = res.job, Stuck => Stuck',
           proc' = "run" => proc = "run" /\ (Pending /\ Held => Pending')
    PROVE  Cover'
<1>1. \A j \in 1 .. Len(jobs') :
          j <= Served' \/ (InWorkerDo' /\ j = res'.job) \/ Ahead(j)' \/ Stuck'
  BY DEF Cover
<1>2. wire \in Seq(Parts)
  BY Shape
<1>3. ASSUME NEW j \in 1 .. Served'
      PROVE  Answered(j)' \/ (j = Served' /\ (proc' = "run" => Pending'))
  <2>1. Answered(j) \/ (j = Served /\ (proc = "run" => Pending))
    BY <1>3 DEF Cover
  <2>2. Answered(j) => Answered(j)'
    BY <1>2, AnsweredKept
  <2>3. Held
    BY <1>3 DEF Served
  <2> QED
    BY <2>1, <2>2, <2>3
<1> QED
  BY <1>1, <1>3 DEF Cover

\* The stream's bytes stay ahead while they stay in it.
LEMMA AheadKept ==
    ASSUME SessionAssumption, Typed, NEW j \in 1 .. Len(jobs), Longer(jobs, jobs'), Ahead(j),
           NEW c \in Nat, Len(Stream') \in Nat, Len(Stream) \in Nat,
           Len(Stream') + c >= Len(Stream),
           \A k \in 1 .. Len(Stream) : k > c => Stream'[k - c] = Stream[k],
           \A k \in 1 .. c : ~(Stream[k][1] = j /\ Stream[k][2] = Total(j, jobs))
    PROVE  Ahead(j)'
<1>1. PICK k \in 1 .. Len(Stream) : Stream[k][1] = j /\ Stream[k][2] = Total(j, jobs)
  BY DEF Ahead
<1>2. ~(k \in 1 .. c)
  BY <1>1
<1>3. k > c /\ k - c \in 1 .. Len(Stream')
  BY <1>2
<1>4. Stream'[k - c] = Stream[k]
  BY <1>3
<1>5. jobs'[j] = jobs[j]
  BY DEF Longer
<1>6. Total(j, jobs)' = Total(j, jobs)
  BY <1>5 DEF Total
<1> QED
  BY <1>1, <1>3, <1>4, <1>6 DEF Ahead

\* A thread that is stuck stays so.
LEMMA StuckKept ==
    ASSUME SessionAssumption, Typed, Stuck, Main \/ ReadWrite \/ Environment
    PROVE  Stuck'
<1>1. UNCHANGED <<rw, res>> => Stuck'
  BY DEF Stuck, Short, HeadRead
<1>2. rw \in {"gone", "read"}
  BY DEF Stuck, Short
<1>3. CASE \/ RegisterNext \/ Ready \/ Find \/ Announce \/ Grab \/ Join \/ ServerReceive
           \/ SendNotice \/ Deliver \/ ServerClose \/ BrokenPipe
  <2>1. UNCHANGED <<rw, res>>
    BY <1>3 DEF RegisterNext, Ready, Find, Announce, Grab, Join, ServerReceive, SendNotice,
                Deliver, ServerClose, BrokenPipe, reader
  <2> QED
    BY <1>1, <2>1
<1>4. ASSUME NEW f \in Funcs, NEW n \in BodySizes, NEW d \in Decodable, SendJob(f, n, d)
      PROVE  Stuck'
  BY <1>1, <1>4 DEF SendJob, reader
<1>5. ~Start
  BY <1>2 DEF Start, Typed, Ranges
<1>6. CASE ReadDropped \/ ReadHeader \/ ReadBody
  <2>1. Reading /\ rw = "read"
    BY <1>6 DEF ReadDropped, ReadHeader, ReadBody, Reading
  <2>2. HeadRead /\ res.size < MinDataSize
    BY <2>1 DEF Stuck, Short
  <2>3. Count \in 1 .. Len(inbox) /\ Count <= res.size /\ res.size \in Nat /\ MinDataSize \in Nat
    BY <2>1, ReadLeaves, Shape
  <2>4. Count < MinDataSize
    BY <2>2, <2>3
  <2>5. Count # MinDataSize /\ ~(Count > MinDataSize)
    BY <2>3, <2>4
  <2>6. ReadDropped
    BY <1>6, <2>5 DEF ReadHeader, ReadBody
  <2> QED
    BY <1>1, <2>6 DEF ReadDropped
<1>7. CASE ReadClosed \/ ReadFailed
  <2>1. UNCHANGED <<rw, res>> \/ rw' = "gone"
    BY <1>7 DEF ReadClosed, ReadFailed, CloseAndExit, CloseAndReturn
  <2> QED
    BY <1>1, <2>1 DEF Stuck
<1>8. /\ ~ReadEvent /\ ~BadBody /\ ~GetFunc /\ ~RefuseJob /\ ~CallFunction /\ ~CallFreed
      /\ ~CopyResult /\ ~PackResult /\ ~WriteEvent /\ ~ReplyHead /\ ~ReplyBody
  BY <1>2 DEF ReadEvent, BadBody, GetFunc, RefuseJob, NotFound, OtherName, CallFunction, CallFreed,
              CopyResult, PackResult, WriteEvent, ReplyHead, ReplyBody
<1> QED
  BY <1>3, <1>4, <1>5, <1>6, <1>7, <1>8 DEF Main, ReadWrite, Environment

\* No step of the reader takes the end of a job's frame off the stream, except
\* the one that makes it the thread's job.
LEMMA CoverRead ==
    ASSUME SessionAssumption, Reads, Quiet, Cover, Ordered, ReadDropped \/ ReadHeader \/ ReadBody
    PROVE  \A j \in 1 .. Len(jobs) : Ahead(j) => Ahead(j)' \/ (InWorkerDo' /\ j = res'.job) \/ Stuck'
<1>1. Typed /\ Framed /\ Aligned /\ Reading /\ ~MisreadCause /\ jobs' = jobs /\ rw = "read"
  BY DEF Reads, ReadDropped, ReadHeader, ReadBody, Reading, server, Quiet
<1>2. /\ Stream \in Seq(Byte) /\ Len(Stream) \in Nat /\ Count \in 1 .. Len(Stream)
      /\ Stream' \in Seq(Byte) /\ Len(Stream') = Len(Stream) - Count
      /\ \A k \in 1 .. Len(Stream) - Count : Stream'[k] = Stream[Count + k]
  BY <1>1, StreamElems, StreamRead
<1>3. /\ Count \in Nat /\ Len(Stream') \in Nat /\ Len(Stream') + Count >= Len(Stream)
      /\ \A k \in 1 .. Len(Stream) : k > Count => Stream'[k - Count] = Stream[k]
  <2>1. \A k \in 1 .. Len(Stream) : k > Count => k - Count \in 1 .. Len(Stream) - Count /\ Count + (k - Count) = k
    BY <1>2
  <2> QED
    BY <1>2, <2>1
<1>4. Longer(jobs, jobs')
  BY <1>1, Shape DEF Longer
<1>5. ASSUME NEW j \in 1 .. Len(jobs), Ahead(j),
             \A k \in 1 .. Count : ~(Stream[k][1] = j /\ Stream[k][2] = Total(j, jobs))
      PROVE  Ahead(j)'
  BY <1>1, <1>2, <1>3, <1>4, <1>5, AheadKept
<1>6. CASE Short
  <2>1. Stuck'
    <3>1. ReadWrite
      BY DEF ReadWrite
    <3> QED
      BY <1>1, <1>6, <3>1, StuckKept DEF Stuck
  <2> QED
    BY <2>1
<1>7. CASE ~Short /\ HeadRead
  <2>1. AtBody
    BY <1>1, <1>7 DEF Aligned
  <2>2. rw' = "do" /\ res'.job = Stream[1][1] /\ Count = res.size
    BY <1>1, <1>7, <2>1, ReadWhole
  <2> DEFINE b == Stream[1][1]
  <2>3. \A k \in 1 .. Count : Stream[k][1] = b
    <3>1. PICK j \in 0 .. Len(jobs), n \in Nat, i \in Nat :
              /\ n = Total(j, jobs) /\ i >= 1 /\ n >= i /\ Stream[1][1] = j /\ Stream[1][2] = i
              /\ Len(Stream) >= n - i + 1
              /\ \A d \in 0 .. n - i : Stream[1 + d][1] = j /\ Stream[1 + d][2] = i + d
              /\ Len(Stream) > n - i + 1 => Stream[(n - i + 1) + 1][2] = 1
      BY <1>1, <2>1, FirstFrame DEF AtBody
    <3>2. j # NoJob /\ i = MinDataSize + 1 /\ Count = jobs[j].size
      BY <2>1, <2>2, <3>1 DEF AtBody
    <3>3. n = MinDataSize + Count /\ MinDataSize \in Nat
      BY <1>1, <3>1, <3>2, Shape DEF Total
    <3>4. \A k \in 1 .. Count : k - 1 \in 0 .. n - i /\ 1 + (k - 1) = k
      <4>a. \A m, c \in Nat : (m + c) - (m + 1) = c - 1
        OBVIOUS
      <4>b. Count \in Nat
        BY <1>3
      <4>1. n - i = Count - 1
        BY <3>2, <3>3, <4>a, <4>b
      <4>2. \A k \in 1 .. Count : k - 1 \in 0 .. Count - 1 /\ 1 + (k - 1) = k
        BY <1>3
      <4> QED
        BY <4>1, <4>2
    <3> QED
      BY <3>1, <3>4
  <2>4. ASSUME NEW j \in 1 .. Len(jobs), Ahead(j), j # b
        PROVE  Ahead(j)'
    BY <1>5, <2>3, <2>4
  <2> QED
    BY <2>2, <2>4 DEF InWorkerDo
<1>8. CASE ~Short /\ ~HeadRead
  <2>1. AtStart /\ res.size = MinDataSize
    BY <1>1, <1>8 DEF Aligned
  <2>2. Count <= MinDataSize /\ MinDataSize \in Nat
    BY <1>1, <2>1, ReadLeaves, Shape
  <2>3. Stream # <<>>
    BY <1>2
  <2>4. \A k \in 1 .. Count : Stream[k][2] = k
    <3>1. PICK j \in 0 .. Len(jobs), n \in Nat, i \in Nat :
              /\ n = Total(j, jobs) /\ i >= 1 /\ n >= i /\ Stream[1][1] = j /\ Stream[1][2] = i
              /\ Len(Stream) >= n - i + 1
              /\ \A d \in 0 .. n - i : Stream[1 + d][1] = j /\ Stream[1 + d][2] = i + d
              /\ Len(Stream) > n - i + 1 => Stream[(n - i + 1) + 1][2] = 1
      BY <1>1, <2>3, FirstFrame
    <3>2. i = 1
      BY <2>1, <2>3, <3>1 DEF AtStart
    <3>3. n >= MinDataSize
      BY <1>1, <3>1, Shape, TotalSize DEF Job
    <3>4. \A k \in 1 .. Count : k - 1 \in 0 .. n - i /\ 1 + (k - 1) = k
      BY <1>3, <2>2, <3>2, <3>3
    <3> QED
      BY <3>1, <3>2, <3>4
  <2>5. ASSUME NEW j \in 1 .. Len(jobs), Ahead(j)
        PROVE  Ahead(j)'
    <3>1. Total(j, jobs) \in Nat /\ Total(j, jobs) > MinDataSize
      <4>1. j \in 0 .. Len(jobs) /\ j # NoJob /\ jobs \in Seq(Job)
        BY <1>1, Shape DEF NoJob
      <4> QED
        BY <4>1, TotalSize
    <3>2. ASSUME NEW k \in 1 .. Count
          PROVE  Stream[k][2] # Total(j, jobs)
      <4>1. Stream[k][2] = k
        BY <2>4
      <4>2. k <= Count /\ k \in Nat /\ Count \in Nat
        BY <1>3
      <4>3. k # Total(j, jobs)
        <5> HIDE DEF Count
        <5> QED
          BY <2>2, <3>1, <4>2
      <4> QED
        BY <4>1, <4>3
    <3> QED
      BY <1>5, <2>5, <3>2
  <2> QED
    BY <2>5
<1> QED
  BY <1>6, <1>7, <1>8

\* A frame that is sent has its last byte ahead, and those before it keep theirs.
LEMMA CoverSent ==
    ASSUME SessionAssumption, Typed, NEW j \in 0 .. MaxJobs, NEW n \in Nat,
           net' = net \o Frame(j, n), inbox' = inbox, Longer(jobs, jobs'),
           Total(j, jobs)' = MinDataSize + n
    PROVE  Ahead(j)' /\ \A i \in 1 .. Len(jobs) : Ahead(i) => Ahead(i)'
<1> DEFINE m == MinDataSize + n
<1>1. MinDataSize \in Nat /\ MinDataSize >= 1 /\ Len(jobs) \in Nat
  BY Shape
<1>2. m \in Nat /\ m \in 1 .. m
  BY <1>1
<1>3. Stream \in Seq(Byte)
  BY StreamElems
<1>4. Extended(Stream, Stream', j, m)
  BY FrameSent
<1>5. Total(j, jobs)' = m
  OBVIOUS
<1> HIDE DEF m
<1>6. Len(Stream) \in Nat
  BY <1>3
<1>7. Len(Stream') = Len(Stream) + m
  BY <1>4 DEF Extended
<1>8. Len(Stream) + m \in 1 .. Len(Stream') /\ Len(Stream') \in Nat
  BY <1>2, <1>6, <1>7
<1>9. Ahead(j)'
  <2>1. Stream'[Len(Stream) + m][1] = j /\ Stream'[Len(Stream) + m][2] = m
    BY <1>2, <1>4 DEF Extended
  <2> QED
    BY <1>5, <1>8, <2>1 DEF Ahead
<1>10. ASSUME NEW i \in 1 .. Len(jobs), Ahead(i)
       PROVE  Ahead(i)'
  <2>1. PICK k \in 1 .. Len(Stream) : Stream[k][1] = i /\ Stream[k][2] = Total(i, jobs)
    BY <1>10 DEF Ahead
  <2>2. k \in 1 .. Len(Stream') /\ Stream'[k] = Stream[k]
    BY <1>2, <1>4, <1>6, <1>7 DEF Extended
  <2>3. Total(i, jobs)' = Total(i, jobs)
    BY DEF Total, Longer
  <2> QED
    BY <2>1, <2>2, <2>3 DEF Ahead
<1> QED
  BY <1>9, <1>10

\* The job that is run is the next one: those before it have been answered.
LEMMA CoverRun ==
    ASSUME SessionAssumption, Reads, Quiet, Ordered, Cover, proc = "run", PackResult, proc' = "run"
    PROVE  Cover'
<1>1. Typed /\ rw = "pack" /\ rw' = "poll" /\ watch' = "WRITE" /\ UNCHANGED <<jobs, wire, inbox, net>>
  BY DEF Reads, PackResult, ReadDone, AfterRead, server
<1>2. Len(req) = 1 /\ aReq = 1
  BY <1>1, QuietFacts
<1>3. Len(req') = 1 /\ req'[1].kind = "ret" /\ req'[1].arg = res.job
  BY <1>1, <1>2, Packs
<1>4. Served' = res.job /\ Pending' /\ Stream' = Stream
  BY <1>1, <1>3 DEF Held, Served, Stream, Pending
<1>5. /\ res.job > Served /\ Beyond(Stream, res.job) /\ Served \in 0 .. Len(jobs)
      /\ res.job \in 0 .. Len(jobs) /\ Len(jobs) \in Nat /\ ~Stuck /\ ~Pending
  BY <1>1, Shape DEF Ordered, Stuck, Short, Pending, InWorkerDo
<1>6. \A j \in 1 .. Len(jobs) : Ahead(j) => Ahead(j)' /\ j > res.job
  <2> SUFFICES ASSUME NEW j \in 1 .. Len(jobs), Ahead(j)
               PROVE  Ahead(j)' /\ j > res.job
    OBVIOUS
  <2>1. PICK k \in 1 .. Len(Stream) : Stream[k][1] = j /\ Stream[k][2] = Total(j, jobs)
    BY DEF Ahead
  <2>2. Ahead(j)'
    BY <1>1, <1>4, <2>1 DEF Ahead, Total
  <2>3. j # NoJob
    BY DEF NoJob
  <2>4. j > res.job
    BY <1>5, <2>1, <2>3 DEF Beyond
  <2> QED
    BY <2>2, <2>4
<1>7. ASSUME NEW j \in 1 .. Len(jobs')
      PROVE  j <= Served' \/ Ahead(j)'
  <2>1. j \in 1 .. Len(jobs)
    BY <1>1
  <2>2. j <= Served \/ j = res.job \/ Ahead(j)
    BY <1>5, <2>1 DEF Cover
  <2> QED
    BY <1>4, <1>5, <1>6, <2>1, <2>2
<1>8. ASSUME NEW j \in 1 .. Served', j # Served'
      PROVE  Answered(j)'
  <2>1. j \in 1 .. Len(jobs) /\ ~(j > res.job) /\ j # res.job
    BY <1>4, <1>5, <1>8
  <2>2. j <= Served
    BY <1>5, <1>6, <2>1 DEF Cover
  <2>3. j \in 1 .. Served
    BY <1>5, <2>1, <2>2
  <2>4. Answered(j)
    BY <1>5, <2>3 DEF Cover
  <2> QED
    BY <1>1, <2>4 DEF Answered, IsReply
<1> QED
  BY <1>4, <1>7, <1>8 DEF Cover

\* When writes are whole, the reply that was pending is on the stream after
\* ReplyBody.
LEMMA CoverReply ==
    ASSUME SessionAssumption, WriteOutcomes = {"full"}, Reads, Quiet, Ordered, Cover,
           proc = "run", ReplyBody
    PROVE  Cover'
<1>1. /\ rw = "body" /\ rw' = "poll" /\ WriteBody(wreq) /\ Typed
      /\ UNCHANGED <<jobs, inbox, net>>
  BY DEF ReplyBody, Reads, server
<1>2. Len(req) = 1 /\ wreq = 1 /\ req[1].kind = "ret" /\ 1 \in 1 .. Len(req)
  BY <1>1, QuietFacts
<1>3. /\ wire \in Seq(Parts) /\ Len(wire) \in Nat
      /\ \E o \in Outcomes : /\ o \in Results /\ Part("body", "ret", req[1].arg) \in Parts
                             /\ wire' = Write(wire, Part("body", "ret", req[1].arg), o)
  <2>1. wire \in Seq(Parts) /\ Len(wire) \in Nat
    BY <1>1, Shape
  <2>2. WriteBody(1) /\ 1 \in 1 .. Len(req)
    BY <1>1, <1>2
  <2>3. \E o \in Outcomes : /\ o \in Results /\ Part("body", req[1].kind, req[1].arg) \in Parts
                             /\ wire' = Write(wire, Part("body", req[1].kind, req[1].arg), o)
    BY <1>1, <2>2, BodyWrites
  <2> QED
    BY <1>2, <2>1, <2>3
<1> DEFINE p == Part("body", "ret", req[1].arg)
<1>4. wire' = Append(wire, p) /\ p \in Parts
  BY <1>1, <1>3 DEF Outcomes, Write
<1>5. IsReply(p) /\ p.arg = Served
  BY <1>2 DEF Part, IsReply, Served, Held
<1> HIDE DEF p
<1>6. /\ Len(wire') = Len(wire) + 1 /\ wire'[Len(wire) + 1] = p
      /\ \A i \in 1 .. Len(wire) : wire'[i] = wire[i]
  BY <1>3, <1>4, AppendProperties
<1>7. Served' = Served /\ Stream' = Stream
  BY <1>1, ReplyInOrder DEF Stream
<1>8. Answered(Served)'
  <2>1. Len(wire) + 1 \in 1 .. Len(wire')
    BY <1>3, <1>6
  <2>2. IsReply(wire'[Len(wire) + 1]) /\ wire'[Len(wire) + 1].arg = Served'
    BY <1>5, <1>6, <1>7
  <2> QED
    BY <2>1, <2>2 DEF Answered, IsReply
<1>9. ASSUME NEW j \in 1 .. Served'
      PROVE  Answered(j)'
  <2>1. Answered(j) \/ j = Served
    BY <1>7, <1>9 DEF Cover
  <2>2. Len(wire') \in Nat /\ Len(wire) <= Len(wire')
    BY <1>3, <1>6
  <2>3. Answered(j) => Answered(j)'
    BY <1>3, <1>6, <2>2, AnsweredKept
  <2> QED
    BY <1>7, <1>8, <2>1, <2>3
<1>10. \A j \in 1 .. Len(jobs') : j <= Served' \/ Ahead(j)'
  <2>1. ~Stuck /\ ~InWorkerDo
    BY <1>1 DEF Stuck, Short, InWorkerDo
  <2> QED
    BY <1>1, <1>7, <2>1 DEF Cover, Ahead, Total
<1> QED
  BY <1>9, <1>10 DEF Cover

\* A frame of the worker's own leaves what was on the stream where it was.
LEMMA FrameKept ==
    ASSUME SessionAssumption, wire \in Seq(Parts), NEW k \in Kinds, NEW x \in Args,
           NEW w \in FrameWritten(k, x)
    PROVE  /\ Len(w) \in Nat /\ Len(wire) <= Len(w)
           /\ \A i \in 1 .. Len(wire) : w[i] = wire[i]
<1> DEFINE p == Part("head", k, 0)
           q == Part("body", k, x)
<1>1. PICK o1 \in WriteOutcomes, o2 \in WriteOutcomes :
          /\ w = Write(Write(wire, p, o1), q, o2)
          /\ o1 \in Results /\ o2 \in Results
          /\ p \in Parts /\ q \in Parts
          /\ Write(wire, p, o1) \in Seq(Parts)
          /\ w \in Seq(Parts) /\ Len(wire) <= Len(w)
  BY FrameWrites
<1> DEFINE v == Write(wire, p, o1)
<1>2. v \in Seq(Parts) /\ w = Write(v, q, o2)
  BY <1>1
<1> HIDE DEF p, q
<1>3. \A i \in 1 .. Len(wire) : v[i] = wire[i]
  BY <1>1, Written
<1>4. Len(v) = Len(wire) \/ Len(v) = Len(wire) + 1
  BY <1>1, Written
<1> HIDE DEF v
<1>5. \A i \in 1 .. Len(v) : w[i] = v[i]
  <2>1. v \in Seq(Parts) /\ q \in Parts /\ o2 \in Results
    BY <1>1, <1>2
  <2>2. \A i \in 1 .. Len(v) : Write(v, q, o2)[i] = v[i]
    BY <2>1, Written
  <2> QED
    BY <1>2, <2>2
<1>6. \A i \in 1 .. Len(wire) : i \in 1 .. Len(v)
  <2>1. Len(wire) \in Nat
    OBVIOUS
  <2> QED
    BY <1>4, <2>1
<1>7. Len(w) \in Nat
  BY <1>1
<1> QED
  BY <1>1, <1>3, <1>5, <1>6, <1>7

\* Every step of a session with whole writes keeps the cover.
LEMMA CoverNext ==
    ASSUME SessionAssumption, WriteOutcomes = {"full"}, Reads, Ordered, Cover, Quiet', [Next]_vars
    PROVE  Cover'
<1>1. /\ Quiet /\ Typed /\ Heap /\ Framed
      /\ Next => proc = "run" /\ (Main \/ ReadWrite \/ Environment)
  BY QuietKept DEF Reads
<1>2. ~refused' /\ (proc' \in {"ub", "abort"} => rw' = "do")
  BY QuietAfter
<1>3. /\ wire \in Seq(Parts) /\ Len(wire) \in Nat /\ Len(jobs) \in Nat /\ jobs \in Seq(Job)
      /\ MaxJobs \in Nat /\ MinDataSize \in Nat
  BY <1>1, Shape
<1>4. UNCHANGED jobs => Longer(jobs, jobs')
  BY <1>3 DEF Longer
<1>5. ASSUME UNCHANGED <<jobs, inbox, net>>
      PROVE  /\ \A j \in 1 .. Len(jobs') : j \in 1 .. Len(jobs)
             /\ \A j \in 1 .. Len(jobs) : Ahead(j) => Ahead(j)'
  <2>1. Stream' = Stream /\ jobs' = jobs
    BY <1>5 DEF Stream
  <2> QED
    BY <2>1 DEF Ahead, Total
<1>6. UNCHANGED wire => Len(wire') \in Nat /\ Len(wire) <= Len(wire') /\ \A i \in 1 .. Len(wire) : wire'[i] = wire[i]
  BY <1>3
<1>7. UNCHANGED req => Served' = Served
  BY DEF Served, Held
<1>8. Main \/ ReadWrite \/ Environment => (Stuck => Stuck')
  BY <1>1, StuckKept
<1>9. ASSUME UNCHANGED <<jobs, wire, inbox, net>>, Served' = Served,
             InWorkerDo => InWorkerDo' /\ res'.job = res.job,
             Stuck => Stuck', proc' = "run" => proc = "run" /\ (Pending /\ Held => Pending')
      PROVE  Cover'
  BY <1>1, <1>4, <1>5, <1>6, <1>9, CoverSame
<1>10. CASE UNCHANGED vars
  <2>1. UNCHANGED <<req, jobs, wire, inbox, net, rw, res, watch, proc>>
    BY <1>10 DEF vars, reader, server
  <2>2. (Pending => Pending') /\ (Stuck => Stuck') /\ (InWorkerDo => InWorkerDo')
    BY <2>1 DEF Pending, Stuck, Short, HeadRead, InWorkerDo
  <2> QED
    BY <1>7, <1>9, <2>1, <2>2
<1>11. CASE proc = "run" /\ (ReadEvent \/ ReadClosed \/ ReadFailed \/ WriteEvent)
  <2>1. UNCHANGED <<req, jobs, wire, inbox, net>> /\ rw \in {"poll", "read"}
    BY <1>11 DEF ReadEvent, ReadClosed, ReadFailed, WriteEvent, server
  <2>2. ~InWorkerDo
    BY <2>1 DEF InWorkerDo
  <2>3. Stuck => Stuck'
    BY <1>8, <1>11 DEF ReadWrite
  <2>4. proc' = "run" /\ Pending /\ Held => Pending'
    <3>1. CASE ReadEvent \/ ReadClosed \/ ReadFailed
      BY <3>1 DEF ReadEvent, ReadClosed, ReadFailed, Pending
    <3>2. CASE WriteEvent
      <4>1. rw = "poll" /\ aReq = 1
        BY <1>1, <3>2, QuietFacts DEF WriteEvent
      <4> QED
        BY <3>2, <4>1 DEF WriteEvent, Pending, Held
    <3> QED
      BY <1>11, <3>1, <3>2
  <2> QED
    BY <1>7, <1>9, <1>11, <2>1, <2>2, <2>3, <2>4
<1>12. CASE proc = "run" /\ (RegisterNext \/ Ready \/ Find \/ Join \/ ServerReceive \/ ServerClose \/ BrokenPipe)
  <2>1. UNCHANGED <<req, jobs, wire, inbox, net, rw, res, watch>>
    BY <1>12 DEF RegisterNext, Ready, Find, Join, ServerReceive, ServerClose, BrokenPipe, reader,
                 server
  <2>2. (proc' = "run" /\ Pending => Pending') /\ (Stuck => Stuck') /\ (InWorkerDo => InWorkerDo')
    BY <2>1 DEF Pending, Stuck, Short, HeadRead, InWorkerDo
  <2> QED
    BY <1>7, <1>9, <1>12, <2>1, <2>2
<1>13. ASSUME proc = "run", UNCHANGED <<req, jobs, inbox, net, rw, res, watch>>,
              NEW k \in Kinds, NEW x \in Args, wire' \in FrameWritten(k, x)
       PROVE  Cover'
  <2>1. /\ Len(wire') \in Nat /\ Len(wire) <= Len(wire')
        /\ \A i \in 1 .. Len(wire) : wire'[i] = wire[i]
    BY <1>3, <1>13, FrameKept
  <2>2. (proc' = "run" /\ Pending => Pending') /\ (Stuck => Stuck') /\ (InWorkerDo => InWorkerDo')
    BY <1>13 DEF Pending, Stuck, Short, HeadRead, InWorkerDo
  <2> QED
    BY <1>1, <1>4, <1>5, <1>7, <1>13, <2>1, <2>2, CoverSame
<1>14. CASE proc = "run" /\ (Announce \/ Grab)
  <2>1. UNCHANGED <<req, jobs, inbox, net, rw, res, watch>>
    BY <1>14 DEF Announce, Grab, reader, server
  <2>2. wire' = wire \/ \E k \in Kinds, x \in Args : wire' \in FrameWritten(k, x)
    BY <1>1, <1>14, MainFrame
  <2>3. ASSUME wire' = wire
        PROVE  Cover'
    <3>1. (proc' = "run" /\ Pending => Pending') /\ (Stuck => Stuck') /\ (InWorkerDo => InWorkerDo')
      BY <2>1 DEF Pending, Stuck, Short, HeadRead, InWorkerDo
    <3> QED
      BY <1>7, <1>9, <1>14, <2>1, <2>3, <3>1
  <2> QED
    BY <1>13, <1>14, <2>1, <2>2, <2>3
<1>15. CASE proc = "run" /\ Start
  <2>1. /\ req' = Append(req, NewRequest) /\ rw' = "poll" /\ rw = "none"
        /\ UNCHANGED <<jobs, inbox, net, wire>> /\ main = "start"
    <3>1. main = "start"
      BY <1>15 DEF Start
    <3> QED
      BY <1>1, <1>15, <3>1 DEF Start, server, Typed, Ranges
  <2>2. NewRequest \in Requests /\ NewRequest.kind = "none" /\ req \in Seq(Requests)
    BY <1>1, Shape DEF NewRequest, Requests, Kinds
  <2>3. Len(req) = 0 /\ Len(req') = Len(req) + 1 /\ req'[Len(req) + 1] = NewRequest
    BY <1>1, <2>1, <2>2, QuietFacts, AppendProperties
  <2>4. Served = 0 /\ Served' = 0 /\ ~Stuck /\ ~Pending /\ ~InWorkerDo
    BY <2>1, <2>2, <2>3 DEF Held, Served, Stuck, Short, Pending, InWorkerDo
  <2> QED
    BY <1>1, <1>4, <1>5, <1>6, <1>15, <2>1, <2>4, CoverSame
<1>16. CASE proc = "run" /\ (ReadDropped \/ ReadHeader \/ ReadBody)
  <2>1. /\ rw = "read" /\ UNCHANGED <<req, jobs, wire>>
    BY <1>16 DEF ReadDropped, ReadHeader, ReadBody, Reading, server
  <2>2. \A j \in 1 .. Len(jobs) : Ahead(j) => Ahead(j)' \/ (InWorkerDo' /\ j = res'.job) \/ Stuck'
    BY <1>1, <1>16, CoverRead
  <2>3. (Stuck => Stuck') /\ ~Pending /\ ~InWorkerDo
    BY <1>8, <1>16, <2>1 DEF ReadWrite, Pending, InWorkerDo
  <2>4. Longer(jobs, jobs') /\ Served' = Served /\ \A j \in 1 .. Len(jobs') : j \in 1 .. Len(jobs)
    BY <1>4, <1>7, <2>1
  <2> QED
    BY <1>1, <1>6, <1>16, <2>1, <2>2, <2>3, <2>4, CoverSame
<1>17. CASE proc = "run" /\ PackResult
  <2>1. rw' = "poll" /\ proc' \in {proc, "ub", "abort"}
    BY <1>17 DEF PackResult, ReadDone
  <2>2. proc' = "run"
    BY <1>2, <1>17, <2>1
  <2> QED
    BY <1>1, <1>17, <2>2, CoverRun
<1>18. CASE proc = "run" /\ (BadBody \/ GetFunc \/ CallFunction \/ CallFreed \/ CopyResult)
  <2>1. /\ UNCHANGED <<jobs, wire, inbox, net, res>> /\ rw \in {"do", "call", "copy"}
        /\ rw' \in {"do", "call", "copy", "pack"}
    BY <1>18 DEF BadBody, GetFunc, CallFunction, CallFreed, CopyResult, reader, server
  <2>2. Served' = Served
    <3>1. CASE CopyResult
      BY <1>1, <3>1, CopyHeld
    <3>2. CASE BadBody \/ GetFunc \/ CallFunction \/ CallFreed
      BY <1>7, <3>2 DEF BadBody, GetFunc, CallFunction, CallFreed
    <3> QED
      BY <1>18, <3>1, <3>2
  <2>3. ~Pending /\ ~Stuck /\ InWorkerDo'
    BY <2>1 DEF Pending, Stuck, Short, InWorkerDo
  <2> QED
    BY <1>9, <1>18, <2>1, <2>2, <2>3
<1>24. ~RefuseJob
  BY <1>2 DEF RefuseJob
<1>19. CASE proc = "run" /\ ReplyHead
  <2>1. /\ rw = "head" /\ rw' = "body" /\ WriteHead(wreq)
        /\ UNCHANGED <<jobs, inbox, net, watch>>
    BY <1>19 DEF ReplyHead, server
  <2>2. wreq \in 1 .. Len(req)
    BY <1>1, <2>1, OnlyRequest
  <2>3. /\ req' = req /\ wire' \in Seq(Parts) /\ Len(wire) <= Len(wire')
        /\ \E o \in Outcomes : /\ o \in Results /\ Part("head", req[wreq].kind, 0) \in Parts
                               /\ wire' = Write(wire, Part("head", req[wreq].kind, 0), o)
    BY <1>1, <2>1, <2>2, HeadWrites
  <2>4. Len(wire') \in Nat /\ \A i \in 1 .. Len(wire) : wire'[i] = wire[i]
    <3> DEFINE p == Part("head", req[wreq].kind, 0)
    <3>1. PICK o \in Outcomes : o \in Results /\ p \in Parts /\ wire' = Write(wire, p, o)
      BY <2>3
    <3> HIDE DEF p
    <3>2. \A i \in 1 .. Len(wire) : Write(wire, p, o)[i] = wire[i]
      BY <1>3, <3>1, Written
    <3> QED
      BY <2>3, <3>1, <3>2
  <2>5. (Pending /\ proc' = "run" => Pending') /\ ~Stuck /\ ~InWorkerDo
    BY <2>1 DEF Pending, Stuck, Short, InWorkerDo
  <2> QED
    BY <1>1, <1>4, <1>5, <1>7, <1>19, <2>1, <2>3, <2>4, <2>5, CoverSame
<1>20. CASE proc = "run" /\ ReplyBody
  BY <1>1, <1>20, CoverReply
<1>21. ASSUME proc = "run", NEW f \in Funcs, NEW n \in BodySizes, NEW d \in Decodable, SendJob(f, n, d)
       PROVE  Cover'
  <2>1. /\ jobs' = Append(jobs, [func |-> f, size |-> n, decodes |-> d]) /\ Len(jobs) < MaxJobs
        /\ net' = net \o Frame(Len(jobs) + 1, n)
        /\ UNCHANGED <<req, rw, res, watch, proc, wire, inbox>>
    BY <1>21 DEF SendJob, reader
  <2>2. [func |-> f, size |-> n, decodes |-> d] \in Job
    BY DEF Job, SessionAssumption
  <2>3. /\ Len(jobs') = Len(jobs) + 1 /\ jobs'[Len(jobs) + 1].size = n
        /\ \A i \in 1 .. Len(jobs) : jobs'[i] = jobs[i]
    BY <1>3, <2>1, <2>2, AppendProperties
  <2>4. Len(jobs) + 1 \in 0 .. MaxJobs /\ Len(jobs) + 1 # NoJob
    BY <1>3, <2>1 DEF NoJob
  <2>5. PICK j \in 0 .. MaxJobs : j = Len(jobs) + 1 /\ j # NoJob
    BY <2>4
  <2>6. n \in Nat
    BY DEF SessionAssumption
  <2>7. Longer(jobs, jobs') /\ \A i \in 1 .. Len(jobs') : i \in 1 .. Len(jobs) \/ i = j
    <3>1. Longer(jobs, jobs')
      BY <1>3, <2>3 DEF Longer
    <3>2. Len(jobs') = j /\ \A i \in 1 .. j : i \in 1 .. Len(jobs) \/ i = j
      BY <1>3, <2>3, <2>5
    <3> QED
      BY <3>1, <3>2
  <2>8. Total(j, jobs)' = MinDataSize + n
    BY <2>3, <2>5 DEF Total
  <2>9. net' = net \o Frame(j, n) /\ inbox' = inbox
    BY <2>1, <2>5
  <2>10. Ahead(j)' /\ \A i \in 1 .. Len(jobs) : Ahead(i) => Ahead(i)'
    BY <1>1, <2>6, <2>7, <2>8, <2>9, CoverSent
  <2>11. /\ (Pending => Pending') /\ (Stuck => Stuck') /\ (InWorkerDo => InWorkerDo')
         /\ Served' = Served
    BY <1>7, <2>1 DEF Pending, Stuck, Short, HeadRead, InWorkerDo
  <2> QED
    BY <1>1, <1>6, <2>1, <2>7, <2>10, <2>11, CoverSame
<1>22. CASE proc = "run" /\ SendNotice
  <2>1. /\ net' = net \o Frame(NoJob, 0)
        /\ UNCHANGED <<req, rw, res, watch, proc, wire, inbox, jobs>>
    BY <1>22 DEF SendNotice, reader
  <2>2. NoJob \in 0 .. MaxJobs /\ 0 \in Nat /\ Longer(jobs, jobs')
    BY <1>3, <1>4, <2>1 DEF NoJob
  <2>3. Total(NoJob, jobs)' = MinDataSize + 0
    BY <1>3 DEF Total
  <2>4. \A i \in 1 .. Len(jobs) : Ahead(i) => Ahead(i)'
    BY <1>1, <2>1, <2>2, <2>3, CoverSent
  <2>5. /\ (Pending => Pending') /\ (Stuck => Stuck') /\ (InWorkerDo => InWorkerDo')
        /\ Served' = Served
    BY <1>7, <2>1 DEF Pending, Stuck, Short, HeadRead, InWorkerDo
  <2> QED
    BY <1>1, <1>6, <2>1, <2>2, <2>4, <2>5, CoverSame
<1>23. CASE proc = "run" /\ Deliver
  <2>1. UNCHANGED <<req, jobs, wire, rw, res, watch, proc>>
    BY <1>23 DEF Deliver, reader
  <2>2. PICK k \in 1 .. Len(net) : inbox' = inbox \o SubSeq(net, 1, k) /\ net' = SubSeq(net, k + 1, Len(net))
    BY <1>23 DEF Deliver
  <2>3. Stream' = Stream
    BY <1>1, <2>2, StreamDelivered
  <2>4. /\ \A j \in 1 .. Len(jobs) : Ahead(j) => Ahead(j)'
        /\ \A j \in 1 .. Len(jobs') : j \in 1 .. Len(jobs)
    BY <2>1, <2>3 DEF Ahead, Total
  <2>5. /\ (Pending => Pending') /\ (Stuck => Stuck') /\ (InWorkerDo => InWorkerDo')
        /\ Served' = Served /\ Longer(jobs, jobs')
    BY <1>4, <1>7, <2>1 DEF Pending, Stuck, Short, HeadRead, InWorkerDo
  <2> QED
    BY <1>1, <1>6, <2>1, <2>4, <2>5, CoverSame
<1> QED
  BY <1>1, <1>10, <1>11, <1>12, <1>14, <1>15, <1>16, <1>17, <1>18, <1>19, <1>20, <1>21, <1>22,
     <1>23, <1>24 DEF Main, ReadWrite, Environment

\* A new session has nothing to cover.
LEMMA CoverInit == SessionAssumption /\ Init => Cover
<1> SUFFICES ASSUME SessionAssumption, Init
             PROVE  Cover
  OBVIOUS
<1>1. req = <<>> /\ jobs = <<>>
  BY DEF Init
<1>2. Len(req) = 0 /\ Len(jobs) = 0
  BY <1>1
<1>3. Served = 0
  BY <1>2 DEF Held, Served
<1> QED
  BY <1>2, <1>3 DEF Cover

\* In a session whose writes are whole, that cannot misread, and whose functions
\* stay as they are and fit into the registry, the replies are those of jobs
\* 1, 2, 3, ... in this order.
THEOREM NoReplyMissing ==
    ASSUME Whole, WriteOutcomes = {"full"}, RuntimeCalls = 0, Len(Initial) <= MapSize
    PROVE  Spec => []RepliesInOrder
<1> USE SessionAssumption
<1>1. TypeOK /\ ~MisreadCause /\ ~Grown => Quiet
  <2> SUFFICES ASSUME TypeOK, ~MisreadCause, ~Grown
               PROVE  Quiet
    OBVIOUS
  <2>1. calls \in 0 .. 0
    BY DEF TypeOK
  <2> QED
    BY <2>1 DEF Quiet
<1>2. Init => Cover
  BY CoverInit
<1>3. Reads /\ Order /\ Quiet /\ Cover /\ Quiet' /\ [Next]_vars => Cover'
  BY CoverNext DEF Order
<1>4. Reads /\ Order /\ Quiet /\ Cover => RepliesInOrder
  <2> SUFFICES ASSUME Ordered, Cover,
                      NEW i \in 1 .. Len(wire), IsReply(wire[i])
               PROVE  /\ \A k \in 1 .. i - 1 : IsReply(wire[k]) => wire[k].arg < wire[i].arg
                      /\ \/ wire[i].arg = 1
                         \/ \E k \in 1 .. i - 1 : IsReply(wire[k]) /\ wire[k].arg = wire[i].arg - 1
    BY DEF Order, RepliesInOrder
  <2> DEFINE a == wire[i].arg
  <2>1. Increasing /\ a \in 1 .. Served /\ Served \in 0 .. Len(jobs) /\ Served \in Nat
    BY DEF Ordered
  <2>2. \A k \in 1 .. i - 1 : k \in 1 .. Len(wire) /\ k < i
    OBVIOUS
  <2>3. \A k \in 1 .. i - 1 : IsReply(wire[k]) => wire[k].arg < a
    BY <2>1, <2>2 DEF Increasing
  <2>4. ASSUME a # 1
        PROVE  \E k \in 1 .. i - 1 : IsReply(wire[k]) /\ wire[k].arg = a - 1
    <3>1. a - 1 \in 1 .. Served /\ a - 1 # Served /\ ~(a < a - 1) /\ a # a - 1
      BY <2>1, <2>4
    <3>2. Answered(a - 1)
      BY <3>1 DEF Cover
    <3>3. PICK k \in 1 .. Len(wire) : IsReply(wire[k]) /\ wire[k].arg = a - 1
      BY <3>2 DEF Answered
    <3>4. k # i
      BY <3>1, <3>3
    <3>5. ~(i < k)
      BY <2>1, <3>1, <3>3 DEF Increasing
    <3>6. k \in 1 .. i - 1
      BY <3>4, <3>5
    <3> QED
      BY <3>3, <3>6
  <2> QED
    BY <2>3, <2>4
<1> QED
  BY <1>1, <1>2, <1>3, <1>4, TypeCorrect, NeverMisread, NeverGrown, ReadsCorrect, OrderCorrect,
     PTL DEF Spec

-----------------------------------------------------------------------------
(* The announcements, and the frames of the stream to the server.          *)

\* As long as no name is deleted, Work's loop has announced those functions
\* registered before Work that it is past, but the ones whose slot a later
\* registration took; and the Func it is about to announce is that of the key it
\* is at, or a later one in the same slot.
Told(f) == \E i \in 1 .. Len(wire) :
    wire[i].part = "body" /\ wire[i].kind = "add" /\ wire[i].arg = f
Done(k) == Replaced(k) \/ Told(Initial[k])
PastGrab == main \in {"start", "join", "sleep"}
Announced ==
    ~deleted =>
        /\ main \in {"announce", "send"} => \A k \in 1 .. Len(Initial) : k < next => Done(k)
        /\ PastGrab => \A k \in 1 .. Len(Initial) : Done(k)
        /\ main = "send" => next \in 1 .. Len(fn) /\ (func = next \/ Replaced(next))

\* The stream ends with a header only while the thread that wrote it has its
\* body to write; until Work grabs no other thread writes.
LastPart == wire[Len(wire)]
HeadAtEnd == wire # <<>> /\ LastPart.part = "head"
HasGrabbed == \E g \in 1 .. Len(wire) : Got(g, "grab")
Paired ==
    /\ FramesWhole
    /\ PastGrab => HasGrabbed
    /\ HeadAtEnd =>
           /\ PastGrab
           /\ calls > 0 \/ (rw = "body" /\ LastPart = Part("head", req[wreq].kind, 0))

\* What is on the stream stays there.
LEMMA WireKept ==
    ASSUME SessionAssumption, Typed, [Next]_vars
    PROVE  /\ wire \in Seq(Parts) /\ Len(wire) \in Nat /\ Len(wire') \in Nat /\ Len(wire) <= Len(wire')
           /\ \A i \in 1 .. Len(wire) : wire'[i] = wire[i]
<1>0. wire \in Seq(Parts) /\ Len(wire) \in Nat
  BY Shape
<1>1. UNCHANGED wire => /\ Len(wire') \in Nat /\ Len(wire) <= Len(wire')
                        /\ \A i \in 1 .. Len(wire) : wire'[i] = wire[i]
  BY <1>0
<1>2. ASSUME NEW k \in Kinds, NEW x \in Args, wire' \in FrameWritten(k, x)
      PROVE  /\ Len(wire') \in Nat /\ Len(wire) <= Len(wire')
             /\ \A i \in 1 .. Len(wire) : wire'[i] = wire[i]
  BY <1>0, <1>2, FrameKept
<1>3. CASE Announce \/ Grab
  BY <1>0, <1>1, <1>2, <1>3, MainFrame
<1>5. ASSUME NEW r \in 1 .. Len(req), WriteHead(r) \/ WriteBody(r)
      PROVE  /\ Len(wire') \in Nat /\ Len(wire) <= Len(wire')
             /\ \A i \in 1 .. Len(wire) : wire'[i] = wire[i]
  <2>1. CASE WriteHead(r)
    <3> DEFINE p == Part("head", req[r].kind, 0)
    <3>1. wire' \in Seq(Parts) /\ Len(wire) <= Len(wire')
      BY <2>1, HeadWrites
    <3>2. PICK o \in Outcomes : o \in Results /\ p \in Parts /\ wire' = Write(wire, p, o)
      BY <2>1, HeadWrites
    <3> HIDE DEF p
    <3>3. \A i \in 1 .. Len(wire) : Write(wire, p, o)[i] = wire[i]
      BY <1>0, <3>2, Written
    <3> QED
      BY <3>1, <3>2, <3>3
  <2>2. CASE WriteBody(r)
    <3> DEFINE p == Part("body", req[r].kind, req[r].arg)
    <3>1. wire' \in Seq(Parts) /\ Len(wire) <= Len(wire')
      BY <2>2, BodyWrites
    <3>2. PICK o \in Outcomes : o \in Results /\ p \in Parts /\ wire' = Write(wire, p, o)
      BY <2>2, BodyWrites
    <3> HIDE DEF p
    <3>3. \A i \in 1 .. Len(wire) : Write(wire, p, o)[i] = wire[i]
      BY <1>0, <3>2, Written
    <3> QED
      BY <3>1, <3>2, <3>3
  <2> QED
    BY <1>5, <2>1, <2>2
<1>6. CASE ReplyHead \/ ReplyBody
  <2>1. rw \in {"head", "body"} /\ (WriteHead(wreq) \/ WriteBody(wreq))
    BY <1>6 DEF ReplyHead, ReplyBody
  <2> QED
    BY <1>0, <1>5, <2>1, OnlyRequest
<1>7. CASE BroadcastHead \/ BroadcastBody
  <2>1. app.at \in {"head", "body"} /\ (WriteHead(app.req) \/ WriteBody(app.req))
    BY <1>7 DEF BroadcastHead, BroadcastBody
  <2> QED
    BY <1>0, <1>5, <2>1, OnlyRequest
<1>8. CASE \/ RegisterNext \/ Ready \/ Find \/ Join \/ Start \/ ReadEvent \/ ReadDropped
           \/ ReadHeader \/ ReadBody \/ ReadClosed \/ ReadFailed \/ BadBody \/ GetFunc
           \/ RefuseJob \/ CallFunction \/ CallFreed \/ CopyResult \/ PackResult \/ WriteEvent
           \/ Broadcast \/ BroadcastPack \/ BroadcastFree \/ ServerReceive \/ SendNotice
           \/ Deliver \/ ServerClose \/ BrokenPipe
  <2>1. UNCHANGED wire
    BY <1>8 DEF RegisterNext, Ready, Find, Join, Start, ReadEvent, ReadDropped, ReadHeader,
                ReadBody, Reading, ReadClosed, ReadFailed, BadBody, GetFunc, RefuseJob,
                CallFunction, CallFreed, CopyResult, PackResult, ReadDone, WriteEvent, Broadcast,
                BroadcastPack, BroadcastFree, ServerReceive, SendNotice, Deliver, ServerClose,
                BrokenPipe
  <2> QED
    BY <1>0, <1>1, <2>1
<1>9. ASSUME NEW f \in Funcs, AddFunction(f) \/ DelFunction(f)
      PROVE  UNCHANGED wire
  BY <1>9 DEF AddFunction, DelFunction, Call
<1>10. ASSUME NEW f \in Funcs, NEW n \in BodySizes, NEW d \in Decodable, SendJob(f, n, d)
       PROVE  UNCHANGED wire
  BY <1>10 DEF SendJob
<1>11. CASE UNCHANGED vars
  BY <1>0, <1>1, <1>11 DEF vars
<1> QED
  BY <1>0, <1>1, <1>3, <1>6, <1>7, <1>8, <1>9, <1>10, <1>11
     DEF Next, Main, ReadWrite, Application, Environment

\* A frame of the worker's own of which no write comes to nothing ends with a
\* body that names its function.
LEMMA FrameEnds ==
    ASSUME SessionAssumption, "none" \notin WriteOutcomes, wire \in Seq(Parts),
           NEW k \in Kinds, NEW x \in Args, NEW w \in FrameWritten(k, x)
    PROVE  \E i \in 1 .. Len(w) : w[i].part = "body" /\ w[i].kind = k /\ w[i].arg = x
<1> DEFINE p == Part("head", k, 0)
           q == Part("body", k, x)
<1>1. PICK o1 \in WriteOutcomes, o2 \in WriteOutcomes :
          /\ w = Write(Write(wire, p, o1), q, o2)
          /\ o1 \in Results /\ o2 \in Results
          /\ p \in Parts /\ q \in Parts
          /\ Write(wire, p, o1) \in Seq(Parts)
          /\ w \in Seq(Parts) /\ Len(wire) <= Len(w)
  BY FrameWrites
<1> DEFINE v == Write(wire, p, o1)
<1>2. v \in Seq(Parts) /\ w = Write(v, q, o2) /\ q \in Parts /\ o2 \in Results /\ o2 # "none"
  BY <1>1
<1>3. q.part = "body" /\ q.kind = k /\ q.arg = x
  BY DEF Part
<1> HIDE DEF p, q, v
<1>4. Len(w) = Len(v) + 1 /\ w[Len(v) + 1] = Cut(q, o2)
  <2>1. v \in Seq(Parts) /\ q \in Parts /\ o2 \in Results /\ o2 # "none"
    BY <1>2
  <2>2. Len(Write(v, q, o2)) = Len(v) + 1 /\ Write(v, q, o2)[Len(v) + 1] = Cut(q, o2)
    BY <2>1, Written
  <2> QED
    BY <1>2, <2>2
<1>5. Cut(q, o2).part = "body" /\ Cut(q, o2).kind = k /\ Cut(q, o2).arg = x
  BY <1>2, <1>3 DEF Cut, Parts
<1>6. Len(v) \in Nat
  BY <1>2
<1>7. Len(v) + 1 \in 1 .. Len(w)
  BY <1>4, <1>6
<1> QED
  BY <1>4, <1>5, <1>7

\* A function whose slot a later one took stays so.
LEMMA ReplacedKept ==
    ASSUME Len(fn) \in Nat, Len(fn') \in Nat, Len(fn) <= Len(fn'),
           \A i \in 1 .. Len(fn) : fn'[i] = fn[i],
           NEW k \in Nat \ {0}, Replaced(k)
    PROVE  Replaced(k)'
<1>1. PICK i \in k + 1 .. Len(fn) : fn[i].key = fn[k].key
  BY DEF Replaced
<1>2. i \in k + 1 .. Len(fn') /\ fn'[i] = fn[i] /\ fn'[k] = fn[k]
  BY <1>1
<1> QED
  BY <1>1, <1>2 DEF Replaced

\* What Work's loop takes from the slot of a key is the key's function, or a
\* later one of the same slot.
LEMMA FoundFunc ==
    ASSUME SessionAssumption, Typed, Table, ~deleted, Find
    PROVE  /\ main' = "send" /\ next' = next /\ next \in 1 .. Len(fn)
           /\ func' = next \/ Replaced(next)
<1>1. Filled /\ Len(fn) \in Nat /\ next \in Nat /\ next >= 1
  <2>1. next \in Nat /\ next >= 1
    BY DEF Typed, SessionShape, Ranges
  <2> QED
    BY <2>1, Shaped DEF Table
<1>2. next \in 1 .. Len(fn)
  BY <1>1 DEF Find, AllAnnounced, Filled
<1> DEFINE k == fn[next].key
<1>3. keys[next] = k /\ slots[k] \in next .. Len(fn) /\ k \in 0 .. size - 1
  BY <1>1, <1>2, Shaped DEF Filled
<1>4. func' = slots[k] /\ func' \in next .. Len(fn) /\ func' # Null
  <2>1. func' = slots[k]
    BY <1>3 DEF Find
  <2> HIDE DEF k
  <2> QED
    BY <1>1, <1>3, <2>1 DEF Null
<1>5. fn[func'].key = k
  <2> HIDE DEF k
  <2>1. slots[k] \in 1 .. Len(fn)
    BY <1>1, <1>3
  <2> QED
    BY <1>1, <1>3, <1>4, <2>1 DEF Filled
<1>6. func' = next \/ func' \in next + 1 .. Len(fn)
  BY <1>1, <1>4
<1> QED
  BY <1>2, <1>4, <1>5, <1>6 DEF Find, Replaced

\* Every step keeps the announcements.
LEMMA AnnouncedNext ==
    ASSUME SessionAssumption, "none" \notin WriteOutcomes, Typed, Table, Announced, [Next]_vars
    PROVE  Announced'
<1> SUFFICES ASSUME ~deleted'
             PROVE  Announced'
  BY DEF Announced
<1>1. ~deleted
  BY Kept
<1>2. /\ main \in {"announce", "send"} => \A k \in 1 .. Len(Initial) : k < next => Done(k)
      /\ PastGrab => \A k \in 1 .. Len(Initial) : Done(k)
      /\ main = "send" => next \in 1 .. Len(fn) /\ (func = next \/ Replaced(next))
  BY <1>1 DEF Announced
<1>3. \A f : Told(f) => Told(f)'
  <2>1. /\ wire \in Seq(Parts) /\ Len(wire) \in Nat /\ Len(wire') \in Nat /\ Len(wire) <= Len(wire')
        /\ \A i \in 1 .. Len(wire) : wire'[i] = wire[i]
    BY WireKept
  <2>2. \A i \in 1 .. Len(wire) : i \in 1 .. Len(wire')
    BY <2>1
  <2> QED
    BY <2>1, <2>2 DEF Told
<1>4. Len(Initial) \in Nat /\ next \in Nat /\ next >= 1 /\ Len(fn) \in Nat
  <2>1. Initial \in Seq(Funcs)
    BY DEF SessionAssumption
  <2>2. next \in Nat /\ next >= 1
    BY DEF Typed, SessionShape, Ranges
  <2> QED
    BY <2>1, <2>2, Shaped
<1>5. ASSUME Len(fn') \in Nat, Len(fn) <= Len(fn'), \A i \in 1 .. Len(fn) : fn'[i] = fn[i]
      PROVE  \A k \in Nat \ {0} : (Replaced(k) => Replaced(k)') /\ (Done(k) => Done(k)')
  BY <1>3, <1>4, <1>5, ReplacedKept DEF Done
<1>6. fn' = fn => \A k \in Nat \ {0} : (Replaced(k) => Replaced(k)') /\ (Done(k) => Done(k)')
  BY <1>4, <1>5
<1>7. \A k \in 1 .. Len(Initial) : k \in Nat \ {0}
  BY <1>4
<1>8. ASSUME UNCHANGED <<next, main>>, main = "send" => func' = func, Len(fn') \in Nat,
             Len(fn) <= Len(fn'), \A i \in 1 .. Len(fn) : fn'[i] = fn[i]
      PROVE  Announced'
  <2>1. \A k \in Nat \ {0} : (Replaced(k) => Replaced(k)') /\ (Done(k) => Done(k)')
    BY <1>5, <1>8
  <2>2. main = "send" => next \in 1 .. Len(fn') /\ (func' = next \/ Replaced(next)')
    BY <1>2, <1>4, <1>8, <2>1
  <2>3. \A k \in 1 .. Len(Initial) : Done(k) => Done(k)'
    BY <1>7, <2>1
  <2> QED
    BY <1>2, <1>8, <2>2, <2>3 DEF Announced, PastGrab
<1>9. UNCHANGED <<next, main, fn>> /\ (main = "send" => func' = func) => Announced'
  BY <1>4, <1>8
<1>10. CASE UNCHANGED vars
  BY <1>9, <1>10 DEF vars
<1>11. CASE RegisterNext \/ Ready
  <2>1. main' = "register" \/ (main' = "announce" /\ next' = 1)
    BY <1>11 DEF RegisterNext, Ready
  <2>2. \A k \in 1 .. Len(Initial) : ~(k < 1)
    BY <1>4
  <2> QED
    BY <2>1, <2>2 DEF Announced, PastGrab
<1>12. CASE Find
  <2>1. main = "announce" /\ main' = "send" /\ next' = next /\ fn' = fn
    BY <1>1, <1>12, FoundFunc DEF Find, appVars
  <2>2. next \in 1 .. Len(fn') /\ (func' = next \/ Replaced(next)')
    BY <1>1, <1>4, <1>6, <1>12, <2>1, FoundFunc
  <2>3. \A k \in 1 .. Len(Initial) : k < next => Done(k)'
    BY <1>2, <1>6, <1>7, <2>1
  <2> QED
    BY <2>1, <2>2, <2>3 DEF Announced, PastGrab
<1>13. CASE Announce
  <2>1. main = "send" /\ main' = "announce" /\ next' = next + 1 /\ fn' = fn
    BY <1>13 DEF Announce, appVars
  <2>2. next \in 1 .. Len(fn) /\ (func = next \/ Replaced(next))
    BY <1>2, <2>1
  <2>3. ASSUME NEW k \in 1 .. Len(Initial), k = next, func = next
        PROVE  Told(Initial[k])'
    <3>1. fn[k].live /\ fn[k].name = Initial[k] /\ fn[k].name \in Args
      <4>1. fn[k].live /\ fn[k].name = Initial[k]
        BY <1>1, <1>4, <2>2, <2>3 DEF Table, Filled
      <4>2. fn[k].name \in Args
        BY <2>2, <2>3, Shaped DEF Args
      <4> QED
        BY <4>1, <4>2
    <3>2. wire' \in FrameWritten("add", Initial[k])
      BY <1>13, <2>2, <2>3, <3>1 DEF Announce, Live
    <3>3. Initial[k] \in Args /\ "add" \in Kinds /\ wire \in Seq(Parts)
      BY <3>1, Shape DEF Kinds
    <3>4. \E i \in 1 .. Len(wire') :
              wire'[i].part = "body" /\ wire'[i].kind = "add" /\ wire'[i].arg = Initial[k]
      BY <3>2, <3>3, FrameEnds
    <3> QED
      BY <3>4 DEF Told
  <2>4. ASSUME NEW k \in 1 .. Len(Initial), k < next'
        PROVE  Done(k)'
    <3>1. k < next \/ k = next
      BY <1>4, <2>1, <2>4
    <3>2. CASE k < next
      BY <1>2, <1>6, <1>7, <2>1, <3>2
    <3>3. CASE k = next
      <4>1. Replaced(k) => Done(k)'
        BY <1>6, <1>7, <2>1 DEF Done
      <4>2. func = next => Done(k)'
        BY <2>3, <3>3 DEF Done
      <4> QED
        BY <2>2, <3>3, <4>1, <4>2
    <3> QED
      BY <3>1, <3>2, <3>3
  <2> QED
    BY <2>1, <2>4 DEF Announced, PastGrab
<1>14. CASE Grab
  <2>1. main = "announce" /\ main' = "start" /\ next > Len(keys) /\ fn' = fn
    BY <1>14 DEF Grab, AllAnnounced, appVars
  <2>2. Len(keys) = Len(fn) /\ Len(Initial) <= Len(fn)
    BY <1>1, <2>1 DEF Table, Filled
  <2>3. \A k \in 1 .. Len(Initial) : k < next
    BY <1>4, <2>1, <2>2
  <2>4. \A k \in 1 .. Len(Initial) : Done(k)'
    BY <1>2, <1>6, <1>7, <2>1, <2>3
  <2> QED
    BY <2>1, <2>4 DEF Announced, PastGrab
<1>15. CASE Start \/ Join
  <2>1. PastGrab /\ main' \in {"join", "sleep"} /\ fn' = fn
    BY <1>15 DEF Start, Join, PastGrab, appVars
  <2>2. \A k \in 1 .. Len(Initial) : Done(k)'
    BY <1>2, <1>6, <1>7, <2>1
  <2> QED
    BY <2>1, <2>2 DEF Announced, PastGrab
<1>16. ASSUME NEW f \in Funcs, AddFunction(f) \/ DelFunction(f)
       PROVE  Announced'
  <2>1. AddFunction(f)
    BY <1>16 DEF DelFunction
  <2>2. Register(f) /\ UNCHANGED <<next, main, func>>
    BY <2>1 DEF AddFunction, Call
  <2>3. Len(fn') = Len(fn) + 1 /\ \A i \in 1 .. Len(fn) : fn'[i] = fn[i]
    BY <2>2, Registering
  <2> QED
    BY <1>4, <1>8, <2>2, <2>3
<1>17. CASE ReadWrite
  <2>1. UNCHANGED <<next, main, fn>>
    BY <1>17 DEF ReadWrite, ReadEvent, ReadDropped, ReadHeader, ReadBody, Reading, ReadClosed,
                ReadFailed, BadBody, GetFunc, RefuseJob, CallFunction, CallFreed, CopyResult,
                PackResult, ReadDone, WriteEvent, ReplyHead, ReplyBody, appVars
  <2>2. rw # "none"
    BY <1>17 DEF ReadWrite, ReadEvent, ReadDropped, ReadHeader, ReadBody, Reading, ReadClosed,
                ReadFailed, BadBody, GetFunc, RefuseJob, NotFound, OtherName, CallFunction,
                CallFreed, CopyResult, PackResult, WriteEvent, ReplyHead, ReplyBody
  <2>3. main # "send"
    BY <2>2 DEF Typed, Ranges
  <2> QED
    BY <1>9, <2>1, <2>3
<1>18. CASE \/ Broadcast \/ BroadcastPack \/ BroadcastHead \/ BroadcastBody \/ BroadcastFree
            \/ Environment
  <2>1. UNCHANGED <<next, main, func, fn>>
    BY <1>18 DEF Broadcast, BroadcastPack, BroadcastHead, BroadcastBody, BroadcastFree, Environment,
                 ServerReceive, SendNotice, Deliver, ServerClose, BrokenPipe, SendJob, appVars
  <2> QED
    BY <1>9, <2>1
<1> QED
  BY <1>10, <1>11, <1>12, <1>13, <1>14, <1>15, <1>16, <1>17, <1>18 DEF Next, Main, Application

\* When no write comes to nothing, Work has announced, when it grabs, every
\* function that was registered before it but those whose slot a later
\* registration took, even one at that time; a DelFunction is excepted.
THEOREM AllAnnouncedAtGrab ==
    ASSUME "none" \notin WriteOutcomes
    PROVE  Spec => []AnnouncedBeforeGrab
<1>1. Init => Announced
  BY DEF Init, Announced, PastGrab
<1>2. Typed /\ Table /\ Announced /\ [Next]_vars => Announced'
  BY SessionAssumption, AnnouncedNext
<1>3. Reads => Typed /\ Table
  BY DEF Reads
<1>4. Announced => AnnouncedBeforeGrab
  BY DEF Announced, Done, Told, PastGrab, AnnouncedBeforeGrab
<1> QED
  BY <1>1, <1>2, <1>3, <1>4, ReadsCorrect, PTL DEF Spec

\* Both parts of a frame of the worker's own, when writes are whole.
LEMMA FullFrame ==
    ASSUME SessionAssumption, WriteOutcomes = {"full"}, wire \in Seq(Parts),
           NEW k \in Kinds, NEW x \in Args, NEW w \in FrameWritten(k, x)
    PROVE  /\ w \in Seq(Parts) /\ Len(w) = Len(wire) + 2 /\ \A i \in 1 .. Len(wire) : w[i] = wire[i]
           /\ w[Len(wire) + 1] = Part("head", k, 0) /\ w[Len(wire) + 2] = Part("body", k, x)
<1> DEFINE p == Part("head", k, 0)
           q == Part("body", k, x)
           v == Append(wire, p)
<1>1. PICK o1 \in WriteOutcomes, o2 \in WriteOutcomes :
          /\ w = Write(Write(wire, p, o1), q, o2)
          /\ o1 \in Results /\ o2 \in Results
          /\ p \in Parts /\ q \in Parts
          /\ Write(wire, p, o1) \in Seq(Parts)
          /\ w \in Seq(Parts) /\ Len(wire) <= Len(w)
  BY FrameWrites
<1>2. p \in Parts /\ q \in Parts /\ w \in Seq(Parts)
  BY <1>1
<1>3. w = Append(v, q)
  <2>1. o1 = "full" /\ o2 = "full"
    OBVIOUS
  <2> QED
    BY <1>1, <2>1 DEF Write
<1> HIDE DEF p, q
<1>4. /\ v \in Seq(Parts) /\ Len(v) = Len(wire) + 1 /\ v[Len(wire) + 1] = p
      /\ \A i \in 1 .. Len(wire) : v[i] = wire[i]
  BY <1>2, AppendProperties
<1> HIDE DEF v
<1>5. Len(w) = Len(v) + 1 /\ w[Len(v) + 1] = q /\ \A i \in 1 .. Len(v) : w[i] = v[i]
  BY <1>2, <1>3, <1>4, AppendProperties
<1>6. Len(wire) \in Nat
  OBVIOUS
<1>7. /\ Len(v) + 1 = Len(wire) + 2 /\ Len(wire) + 1 \in 1 .. Len(v)
      /\ \A i \in 1 .. Len(wire) : i \in 1 .. Len(v)
  BY <1>4, <1>6
<1> QED
  BY <1>2, <1>4, <1>5, <1>7 DEF p, q

\* The body that belongs to a header.
LEMMA BodyOf ==
    \A p, q \in Parts :
        q.part = "body" /\ q.kind = p.kind /\ q.whole = p.whole
            => q = [p EXCEPT !.part = "body", !.arg = q.arg]
  BY DEF Parts

\* A step that writes nothing, and leaves a body that is to be written so.
LEMMA PairedSame ==
    ASSUME Paired, wire' = wire, calls > 0 => calls' > 0, PastGrab' = PastGrab,
           \/ calls' > 0
           \/ rw = "body" => rw' = "body" /\ wreq' = wreq /\ req'[wreq].kind = req[wreq].kind
    PROVE  Paired'
<1>1. FramesWhole'
  BY DEF Paired, FramesWhole, Got
<1>2. HasGrabbed => HasGrabbed'
  BY DEF HasGrabbed, Got
<1>3. HeadAtEnd' = HeadAtEnd /\ LastPart' = LastPart
  BY DEF HeadAtEnd, LastPart
<1> QED
  BY <1>1, <1>2, <1>3 DEF Paired

\* A step that writes a part after the grab.
LEMMA PairedPart ==
    ASSUME Paired, wire \in Seq(Parts), NEW p \in Parts, wire' = Append(wire, p), calls' = calls,
           PastGrab, PastGrab',
           HeadAtEnd => calls > 0 \/ p = [LastPart EXCEPT !.part = "body", !.arg = p.arg],
           p.part = "head" => calls > 0 \/ (rw' = "body" /\ p = Part("head", req'[wreq'].kind, 0))
    PROVE  Paired'
<1>1. /\ Len(wire') = Len(wire) + 1 /\ wire'[Len(wire) + 1] = p /\ Len(wire) \in Nat
      /\ \A i \in 1 .. Len(wire) : wire'[i] = wire[i]
  BY AppendProperties
<1>2. HasGrabbed /\ FramesWhole
  BY DEF Paired
<1>3. HasGrabbed'
  <2>1. PICK g \in 1 .. Len(wire) : Got(g, "grab")
    BY <1>2 DEF HasGrabbed
  <2>2. g \in 1 .. Len(wire') /\ wire'[g] = wire[g]
    BY <1>1, <2>1
  <2> QED
    BY <2>1, <2>2 DEF HasGrabbed, Got
<1>4. LastPart' = p /\ wire' # <<>>
  <2>1. Len(wire') # 0 /\ wire'[Len(wire')] = p
    BY <1>1
  <2> QED
    BY <2>1 DEF LastPart
<1>5. ASSUME NEW k \in 1 .. Len(wire') - 1, wire'[k].part = "head"
      PROVE  \/ wire'[k + 1] = [wire'[k] EXCEPT !.part = "body", !.arg = wire'[k + 1].arg]
             \/ calls' > 0 /\ \E g \in 1 .. k : Got(g, "grab")'
  <2>1. k \in 1 .. Len(wire) /\ wire'[k] = wire[k] /\ \A g \in 1 .. k : wire'[g] = wire[g]
    BY <1>1
  <2>2. CASE k \in 1 .. Len(wire) - 1
    <3>1. k + 1 \in 1 .. Len(wire)
      BY <1>1, <2>2
    <3>2. wire'[k + 1] = wire[k + 1]
      BY <1>1, <3>1
    <3>3. \/ wire[k + 1] = [wire[k] EXCEPT !.part = "body", !.arg = wire[k + 1].arg]
          \/ calls > 0 /\ \E g \in 1 .. k : Got(g, "grab")
      BY <1>2, <1>5, <2>1, <2>2 DEF FramesWhole
    <3> QED
      BY <2>1, <3>2, <3>3 DEF Got
  <2>3. CASE k = Len(wire)
    <3>1. wire'[k + 1] = p /\ wire'[k] = LastPart /\ wire # <<>>
      BY <1>1, <2>1, <2>3 DEF LastPart
    <3>2. HeadAtEnd
      BY <1>5, <3>1 DEF HeadAtEnd
    <3>3. CASE p = [LastPart EXCEPT !.part = "body", !.arg = p.arg]
      BY <3>1, <3>3
    <3>4. CASE calls > 0
      BY <1>2, <2>1, <2>3, <3>4 DEF HasGrabbed, Got
    <3> QED
      BY <3>2, <3>3, <3>4
  <2>4. k \in 1 .. Len(wire) - 1 \/ k = Len(wire)
    BY <1>1, <2>1
  <2> QED
    BY <2>2, <2>3, <2>4
<1>6. FramesWhole'
  BY <1>5 DEF FramesWhole
<1> QED
  BY <1>3, <1>4, <1>6 DEF Paired, HeadAtEnd

\* A step that writes a whole frame, none having been begun.
LEMMA PairedFrame ==
    ASSUME SessionAssumption, WriteOutcomes = {"full"}, Paired, ~HeadAtEnd, wire \in Seq(Parts),
           NEW k \in Kinds, NEW x \in Args, wire' \in FrameWritten(k, x), calls' = calls,
           PastGrab' => PastGrab \/ k = "grab"
    PROVE  Paired'
<1> DEFINE n == Len(wire)
<1>1. /\ wire' \in Seq(Parts) /\ Len(wire') = n + 2 /\ n \in Nat /\ \A i \in 1 .. n : wire'[i] = wire[i]
      /\ wire'[n + 1] = Part("head", k, 0) /\ wire'[n + 2] = Part("body", k, x)
  BY FullFrame
<1>2. \A g \in 1 .. n : Got(g, "grab") => Got(g, "grab")'
  BY <1>1 DEF Got
<1>4. PastGrab' => HasGrabbed'
  <2>1. \A i \in 1 .. n + 2 : i \in 1 .. Len(wire')
    BY <1>1
  <2>2. CASE k = "grab"
    <3>1. wire'[n + 2].part = "body" /\ wire'[n + 2].kind = "grab" /\ wire'[n + 2].whole
      BY <1>1, <2>2 DEF Part
    <3>2. n + 2 \in 1 .. Len(wire')
      BY <1>1
    <3> QED
      BY <3>1, <3>2 DEF HasGrabbed, Got
  <2>3. CASE PastGrab
    <3>1. PICK g \in 1 .. n : Got(g, "grab")
      BY <2>3 DEF Paired, HasGrabbed
    <3>2. g \in 1 .. Len(wire')
      BY <1>1
    <3> QED
      BY <1>2, <3>1, <3>2 DEF HasGrabbed
  <2> QED
    BY <2>2, <2>3
<1>5. ~HeadAtEnd'
  BY <1>1 DEF HeadAtEnd, LastPart, Part
<1>6. ASSUME NEW i \in 1 .. Len(wire') - 1, wire'[i].part = "head"
      PROVE  \/ wire'[i + 1] = [wire'[i] EXCEPT !.part = "body", !.arg = wire'[i + 1].arg]
             \/ calls' > 0 /\ \E g \in 1 .. i : Got(g, "grab")'
  <2>1. i \in 1 .. n - 1 \/ (i = n /\ n \in 1 .. n) \/ i = n + 1
    <3>1. n \in Nat /\ i \in 1 .. (n + 2) - 1
      BY <1>1
    <3> HIDE DEF n
    <3> QED
      BY <3>1
  <2>2. CASE i \in 1 .. n - 1
    <3>1. i \in 1 .. n /\ i + 1 \in 1 .. n /\ \A g \in 1 .. i : g \in 1 .. n
      BY <1>1, <2>2
    <3>2. wire'[i] = wire[i] /\ wire'[i + 1] = wire[i + 1]
      BY <1>1, <3>1
    <3>3. \/ wire[i + 1] = [wire[i] EXCEPT !.part = "body", !.arg = wire[i + 1].arg]
          \/ calls > 0 /\ \E g \in 1 .. i : Got(g, "grab")
      BY <1>6, <2>2, <3>2 DEF Paired, FramesWhole
    <3> QED
      BY <1>2, <3>1, <3>2, <3>3
  <2>3. CASE i = n /\ n \in 1 .. n
    <3>1. wire'[n] = wire[n]
      BY <1>1, <2>3
    <3>2. wire # <<>>
      BY <2>3
    <3> QED
      BY <1>6, <2>3, <3>1, <3>2 DEF HeadAtEnd, LastPart
  <2>4. CASE i = n + 1
    <3>1. i + 1 = n + 2
      BY <1>1, <2>4
    <3>2. /\ wire'[i] \in Parts /\ wire'[i + 1] \in Parts
          /\ wire'[i + 1].part = "body" /\ wire'[i + 1].kind = wire'[i].kind
          /\ wire'[i + 1].whole = wire'[i].whole
      <4>1. n + 1 \in 1 .. Len(wire') /\ n + 2 \in 1 .. Len(wire')
        BY <1>1
      <4>2. wire'[n + 1] \in Parts /\ wire'[n + 2] \in Parts
        BY <1>1, <4>1, ElementOfSeq
      <4>3. /\ wire'[n + 2].part = "body" /\ wire'[n + 2].kind = k /\ wire'[n + 2].whole = TRUE
            /\ wire'[n + 1].kind = k /\ wire'[n + 1].whole = TRUE
        BY <1>1 DEF Part
      <4> QED
        BY <2>4, <3>1, <4>2, <4>3
    <3> QED
      BY <3>2, BodyOf
  <2> QED
    BY <2>1, <2>2, <2>3, <2>4
<1>7. FramesWhole'
  BY <1>6 DEF FramesWhole
<1> QED
  BY <1>4, <1>5, <1>7 DEF Paired

\* Every step keeps the parts in pairs.
LEMMA PairedNext ==
    ASSUME SessionAssumption, WriteOutcomes = {"full"}, Typed, Heap, Paired, [Next]_vars
    PROVE  Paired'
<1>1. /\ wire \in Seq(Parts) /\ Len(wire) \in Nat /\ calls \in Nat
      /\ app.at # "idle" => calls > 0
      /\ rw # "none" => PastGrab
  <2>1. calls \in 0 .. RuntimeCalls
    BY DEF Typed, SessionShape
  <2>2. calls \in Nat
    BY <2>1
  <2>3. rw # "none" => PastGrab
    BY DEF Typed, SessionShape, Ranges, PastGrab
  <2>4. app.at # "idle" => calls > 0
    BY DEF Heap
  <2> QED
    BY <2>2, <2>3, <2>4, Shape
<1>2. ASSUME UNCHANGED <<wire, calls, main>>,
             rw # "body" \/ calls > 0 \/ UNCHANGED <<rw, wreq, req>>
      PROVE  Paired'
  <2>1. \/ calls' > 0
        \/ rw = "body" => rw' = "body" /\ wreq' = wreq /\ req'[wreq].kind = req[wreq].kind
    BY <1>2
  <2> QED
    BY <1>2, <2>1, PairedSame DEF PastGrab
<1>3. CASE UNCHANGED vars
  BY <1>2, <1>3 DEF vars, reader, appVars
<1>4. CASE Announce \/ Grab
  <2>1. calls' = calls /\ UNCHANGED <<rw, wreq, req>> /\ ~PastGrab
    BY <1>4 DEF Announce, Grab, PastGrab, appVars, reader
  <2>2. ~HeadAtEnd
    BY <2>1 DEF Paired
  <2>3. CASE Announce
    <3>1. ~PastGrab'
      BY <2>3 DEF Announce, PastGrab
    <3>2. wire' = wire \/ \E k \in Kinds, x \in Args : wire' \in FrameWritten(k, x)
      BY <2>3, MainFrame
    <3>3. CASE wire' = wire
      BY <1>1, <2>1, <3>1, <3>3, PairedSame DEF PastGrab
    <3>4. ASSUME NEW k \in Kinds, NEW x \in Args, wire' \in FrameWritten(k, x)
          PROVE  Paired'
      BY <1>1, <2>1, <2>2, <3>1, <3>4, PairedFrame
    <3> QED
      BY <3>2, <3>3, <3>4
  <2>4. CASE Grab
    <3>1. NoJob \in Args /\ "grab" \in Kinds
      BY Shape DEF Kinds, NoJob
    <3> QED
      BY <1>1, <2>1, <2>2, <2>4, <3>1, PairedFrame DEF Grab
  <2> QED
    BY <1>4, <2>3, <2>4
<1>5. CASE RegisterNext \/ Ready \/ Find \/ Start \/ Join
  <2>1. UNCHANGED <<wire, calls>> /\ PastGrab' = PastGrab
    BY <1>5 DEF RegisterNext, Ready, Find, Start, Join, PastGrab, appVars
  <2>2. rw # "body" \/ UNCHANGED <<rw, wreq, req>>
    <3>1. Start => rw # "body"
      BY DEF Start, Typed, Ranges
    <3> QED
      BY <1>5, <3>1 DEF RegisterNext, Ready, Find, Join, reader
  <2> QED
    BY <2>1, <2>2, PairedSame
<1>6. CASE \/ ReadEvent \/ ReadDropped \/ ReadHeader \/ ReadBody \/ ReadClosed \/ ReadFailed
           \/ BadBody \/ GetFunc \/ RefuseJob \/ CallFunction \/ CallFreed \/ CopyResult
           \/ PackResult \/ WriteEvent \/ ServerReceive \/ SendNotice \/ Deliver \/ ServerClose
           \/ BrokenPipe
  <2>1. UNCHANGED <<wire, calls, main>> /\ (rw # "body" \/ UNCHANGED <<rw, wreq, req>>)
    BY <1>6 DEF ReadEvent, ReadDropped, ReadHeader, ReadBody, Reading, ReadClosed, ReadFailed,
                BadBody, GetFunc, RefuseJob, NotFound, OtherName, CallFunction, CallFreed,
                CopyResult, PackResult, ReadDone, WriteEvent, ServerReceive, SendNotice, Deliver,
                ServerClose, BrokenPipe, appVars, reader
  <2> QED
    BY <1>2, <2>1
<1>7. ASSUME NEW f \in Funcs, NEW n \in BodySizes, NEW d \in Decodable, SendJob(f, n, d)
      PROVE  Paired'
  BY <1>2, <1>7 DEF SendJob, appVars, reader
<1>8. ASSUME NEW f \in Funcs, AddFunction(f) \/ DelFunction(f)
      PROVE  Paired'
  <2>1. UNCHANGED <<wire, main>> /\ calls' = calls + 1
    BY <1>8 DEF AddFunction, DelFunction, Call
  <2>2. calls' > 0
    BY <1>1, <2>1
  <2> QED
    BY <2>1, <2>2, PairedSame DEF PastGrab
<1>9. CASE Broadcast \/ BroadcastPack \/ BroadcastFree
  <2>1. UNCHANGED <<wire, calls, main>> /\ app.at # "idle"
    BY <1>9 DEF Broadcast, BroadcastPack, BroadcastFree
  <2> QED
    BY <1>1, <1>2, <2>1
<1>10. wire # <<>> => LastPart \in Parts
  <2>1. wire # <<>> => Len(wire) \in 1 .. Len(wire)
    BY <1>1, EmptySeq
  <2> QED
    BY <1>1, <2>1, ElementOfSeq DEF LastPart
<1>11. CASE ReplyHead
  <2>1. /\ rw = "head" /\ rw' = "body" /\ WriteHead(wreq)
        /\ UNCHANGED <<main, wreq, calls>>
    BY <1>11 DEF ReplyHead, appVars
  <2>2. wreq \in 1 .. Len(req)
    BY <2>1, OnlyRequest
  <2> DEFINE p == Part("head", req[wreq].kind, 0)
  <2>3. req' = req /\ \E o \in Outcomes : o \in Results /\ p \in Parts /\ wire' = Write(wire, p, o)
    BY <2>1, <2>2, HeadWrites
  <2>4. p \in Parts /\ wire' = Append(wire, p)
    BY <2>1, <2>3 DEF Outcomes, Write
  <2>5. HeadAtEnd => calls > 0
    BY <2>1 DEF Paired
  <2>6. p = Part("head", req'[wreq'].kind, 0)
    BY <2>1, <2>3
  <2>7. PastGrab /\ PastGrab'
    BY <1>1, <2>1 DEF PastGrab
  <2> HIDE DEF p
  <2> QED
    BY <1>1, <2>1, <2>4, <2>5, <2>6, <2>7, PairedPart
<1>12. CASE ReplyBody
  <2>1. /\ rw = "body" /\ WriteBody(wreq) /\ UNCHANGED <<main, calls>>
    BY <1>12 DEF ReplyBody, appVars
  <2>2. wreq \in 1 .. Len(req)
    BY <2>1, OnlyRequest
  <2> DEFINE p == Part("body", req[wreq].kind, req[wreq].arg)
  <2>3. \E o \in Outcomes : o \in Results /\ p \in Parts /\ wire' = Write(wire, p, o)
    BY <2>1, <2>2, BodyWrites
  <2>4. p \in Parts /\ wire' = Append(wire, p)
    BY <2>1, <2>3 DEF Outcomes, Write
  <2>5. HeadAtEnd => calls > 0 \/ p = [LastPart EXCEPT !.part = "body", !.arg = p.arg]
    <3> SUFFICES ASSUME HeadAtEnd, ~(calls > 0)
                 PROVE  p = [LastPart EXCEPT !.part = "body", !.arg = p.arg]
      OBVIOUS
    <3>1. LastPart = Part("head", req[wreq].kind, 0) /\ wire # <<>>
      BY DEF Paired, HeadAtEnd
    <3>2. p.part = "body" /\ p.kind = LastPart.kind /\ p.whole = LastPart.whole
      BY <3>1 DEF Part
    <3> HIDE DEF p
    <3> QED
      BY <1>10, <2>4, <3>1, <3>2, BodyOf
  <2>6. p.part # "head"
    BY DEF Part
  <2>7. PastGrab /\ PastGrab'
    BY <1>1, <2>1 DEF PastGrab
  <2> HIDE DEF p
  <2> QED
    BY <1>1, <2>1, <2>4, <2>5, <2>6, <2>7, PairedPart
<1>13. CASE BroadcastHead \/ BroadcastBody
  <2>1. /\ app.at \in {"head", "body"} /\ UNCHANGED <<main, calls>>
        /\ WriteHead(app.req) \/ WriteBody(app.req)
    BY <1>13 DEF BroadcastHead, BroadcastBody
  <2>2. app.req \in 1 .. Len(req) /\ rw # "none" /\ calls > 0
    BY <1>1, <2>1, OnlyRequest
  <2>3. PastGrab /\ PastGrab'
    BY <1>1, <2>1, <2>2 DEF PastGrab
  <2>4. ASSUME NEW p \in Parts, NEW o \in Outcomes, wire' = Write(wire, p, o)
        PROVE  Paired'
    <3>1. o = "none" \/ o = "full"
      BY DEF Outcomes
    <3>2. CASE o = "none"
      <4>1. wire' = wire
        BY <2>4, <3>2 DEF Write
      <4> QED
        BY <1>2, <2>1, <2>2, <4>1
    <3>3. CASE o = "full"
      <4>1. wire' = Append(wire, p)
        BY <2>4, <3>3 DEF Write
      <4> QED
        BY <1>1, <2>1, <2>2, <2>3, <4>1, PairedPart
    <3> QED
      BY <3>1, <3>2, <3>3
  <2>5. \E p \in Parts, o \in Outcomes : wire' = Write(wire, p, o)
    <3>1. CASE WriteHead(app.req)
      <4> DEFINE q == Part("head", req[app.req].kind, 0)
      <4>1. \E o \in Outcomes : o \in Results /\ q \in Parts /\ wire' = Write(wire, q, o)
        BY <2>2, <3>1, HeadWrites
      <4> HIDE DEF q
      <4> QED
        BY <4>1
    <3>2. CASE WriteBody(app.req)
      <4> DEFINE q == Part("body", req[app.req].kind, req[app.req].arg)
      <4>1. \E o \in Outcomes : o \in Results /\ q \in Parts /\ wire' = Write(wire, q, o)
        BY <2>2, <3>2, BodyWrites
      <4> HIDE DEF q
      <4> QED
        BY <4>1
    <3> QED
      BY <2>1, <3>1, <3>2
  <2> QED
    BY <2>4, <2>5
<1> QED
  BY <1>3, <1>4, <1>5, <1>6, <1>7, <1>8, <1>9, <1>11, <1>12, <1>13
     DEF Next, Main, ReadWrite, Application, Environment

\* When writes are whole, the server gets whole frames until the worker grabs,
\* and as long as no function is added or deleted at run time.
THEOREM FramesStayWhole ==
    ASSUME WriteOutcomes = {"full"}
    PROVE  Spec => []FramesWhole
<1>1. Init => Paired
  <2> SUFFICES ASSUME Init
               PROVE  Paired
    OBVIOUS
  <2>1. wire = <<>> /\ ~PastGrab
    BY DEF Init, PastGrab
  <2>2. Len(wire) = 0 /\ ~HeadAtEnd
    BY <2>1 DEF HeadAtEnd
  <2> QED
    BY <2>1, <2>2 DEF Paired, FramesWhole
<1>2. Reads /\ Paired /\ [Next]_vars => Paired'
  BY SessionAssumption, PairedNext DEF Reads
<1>3. Paired => FramesWhole
  BY DEF Paired
<1> QED
  BY <1>1, <1>2, <1>3, ReadsCorrect, PTL DEF Spec
=============================================================================
