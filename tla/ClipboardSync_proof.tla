------------------------- MODULE ClipboardSync_proof ------------------------
(***************************************************************************)
(* Proofs about ClipboardSync, for any items, initial clipboards and       *)
(* bounds.                                                                 *)
(***************************************************************************)
EXTENDS ClipboardSync, SequenceTheorems, TLAPS

-----------------------------------------------------------------------------
(* The inductive invariant.                                                *)

Labels == {"Idle", "Compare", "Mark", "Send"}

ActorsType ==
  /\ pc \in [Machines -> [Actors -> Labels]]
  /\ got \in [Machines -> [Actors -> Items \cup {None}]]
  /\ \A m \in Machines, a \in Actors : pc[m][a] = "Idle" <=> got[m][a] = None

ItemsType ==
  /\ clip \in [Machines -> Items] /\ last_synced \in [Machines -> Items]
  /\ known \in [Machines -> SUBSET Items]
  /\ left \in [Machines -> SUBSET Items]

OutType ==
  /\ out \in [Machines -> Seq(Items)]
  /\ \A m \in Machines : Len(out[m]) <= OutCap

TransfersType == transfers \in [Machines -> [Items -> Nat]]

SettingType == setting \in [Machines -> [Receivers -> Items \cup {None}]]

SyncType == ActorsType /\ ItemsType /\ OutType /\ TransfersType /\ SettingType

FlagsType ==
  /\ file_transfer_enabled \in [Machines -> BOOLEAN]
  /\ peer_files_enabled \in [Machines -> BOOLEAN]
  /\ statuses \in [Machines -> Seq(BOOLEAN)]

\* Whatever is in the hands of a machine it has had in its clipboard or
\* received.
ClipKnown == \A m \in Machines : clip[m] \in known[m]
SettingKnown ==
  \A m \in Machines, r \in Receivers :
    setting[m][r] = None \/ setting[m][r] \in known[m]
HeldKnown ==
  \A m \in Machines, a \in Actors : pc[m][a] = "Idle" \/ got[m][a] \in known[m]
OutKnown == \A m \in Machines : ToSet(out[m]) \subseteq known[m]
TransfersKnown ==
  \A m \in Machines, i \in Items : transfers[m][i] > 0 => i \in known[m]

KnownInv ==
  ClipKnown /\ SettingKnown /\ HeldKnown /\ OutKnown /\ TransfersKnown

\* The last status under way is the setting.
StatusInv ==
  \A m \in Machines :
    IF statuses[m] = <<>>
    THEN peer_files_enabled[Peer(m)] = file_transfer_enabled[m]
    ELSE statuses[m][Len(statuses[m])] = file_transfer_enabled[m]

SharedInv == SyncType /\ KnownInv /\ MarkedIsShared

FlagsInv == FlagsType /\ StatusInv

-----------------------------------------------------------------------------
(* Facts about machines, queues and steps.                                 *)

\* The two machines are each other's peer.
LEMMA PeerFacts ==
  ASSUME NEW m \in Machines
  PROVE  /\ Peer(m) \in Machines /\ Peer(m) # m /\ Peer(Peer(m)) = m
         /\ \A n \in Machines : n = m \/ n = Peer(m)
BY DEF Machines, Peer

\* What is in a queue after something is added or taken.
LEMMA QueueFacts ==
  ASSUME NEW q \in Seq(Items)
  PROVE  /\ \A i \in Items : /\ Append(q, i) \in Seq(Items)
                             /\ ToSet(Append(q, i)) = ToSet(q) \cup {i}
                             /\ Len(Append(q, i)) = Len(q) + 1
         /\ q # <<>> => /\ Tail(q) \in Seq(Items) /\ Head(q) \in Items
                        /\ Head(q) \in ToSet(q)
                        /\ ToSet(q) = ToSet(Tail(q)) \cup {Head(q)}
                        /\ Len(Tail(q)) <= Len(q)
<1>1. ASSUME NEW i \in Items
      PROVE  /\ Append(q, i) \in Seq(Items)
             /\ ToSet(Append(q, i)) = ToSet(q) \cup {i}
             /\ Len(Append(q, i)) = Len(q) + 1
  BY AppendProperties DEF ToSet
<1>2. ASSUME q # <<>>
      PROVE  /\ Tail(q) \in Seq(Items) /\ Head(q) \in Items
             /\ Head(q) \in ToSet(q) /\ ToSet(q) = ToSet(Tail(q)) \cup {Head(q)}
             /\ Len(Tail(q)) <= Len(q)
  <2>1. /\ Tail(q) \in Seq(Items) /\ Head(q) \in Items
        /\ Len(Tail(q)) = Len(q) - 1 /\ Len(q) \in Nat /\ Len(q) > 0
        /\ \A i \in 1..Len(Tail(q)) : Tail(q)[i] = q[i + 1]
        /\ Head(q) = q[1]
    BY <1>2, HeadTailProperties
  <2>2. Head(q) \in ToSet(q)
    BY <2>1 DEF ToSet
  <2>3. ToSet(Tail(q)) \subseteq ToSet(q)
    BY <2>1 DEF ToSet
  <2>4. ASSUME NEW i \in 1..Len(q) PROVE q[i] \in ToSet(Tail(q)) \cup {Head(q)}
    <3>1. CASE i = 1
      BY <2>1, <3>1
    <3>2. CASE i # 1
      <4>1. i - 1 \in 1..Len(Tail(q)) /\ (i - 1) + 1 = i
        BY <2>1, <3>2
      <4>2. Tail(q)[i - 1] = q[i]
        BY <2>1, <4>1
      <4>3. DOMAIN Tail(q) = 1..Len(Tail(q))
        BY <2>1
      <4>. QED
        BY <4>1, <4>2, <4>3 DEF ToSet
    <3>. QED
      BY <3>1, <3>2
  <2>5. ToSet(q) \subseteq ToSet(Tail(q)) \cup {Head(q)}
    BY <2>4 DEF ToSet
  <2>. QED
    BY <2>1, <2>2, <2>3, <2>5
<1>. QED
  BY <1>1, <1>2

\* An item that leaves is received by the peer, withheld, or a list of files
\* whose transfer is spawned.
LEMMA RouteCases ==
  ASSUME NEW m, NEW i, Route(m, i)
  PROVE  SendText(m, i) \/ Withhold(m, i) \/ SendFiles(m, i)
BY DEF Route

\* The steps, one by one.
LEMMA StepCases ==
  ASSUME [Next]_vars
  PROVE  \/ \E m \in Machines :
              \/ \E i \in Items : Copy(m, i)
              \/ \E a \in Actors : Look(m, a) \/ Compare(m, a) \/ Mark(m, a)
              \/ \E r \in Receivers : SetClipboard(m, r)
              \/ \E i \in Items : TransferArrives(m, i) \/ TransferFails(m, i)
              \/ WatcherSends(m) \/ SenderTakes(m)
              \/ SetFileTransfer(m) \/ ReceiveStatus(m)
         \/ ExitSends \/ EntrySends \/ UNCHANGED vars
BY ItemsAssumption DEF Next, Watcher, Focus, Receiver, Transfer, Actors

-----------------------------------------------------------------------------
(* The clipboards.                                                         *)

\* Type correctness.
LEMMA NextSyncType ==
  ASSUME SyncType, [Next]_vars
  PROVE  SyncType'
<1>. USE DEF SyncType
<1>a. "watcher" \in Actors /\ "focus" \in Actors
      /\ "client" \in Machines /\ "server" \in Machines /\ None \notin Items
  BY ItemsAssumption DEF Actors, Machines, None
<1>b. ASSUME NEW m \in Machines, NEW a \in Actors,
             pc' = [pc EXCEPT ![m][a] = "Idle"], got' = [got EXCEPT ![m][a] = None]
      PROVE  ActorsType'
  BY <1>b DEF ActorsType, Labels
<1>c. /\ UNCHANGED <<pc, got>> => ActorsType'
      /\ UNCHANGED <<clip, last_synced, known, left>> => ItemsType'
      /\ UNCHANGED out => OutType'
      /\ UNCHANGED transfers => TransfersType'
      /\ UNCHANGED setting => SettingType'
  BY DEF ActorsType, ItemsType, OutType, TransfersType, SettingType
<1>d. ASSUME NEW m \in Machines, NEW a \in Actors, pc[m][a] # "Idle"
      PROVE  got[m][a] \in Items
  BY <1>d DEF ActorsType
<1>e. ASSUME NEW m \in Machines, NEW i \in Items,
             out' = [out EXCEPT ![m] = Append(out[m], i)], Len(out[m]) < OutCap
      PROVE  OutType'
  <2>1. /\ Append(out[m], i) \in Seq(Items)
        /\ Len(Append(out[m], i)) = Len(out[m]) + 1 /\ Len(out[m]) \in Nat
    BY QueueFacts DEF OutType
  <2>2. Len(out[m]) + 1 <= OutCap
    BY <1>e, <2>1, ItemsAssumption
  <2>. QED
    BY <1>e, <2>1, <2>2 DEF OutType
<1>f. ASSUME NEW m \in Machines, NEW i \in Items,
             left' = [left EXCEPT ![m] = left[m] \cup {i}],
             UNCHANGED <<clip, last_synced, known>>
      PROVE  ItemsType'
  BY <1>f DEF ItemsType
<1>g. ASSUME NEW m \in Machines, NEW r \in Receivers, NEW i \in Items,
             MarkReceived(m, r, i), UNCHANGED <<clip, left>>
      PROVE  ItemsType' /\ SettingType'
  <2>1. ItemsType'
    BY <1>g DEF MarkReceived, ItemsType
  <2>2. SettingType'
    BY <1>g DEF MarkReceived, SettingType
  <2>. QED
    BY <2>1, <2>2
<1>h. ASSUME NEW m \in Machines, NEW i \in Items,
             \/ transfers' = [transfers EXCEPT ![m][i] = @ + 1]
             \/ /\ transfers[m][i] > 0
                /\ transfers' = [transfers EXCEPT ![m][i] = @ - 1]
      PROVE  TransfersType'
  <2>1. transfers[m][i] \in Nat
    BY DEF TransfersType
  <2>2. /\ transfers[m][i] + 1 \in Nat
        /\ transfers[m][i] > 0 => transfers[m][i] - 1 \in Nat
    BY <2>1
  <2>3. \E k \in Nat : transfers' = [transfers EXCEPT ![m][i] = k]
    BY <1>h, <2>2
  <2>. QED
    BY <2>3 DEF TransfersType
<1>1. ASSUME NEW m \in Machines, NEW i \in Items, Copy(m, i) PROVE SyncType'
  <2>1. ItemsType'
    BY <1>1 DEF Copy, ItemsType
  <2>. QED
    BY <1>1, <1>c, <2>1 DEF Copy
<1>2. ASSUME NEW m \in Machines, NEW a \in Actors, Look(m, a) PROVE SyncType'
  <2>1. clip[m] \in Items
    BY DEF ItemsType
  <2>2. ActorsType'
    BY <1>2, <1>a, <2>1 DEF Look, To, ActorsType, Labels
  <2>. QED
    BY <1>2, <1>c, <2>2 DEF Look, desktopVars
<1>3. ASSUME NEW m \in Machines, NEW a \in Actors, Compare(m, a) PROVE SyncType'
  <2>1. ActorsType'
    <3>1. CASE got[m][a] = last_synced[m]
      <4>1. pc' = [pc EXCEPT ![m][a] = "Idle"] /\ got' = [got EXCEPT ![m][a] = None]
        BY <1>3, <3>1 DEF Compare, To, ActorsType
      <4>. QED
        BY <1>b, <4>1
    <3>2. CASE got[m][a] # last_synced[m]
      <4>1. pc' = [pc EXCEPT ![m][a] = "Mark"] /\ got' = got
        BY <1>3, <3>2 DEF Compare, To, ActorsType
      <4>2. pc[m][a] # "Idle"
        BY <1>3 DEF Compare
      <4>. QED
        BY <4>1, <4>2 DEF ActorsType, Labels
    <3>. QED
      BY <3>1, <3>2
  <2>. QED
    BY <1>3, <1>c, <2>1 DEF Compare, desktopVars
<1>4. ASSUME NEW m \in Machines, NEW a \in Actors, Mark(m, a) PROVE SyncType'
  <2>1. ActorsType'
    BY <1>4 DEF Mark, To, ActorsType, Labels
  <2>2. got[m][a] \in Items
    BY <1>4, <1>d DEF Mark
  <2>3. ItemsType'
    BY <1>4, <2>2 DEF Mark, desktopVars, ItemsType
  <2>. QED
    BY <1>4, <1>c, <2>1, <2>3 DEF Mark
<1>5. ASSUME NEW m \in Machines, WatcherSends(m) PROVE SyncType'
  <2>1. got[m]["watcher"] \in Items
    BY <1>5, <1>a, <1>d DEF WatcherSends
  <2>2. OutType'
    BY <1>5, <1>e, <2>1 DEF WatcherSends
  <2>3. ActorsType'
    BY <1>5, <1>a, <1>b DEF WatcherSends, To
  <2>. QED
    BY <1>5, <1>c, <2>2, <2>3 DEF WatcherSends, desktopVars
<1>6. CASE ExitSends
  <2>1. got["server"]["focus"] \in Items
    BY <1>6, <1>a, <1>d DEF ExitSends
  <2>2. ActorsType'
    BY <1>6, <1>a, <1>b DEF ExitSends, To
  <2>3. UNCHANGED <<clip, last_synced, known, transfers, setting>>
    BY <1>6 DEF ExitSends, desktopVars
  <2>4. CASE Len(out["server"]) < OutCap
    <3>1. /\ out' = [out EXCEPT !["server"] =
                       Append(out["server"], got["server"]["focus"])]
          /\ UNCHANGED left
      BY <1>6, <2>4 DEF ExitSends
    <3>. QED
      BY <1>a, <1>c, <1>e, <2>1, <2>2, <2>3, <2>4, <3>1
  <2>5. CASE ~(Len(out["server"]) < OutCap)
    <3>1. /\ left' = [left EXCEPT !["server"] =
                        left["server"] \cup {got["server"]["focus"]}]
          /\ UNCHANGED out
      BY <1>6, <2>5 DEF ExitSends
    <3>. QED
      BY <1>a, <1>c, <1>f, <2>1, <2>2, <2>3, <3>1
  <2>. QED
    BY <2>4, <2>5
<1>r. ASSUME NEW m \in Machines, NEW i \in Items, Route(m, i), UNCHANGED clip
      PROVE  ItemsType' /\ TransfersType' /\ SettingType'
  <2>1. CASE SendText(m, i)
    BY <1>c, <1>g, <1>r, <2>1, PeerFacts DEF SendText, Receivers
  <2>2. CASE Withhold(m, i)
    BY <1>c, <1>f, <1>r, <2>2 DEF Withhold
  <2>3. CASE SendFiles(m, i)
    BY <1>c, <1>h, <1>r, <2>3 DEF SendFiles
  <2>. QED
    BY <1>r, <2>1, <2>2, <2>3, RouteCases
<1>7. ASSUME NEW m \in Machines, SenderTakes(m) PROVE SyncType'
  <2>1. /\ Head(out[m]) \in Items /\ Tail(out[m]) \in Seq(Items)
        /\ Len(Tail(out[m])) <= OutCap
    <3>1. /\ out[m] # <<>> /\ Len(out[m]) <= OutCap /\ Len(out[m]) \in Nat
          /\ out[m] \in Seq(Items)
      BY <1>7 DEF SenderTakes, OutType
    <3>2. /\ Head(out[m]) \in Items /\ Tail(out[m]) \in Seq(Items)
          /\ Len(Tail(out[m])) <= Len(out[m])
      BY <3>1, QueueFacts
    <3>3. Len(Tail(out[m])) \in Nat
      BY <3>2
    <3>. QED
      BY <3>1, <3>2, <3>3, ItemsAssumption
  <2>2. Route(m, Head(out[m])) /\ UNCHANGED <<clip, pc, got>>
    BY <1>7 DEF SenderTakes
  <2>3. OutType'
    BY <1>7, <2>1 DEF SenderTakes, OutType
  <2>. QED
    BY <1>c, <1>r, <2>1, <2>2, <2>3
<1>8. CASE EntrySends
  <2>1. got["client"]["focus"] \in Items
    BY <1>8, <1>a, <1>d DEF EntrySends
  <2>2. Route("client", got["client"]["focus"]) /\ UNCHANGED <<clip, out>>
    BY <1>8 DEF EntrySends
  <2>3. ActorsType'
    BY <1>8, <1>a, <1>b DEF EntrySends, To
  <2>. QED
    BY <1>a, <1>c, <1>r, <2>1, <2>2, <2>3
<1>9. ASSUME NEW m \in Machines, NEW r \in Receivers, SetClipboard(m, r)
      PROVE  SyncType'
  <2>1. setting[m][r] \in Items
    BY <1>9 DEF SetClipboard, SettingType
  <2>2. ItemsType'
    BY <1>9, <2>1 DEF SetClipboard, ItemsType
  <2>3. SettingType'
    BY <1>9 DEF SetClipboard, SettingType
  <2>. QED
    BY <1>9, <1>c, <2>2, <2>3 DEF SetClipboard
<1>10. ASSUME NEW m \in Machines, SetFileTransfer(m) \/ ReceiveStatus(m)
       PROVE  SyncType'
  BY <1>10, <1>c DEF SetFileTransfer, ReceiveStatus, desktopVars
<1>11. ASSUME NEW m \in Machines, NEW i \in Items, TransferArrives(m, i)
       PROVE  SyncType'
  <2>1. TransfersType'
    BY <1>11, <1>h DEF TransferArrives
  <2>2. ItemsType' /\ SettingType'
    BY <1>11, <1>g, PeerFacts DEF TransferArrives, Receivers
  <2>. QED
    BY <1>11, <1>c, <2>1, <2>2 DEF TransferArrives
<1>12. ASSUME NEW m \in Machines, NEW i \in Items, TransferFails(m, i)
       PROVE  SyncType'
  <2>1. TransfersType'
    BY <1>12, <1>h DEF TransferFails
  <2>2. ItemsType'
    BY <1>12, <1>f DEF TransferFails, desktopVars
  <2>. QED
    BY <1>12, <1>c, <2>1, <2>2 DEF TransferFails
<1>13. CASE UNCHANGED vars
  BY <1>13, <1>c DEF vars, desktopVars
<1>. QED
  BY <1>1, <1>2, <1>3, <1>4, <1>5, <1>6, <1>7, <1>8, <1>9, <1>10, <1>11, <1>12,
     <1>13, StepCases

\* Nothing is read, queued, sent or set that its machine does not know.
LEMMA NextKnown ==
  ASSUME SyncType, KnownInv, [Next]_vars
  PROVE  KnownInv'
<1>. USE DEF SyncType, KnownInv
<1> DEFINE Grows == \A n \in Machines : known[n] \subseteq known'[n]
<1>a. "watcher" \in Actors /\ "focus" \in Actors
      /\ "client" \in Machines /\ "server" \in Machines
  BY DEF Actors, Machines
<1>b. ASSUME NEW m \in Machines, NEW a \in Actors,
             pc' = [pc EXCEPT ![m][a] = "Idle"], got' = [got EXCEPT ![m][a] = None],
             Grows
      PROVE  HeldKnown'
  <2>1. \A n \in Machines, b \in Actors :
          pc'[n][b] = "Idle" \/ (pc'[n][b] = pc[n][b] /\ got'[n][b] = got[n][b])
    BY <1>b DEF ActorsType
  <2>. QED
    BY <1>b, <2>1 DEF HeldKnown
<1>c. ASSUME Grows
      PROVE  /\ UNCHANGED clip => ClipKnown'
             /\ UNCHANGED setting => SettingKnown'
             /\ UNCHANGED <<pc, got>> => HeldKnown'
             /\ UNCHANGED out => OutKnown'
             /\ UNCHANGED transfers => TransfersKnown'
  <2>1. UNCHANGED clip => ClipKnown'
    BY <1>c DEF ClipKnown
  <2>2. UNCHANGED setting => SettingKnown'
    BY <1>c DEF SettingKnown
  <2>3. UNCHANGED <<pc, got>> => HeldKnown'
    BY <1>c DEF HeldKnown
  <2>4. UNCHANGED out => OutKnown'
    BY <1>c DEF OutKnown
  <2>5. UNCHANGED transfers => TransfersKnown'
    BY <1>c DEF TransfersKnown
  <2>. QED
    BY <2>1, <2>2, <2>3, <2>4, <2>5
<1>d. UNCHANGED known => Grows
  OBVIOUS
<1>e. ASSUME NEW m \in Machines, NEW i \in known[m],
             out' = [out EXCEPT ![m] = Append(out[m], i)], Grows
      PROVE  OutKnown'
  <2>1. ToSet(Append(out[m], i)) \subseteq known[m]
    BY QueueFacts DEF OutType, ItemsType, OutKnown
  <2>. QED
    BY <1>e, <2>1 DEF OutType, OutKnown
<1>g. ASSUME NEW m \in Machines, NEW r \in Receivers, NEW i, MarkReceived(m, r, i)
      PROVE  Grows /\ SettingKnown'
  <2>1. /\ setting' = [setting EXCEPT ![m][r] = i]
        /\ known' = [known EXCEPT ![m] = known[m] \cup {i}]
    BY <1>g DEF MarkReceived
  <2>2. Grows /\ i \in known'[m]
    BY <2>1 DEF ItemsType
  <2>3. ASSUME NEW n \in Machines, NEW q \in Receivers
        PROVE  setting'[n][q] = setting[n][q] \/ (n = m /\ setting'[n][q] = i)
    BY <2>1 DEF SettingType
  <2>. QED
    BY <2>2, <2>3 DEF SettingKnown
<1>h. ASSUME NEW m \in Machines, NEW i \in known[m], Grows,
             \/ transfers' = [transfers EXCEPT ![m][i] = @ + 1]
             \/ transfers' = [transfers EXCEPT ![m][i] = @ - 1]
      PROVE  TransfersKnown'
  <2>1. \A n \in Machines, j \in Items :
          transfers'[n][j] = transfers[n][j] \/ (n = m /\ j = i)
    BY <1>h DEF TransfersType
  <2>. QED
    BY <1>h, <2>1 DEF TransfersKnown
<1>1. ASSUME NEW m \in Machines, NEW i \in Items, Copy(m, i) PROVE KnownInv'
  <2>1. Grows /\ ClipKnown'
    BY <1>1 DEF Copy, ClipKnown, ItemsType
  <2>. QED
    BY <1>1, <1>c, <2>1 DEF Copy
<1>2. ASSUME NEW m \in Machines, NEW a \in Actors,
             Look(m, a) \/ Compare(m, a) \/ Mark(m, a)
      PROVE  KnownInv'
  <2>0. UNCHANGED <<clip, known, setting, out, transfers>>
    BY <1>2 DEF Look, Compare, Mark, desktopVars
  <2>1. CASE Look(m, a)
    <3>1. clip[m] \in known[m]
      BY DEF ClipKnown
    <3>2. got' = [got EXCEPT ![m][a] = clip[m]] /\ pc' = [pc EXCEPT ![m][a] = "Compare"]
      BY <2>1 DEF Look, To
    <3>3. HeldKnown'
      BY <2>0, <3>1, <3>2 DEF HeldKnown, ActorsType
    <3>. QED
      BY <1>c, <1>d, <2>0, <3>3
  <2>2. CASE Compare(m, a)
    <3>1. CASE got[m][a] = last_synced[m]
      <4>1. pc' = [pc EXCEPT ![m][a] = "Idle"] /\ got' = [got EXCEPT ![m][a] = None]
        BY <2>2, <3>1 DEF Compare, To, ActorsType
      <4>. QED
        BY <1>b, <1>c, <1>d, <2>0, <4>1
    <3>2. CASE got[m][a] # last_synced[m]
      <4>1. /\ pc' = [pc EXCEPT ![m][a] = "Mark"] /\ got' = got
            /\ pc[m][a] # "Idle"
        BY <2>2, <3>2 DEF Compare, To, ActorsType
      <4>2. HeldKnown'
        BY <2>0, <4>1 DEF HeldKnown, ActorsType
      <4>. QED
        BY <1>c, <1>d, <2>0, <4>2
    <3>. QED
      BY <3>1, <3>2
  <2>3. CASE Mark(m, a)
    <3>1. /\ pc' = [pc EXCEPT ![m][a] = "Send"] /\ got' = got
          /\ pc[m][a] # "Idle"
      BY <2>3 DEF Mark, To
    <3>2. HeldKnown'
      BY <2>0, <3>1 DEF HeldKnown, ActorsType
    <3>. QED
      BY <1>c, <1>d, <2>0, <3>2
  <2>. QED
    BY <1>2, <2>1, <2>2, <2>3
<1>3. ASSUME NEW m \in Machines, WatcherSends(m) PROVE KnownInv'
  <2>1. got[m]["watcher"] \in known[m]
    BY <1>3, <1>a DEF WatcherSends, HeldKnown
  <2>2. UNCHANGED <<clip, known, setting, transfers>>
    BY <1>3 DEF WatcherSends, desktopVars
  <2>3. OutKnown'
    BY <1>3, <1>d, <1>e, <2>1, <2>2 DEF WatcherSends
  <2>4. HeldKnown'
    BY <1>3, <1>a, <1>b, <1>d, <2>2 DEF WatcherSends, To
  <2>. QED
    BY <1>c, <1>d, <2>2, <2>3, <2>4
<1>4. CASE ExitSends
  <2>1. got["server"]["focus"] \in known["server"]
    BY <1>4, <1>a DEF ExitSends, HeldKnown
  <2>2. UNCHANGED <<clip, known, setting, transfers>>
    BY <1>4 DEF ExitSends, desktopVars
  <2>3. OutKnown'
    <3>1. \/ out' = [out EXCEPT !["server"] =
                       Append(out["server"], got["server"]["focus"])]
          \/ UNCHANGED out
      BY <1>4 DEF ExitSends
    <3>. QED
      BY <1>a, <1>c, <1>d, <1>e, <2>1, <2>2, <3>1
  <2>4. HeldKnown'
    BY <1>4, <1>a, <1>b, <1>d, <2>2 DEF ExitSends, To
  <2>. QED
    BY <1>c, <1>d, <2>2, <2>3, <2>4
<1>r. ASSUME NEW m \in Machines, NEW i \in known[m], Route(m, i)
      PROVE  Grows /\ SettingKnown' /\ TransfersKnown'
  <2>1. CASE SendText(m, i)
    BY <1>c, <1>g, <2>1, PeerFacts DEF SendText, Receivers
  <2>2. CASE Withhold(m, i)
    BY <1>c, <1>d, <2>2 DEF Withhold
  <2>3. CASE SendFiles(m, i)
    BY <1>c, <1>d, <1>h, <2>3 DEF SendFiles
  <2>. QED
    BY <1>r, <2>1, <2>2, <2>3, RouteCases
<1>5. ASSUME NEW m \in Machines, SenderTakes(m) PROVE KnownInv'
  <2>1. /\ Head(out[m]) \in known[m]
        /\ ToSet(Tail(out[m])) \subseteq known[m]
    BY <1>5, QueueFacts DEF SenderTakes, OutType, OutKnown
  <2>2. /\ Route(m, Head(out[m])) /\ UNCHANGED <<clip, pc, got>>
        /\ out' = [out EXCEPT ![m] = Tail(out[m])]
    BY <1>5 DEF SenderTakes
  <2>3. Grows /\ SettingKnown' /\ TransfersKnown'
    BY <1>r, <2>1, <2>2
  <2>4. OutKnown'
    BY <2>1, <2>2, <2>3 DEF OutType, OutKnown
  <2>. QED
    BY <1>c, <2>2, <2>3, <2>4
<1>6. CASE EntrySends
  <2>1. got["client"]["focus"] \in known["client"]
    BY <1>6, <1>a DEF EntrySends, HeldKnown
  <2>2. Route("client", got["client"]["focus"]) /\ UNCHANGED <<clip, out>>
    BY <1>6 DEF EntrySends
  <2>3. Grows /\ SettingKnown' /\ TransfersKnown'
    BY <1>a, <1>r, <2>1, <2>2
  <2>4. HeldKnown'
    BY <1>6, <1>a, <1>b, <2>3 DEF EntrySends, To
  <2>. QED
    BY <1>c, <2>2, <2>3, <2>4
<1>7. ASSUME NEW m \in Machines, NEW r \in Receivers, SetClipboard(m, r)
      PROVE  KnownInv'
  <2>1. setting[m][r] \in known[m]
    BY <1>7 DEF SetClipboard, SettingKnown
  <2>2. UNCHANGED <<known, pc, got, out, transfers>>
    BY <1>7 DEF SetClipboard
  <2>3. ClipKnown'
    BY <1>7, <2>1, <2>2 DEF SetClipboard, ClipKnown, ItemsType
  <2>4. \A n \in Machines, q \in Receivers : setting'[n][q] \in {None, setting[n][q]}
    BY <1>7 DEF SetClipboard, SettingType
  <2>5. SettingKnown'
    BY <2>2, <2>4 DEF SettingKnown
  <2>. QED
    BY <1>c, <1>d, <2>2, <2>3, <2>5
<1>8. ASSUME NEW m \in Machines, SetFileTransfer(m) \/ ReceiveStatus(m)
      PROVE  KnownInv'
  BY <1>8, <1>c, <1>d DEF SetFileTransfer, ReceiveStatus, desktopVars
<1>9. ASSUME NEW m \in Machines, NEW i \in Items, TransferArrives(m, i)
      PROVE  KnownInv'
  <2>1. Grows /\ SettingKnown'
    BY <1>9, <1>g, PeerFacts DEF TransferArrives, Receivers
  <2>2. i \in known[m]
    BY <1>9 DEF TransferArrives, TransfersKnown
  <2>3. TransfersKnown'
    BY <1>9, <1>h, <2>1, <2>2 DEF TransferArrives
  <2>. QED
    BY <1>9, <1>c, <2>1, <2>3 DEF TransferArrives
<1>10. ASSUME NEW m \in Machines, NEW i \in Items, TransferFails(m, i)
       PROVE  KnownInv'
  <2>1. UNCHANGED <<clip, known, pc, got, out, setting>>
    BY <1>10 DEF TransferFails, desktopVars
  <2>2. i \in known[m]
    BY <1>10 DEF TransferFails, TransfersKnown
  <2>3. TransfersKnown'
    BY <1>10, <1>d, <1>h, <2>1, <2>2 DEF TransferFails
  <2>. QED
    BY <1>c, <1>d, <2>1, <2>3
<1>11. CASE UNCHANGED vars
  BY <1>11, <1>c, <1>d DEF vars, desktopVars
<1>. QED
  BY <1>1, <1>2, <1>3, <1>4, <1>5, <1>6, <1>7, <1>8, <1>9, <1>10, <1>11, StepCases

\* A queue or a set of items grows by one, or stays.
LEMMA GrowsBy ==
  ASSUME NEW n \in Machines, SyncType, NEW m \in Machines, NEW x \in Items,
         \/ /\ out' = [out EXCEPT ![m] = Append(out[m], x)]
            /\ UNCHANGED left
         \/ /\ left' = [left EXCEPT ![m] = left[m] \cup {x}]
            /\ UNCHANGED out
  PROVE  /\ ToSet(out[n]) \subseteq ToSet(out'[n])
         /\ left[n] \subseteq left'[n]
         /\ n = m => x \in ToSet(out'[n]) \cup left'[n]
<1>. USE DEF SyncType, OutType, ItemsType
<1>1. ToSet(Append(out[m], x)) = ToSet(out[m]) \cup {x}
  BY QueueFacts
<1>2. CASE /\ out' = [out EXCEPT ![m] = Append(out[m], x)]
           /\ UNCHANGED left
  <2>1. CASE n = m
    <3>1. out'[n] = Append(out[m], x)
      BY <1>2, <2>1
    <3>. QED
      BY <1>1, <1>2, <2>1, <3>1
  <2>2. CASE n # m
    <3>1. out'[n] = out[n]
      BY <1>2, <2>2
    <3>. QED
      BY <1>2, <2>2, <3>1
  <2>. QED
    BY <2>1, <2>2
<1>3. CASE /\ left' = [left EXCEPT ![m] = left[m] \cup {x}]
           /\ UNCHANGED out
  BY <1>3
<1>. QED
  BY <1>2, <1>3

\* What an actor has marked and not yet sent.
InHand(m) == {got[m][a] : a \in {b \in Actors : pc[m][b] = "Send"}}

\* MarkedIsShared, for one machine.
Shared(m) == last_synced[m] \in {Initial[m]} \cup known[Peer(m)] \cup Underway(m)

\* What was on its way still is, or has arrived; and so is a new mark.
LEMMA SharedStep ==
  ASSUME NEW n \in Machines, Shared(n),
         known[Peer(n)] \subseteq known'[Peer(n)],
         ToSet(out[n]) \subseteq Underway(n)' \cup known'[Peer(n)],
         InHand(n) \subseteq Underway(n)' \cup known'[Peer(n)],
         Transferred(n) \subseteq Underway(n)' \cup known'[Peer(n)],
         left[n] \subseteq left'[n],
         last_synced'[n] \in {last_synced[n]} \cup known'[Peer(n)] \cup Underway(n)'
  PROVE  Shared(n)'
<1>1. left'[n] \subseteq Underway(n)'
  BY DEF Underway
<1>2. Underway(n) = ToSet(out[n]) \cup InHand(n) \cup Transferred(n) \cup left[n]
  BY DEF Underway, InHand
<1>. HIDE DEF Underway, InHand, Transferred
<1>3. Peer(n)' = Peer(n)
  BY DEF Peer
<1>. QED
  BY <1>1, <1>2, <1>3 DEF Shared

\* What is marked, queued, being transferred or left behind is on its way.
LEMMA UnderwayFacts ==
  ASSUME NEW n \in Machines
  PROVE  /\ InHand(n)' \subseteq Underway(n)'
         /\ ToSet(out'[n]) \subseteq Underway(n)'
         /\ left'[n] \subseteq Underway(n)'
         /\ Transferred(n)' \subseteq Underway(n)'
BY DEF Underway, InHand

\* What an actor holds is sent only by its own step.
LEMMA InHandKept ==
  ASSUME NEW n \in Machines, NEW x,
         \A b \in Actors : pc[n][b] = "Send" =>
                             \/ pc'[n][b] = "Send" /\ got'[n][b] = got[n][b]
                             \/ got[n][b] = x
  PROVE  InHand(n) \subseteq InHand(n)' \cup {x}
BY DEF InHand

\* A transfer is under way until it ends.
LEMMA TransferredFacts ==
  ASSUME NEW n \in Machines, SyncType
  PROVE  /\ UNCHANGED transfers => Transferred(n)' = Transferred(n)
         /\ \A m \in Machines, i \in Items :
              /\ transfers' = [transfers EXCEPT ![m][i] = @ + 1] =>
                   /\ Transferred(n) \subseteq Transferred(n)'
                   /\ n = m => i \in Transferred(n)'
              /\ transfers' = [transfers EXCEPT ![m][i] = @ - 1] =>
                   Transferred(n) \subseteq
                     Transferred(n)' \cup (IF n = m THEN {i} ELSE {})
<1>. USE DEF SyncType, TransfersType
<1>1. UNCHANGED transfers => Transferred(n)' = Transferred(n)
  BY DEF Transferred
<1>2. ASSUME NEW m \in Machines, NEW i \in Items,
             transfers' = [transfers EXCEPT ![m][i] = @ + 1]
      PROVE  /\ Transferred(n) \subseteq Transferred(n)'
             /\ n = m => i \in Transferred(n)'
  <2>1. transfers[m][i] \in Nat
    OBVIOUS
  <2>2. transfers[m][i] + 1 > 0
    BY <2>1
  <2>3. transfers'[m][i] > 0
    BY <1>2, <2>2
  <2>4. \A j \in Items : transfers'[n][j] = transfers[n][j] \/ (n = m /\ j = i)
    BY <1>2
  <2>. QED
    BY <2>3, <2>4 DEF Transferred
<1>3. ASSUME NEW m \in Machines, NEW i \in Items,
             transfers' = [transfers EXCEPT ![m][i] = @ - 1]
      PROVE  Transferred(n) \subseteq
               Transferred(n)' \cup (IF n = m THEN {i} ELSE {})
  <2>1. \A j \in Items : transfers'[n][j] = transfers[n][j] \/ (n = m /\ j = i)
    BY <1>3
  <2>. QED
    BY <2>1 DEF Transferred
<1>. QED
  BY <1>1, <1>2, <1>3

\* What a machine receives is shared: it knows it, and so does its peer.
LEMMA ReceivedShares ==
  ASSUME NEW n \in Machines, SyncType,
         NEW m \in Machines, NEW i \in known[m], NEW r, MarkReceived(Peer(m), r, i)
  PROVE  /\ known[Peer(n)] \subseteq known'[Peer(n)]
         /\ n = m => i \in known'[Peer(n)]
         /\ last_synced'[n] \in {last_synced[n]} \cup known'[Peer(n)]
<1>. USE DEF SyncType, ItemsType
<1>1. /\ Peer(m) \in Machines /\ Peer(n) \in Machines /\ Peer(m) # m
      /\ n = m \/ (n = Peer(m) /\ Peer(n) = m)
  BY PeerFacts
<1>2. /\ last_synced' = [last_synced EXCEPT ![Peer(m)] = i]
      /\ known' = [known EXCEPT ![Peer(m)] = known[Peer(m)] \cup {i}]
  BY DEF MarkReceived
<1>3. CASE n = m
  BY <1>1, <1>2, <1>3
<1>4. CASE n = Peer(m) /\ Peer(n) = m /\ n # m
  BY <1>1, <1>2, <1>4
<1>. QED
  BY <1>1, <1>3, <1>4

\* An item that is routed reaches the peer, is on its way, or is left behind.
LEMMA RouteShares ==
  ASSUME NEW n \in Machines, SyncType, KnownInv,
         NEW m \in Machines, NEW i \in known[m], Route(m, i)
  PROVE  /\ known[Peer(n)] \subseteq known'[Peer(n)]
         /\ Transferred(n) \subseteq Transferred(n)'
         /\ left[n] \subseteq left'[n]
         /\ n = m => i \in known'[Peer(n)] \cup Transferred(n)' \cup left'[n]
         /\ last_synced'[n] \in {last_synced[n]} \cup known'[Peer(n)]
<1>0. i \in Items
  BY DEF SyncType, ItemsType
<1>1. CASE SendText(m, i)
  BY <1>1, ReceivedShares, TransferredFacts DEF SendText
<1>2. CASE Withhold(m, i)
  <2>1. left[n] \subseteq left'[n] /\ (n = m => i \in left'[n])
    BY <1>2 DEF Withhold, SyncType, ItemsType
  <2>. QED
    BY <1>2, <2>1, TransferredFacts DEF Withhold
<1>3. CASE SendFiles(m, i)
  BY <1>0, <1>3, TransferredFacts DEF SendFiles
<1>. QED
  BY <1>1, <1>2, <1>3, RouteCases

\* A mark is put on what is about to be sent, and on what the peer has sent.
LEMMA NextShared ==
  ASSUME SharedInv, [Next]_vars
  PROVE  MarkedIsShared'
<1>. SUFFICES ASSUME NEW n \in Machines PROVE Shared(n)'
  BY DEF MarkedIsShared, Shared
<1>0. SyncType /\ KnownInv /\ Shared(n)
  BY DEF SharedInv, MarkedIsShared, Shared
<1>a. "watcher" \in Actors /\ "focus" \in Actors
      /\ "client" \in Machines /\ "server" \in Machines
  BY DEF Actors, Machines
<1>p. Peer(n) \in Machines
  BY PeerFacts
<1>u. ASSUME UNCHANGED <<last_synced, out, left, transfers>>,
             known[Peer(n)] \subseteq known'[Peer(n)],
             InHand(n) \subseteq InHand(n)'
      PROVE  Shared(n)'
  BY <1>0, <1>u, UnderwayFacts, TransferredFacts, SharedStep
<1>1. ASSUME NEW m \in Machines, NEW i \in Items, Copy(m, i) PROVE Shared(n)'
  <2>1. known[Peer(n)] \subseteq known'[Peer(n)]
    BY <1>0, <1>1, <1>p DEF Copy, SyncType, ItemsType
  <2>2. InHand(n) \subseteq InHand(n)'
    BY <1>1 DEF Copy, InHand
  <2>. QED
    BY <1>1, <1>u, <2>1, <2>2 DEF Copy
<1>2. ASSUME NEW m \in Machines, NEW a \in Actors, Look(m, a) \/ Compare(m, a)
      PROVE  Shared(n)'
  <2>1. \A b \in Actors : pc[n][b] = "Send" =>
                            pc'[n][b] = "Send" /\ got'[n][b] = got[n][b]
    <3>1. CASE Look(m, a)
      BY <1>0, <3>1 DEF Look, To, SyncType, ActorsType, ItemsType, OutType
    <3>2. CASE Compare(m, a)
      BY <1>0, <3>2 DEF Compare, To, SyncType, ActorsType, ItemsType, OutType
    <3>. QED
      BY <1>2, <3>1, <3>2
  <2>2. UNCHANGED <<last_synced, out, known, left, transfers>>
    BY <1>2 DEF Look, Compare, desktopVars
  <2>3. InHand(n) \subseteq InHand(n)'
    BY <2>1 DEF InHand
  <2>. QED
    BY <1>u, <2>2, <2>3
<1>3. ASSUME NEW m \in Machines, NEW a \in Actors, Mark(m, a) PROVE Shared(n)'
  <2>1. /\ pc' = [pc EXCEPT ![m][a] = "Send"]
        /\ last_synced' = [last_synced EXCEPT ![m] = got[m][a]]
        /\ UNCHANGED <<out, known, left, transfers, got>>
    BY <1>3 DEF Mark, To, desktopVars
  <2>2. \A b \in Actors : pc[n][b] = "Send" => pc'[n][b] = "Send"
    BY <1>0, <2>1 DEF SyncType, ActorsType, ItemsType, OutType
  <2>3. InHand(n) \subseteq InHand(n)'
    BY <2>1, <2>2 DEF InHand
  <2>4. last_synced'[n] = last_synced[n] \/ last_synced'[n] \in InHand(n)'
    <3>1. CASE n = m
      <4>1. pc'[n][a] = "Send" /\ last_synced'[n] = got'[n][a]
        BY <1>0, <2>1, <3>1 DEF SyncType, ActorsType, ItemsType, OutType
      <4>. QED
        BY <4>1 DEF InHand
    <3>2. CASE n # m
      BY <1>0, <2>1, <3>2 DEF SyncType, ActorsType, ItemsType, OutType
    <3>. QED
      BY <3>1, <3>2
  <2>. QED
    BY <1>0, <2>1, <2>3, <2>4, UnderwayFacts, TransferredFacts, SharedStep
<1>4. ASSUME NEW m \in Machines, NEW a \in Actors, pc[m][a] = "Send",
             pc' = [pc EXCEPT ![m][a] = "Idle"],
             got' = [got EXCEPT ![m][a] = None],
             UNCHANGED <<last_synced, known, transfers>>,
             \/ /\ out' = [out EXCEPT ![m] = Append(out[m], got[m][a])]
                /\ UNCHANGED left
             \/ /\ left' = [left EXCEPT ![m] = left[m] \cup {got[m][a]}]
                /\ UNCHANGED out
      PROVE  Shared(n)'
  <2>1. got[m][a] \in Items
    BY <1>0, <1>4 DEF SyncType, ActorsType, ItemsType, OutType
  <2>2. /\ ToSet(out[n]) \subseteq ToSet(out'[n])
        /\ left[n] \subseteq left'[n]
        /\ n = m => got[m][a] \in ToSet(out'[n]) \cup left'[n]
    BY <1>0, <1>4, <2>1, GrowsBy
  <2>3. InHand(n) \subseteq InHand(n)' \cup ToSet(out'[n]) \cup left'[n]
    <3>1. CASE n = m
      <4>1. \A b \in Actors : pc[n][b] = "Send" =>
              \/ pc'[n][b] = "Send" /\ got'[n][b] = got[n][b]
              \/ got[n][b] = got[m][a]
        BY <1>0, <1>4, <3>1 DEF SyncType, ActorsType, ItemsType, OutType
      <4>2. InHand(n) \subseteq InHand(n)' \cup {got[m][a]}
        BY <4>1, InHandKept
      <4>. QED
        BY <2>2, <3>1, <4>2
    <3>2. CASE n # m
      <4>1. \A b \in Actors : pc'[n][b] = pc[n][b] /\ got'[n][b] = got[n][b]
        BY <1>0, <1>4, <3>2 DEF SyncType, ActorsType, ItemsType, OutType
      <4>. QED
        BY <4>1 DEF InHand
    <3>. QED
      BY <3>1, <3>2
  <2>. QED
    BY <1>0, <1>4, <2>2, <2>3, UnderwayFacts, TransferredFacts, SharedStep
<1>5. ASSUME NEW m \in Machines, WatcherSends(m) PROVE Shared(n)'
  <2>1. /\ pc[m]["watcher"] = "Send"
        /\ pc' = [pc EXCEPT ![m]["watcher"] = "Idle"]
        /\ got' = [got EXCEPT ![m]["watcher"] = None]
        /\ UNCHANGED <<last_synced, known, transfers, left>>
        /\ out' = [out EXCEPT ![m] = Append(out[m], got[m]["watcher"])]
    BY <1>5 DEF WatcherSends, To, desktopVars
  <2>. QED
    BY <1>4, <1>a, <2>1
<1>6. CASE ExitSends
  <2>1. /\ pc["server"]["focus"] = "Send"
        /\ pc' = [pc EXCEPT !["server"]["focus"] = "Idle"]
        /\ got' = [got EXCEPT !["server"]["focus"] = None]
        /\ UNCHANGED <<last_synced, known, transfers>>
        /\ \/ /\ out' = [out EXCEPT !["server"] =
                           Append(out["server"], got["server"]["focus"])]
              /\ UNCHANGED left
           \/ /\ left' = [left EXCEPT !["server"] =
                               left["server"] \cup {got["server"]["focus"]}]
              /\ UNCHANGED out
    BY <1>6 DEF ExitSends, To, desktopVars
  <2>. QED
    BY <1>4, <1>a, <2>1
<1>7. ASSUME NEW m \in Machines, SenderTakes(m) PROVE Shared(n)'
  <2>1. /\ out[m] # <<>> /\ Route(m, Head(out[m]))
        /\ out' = [out EXCEPT ![m] = Tail(out[m])]
        /\ UNCHANGED <<pc, got>>
    BY <1>7 DEF SenderTakes
  <2>2. /\ Head(out[m]) \in known[m]
        /\ ToSet(out[m]) = ToSet(Tail(out[m])) \cup {Head(out[m])}
    BY <1>0, <2>1, QueueFacts DEF SyncType, OutType, KnownInv, OutKnown
  <2>3. PICK i \in known[m] : i = Head(out[m])
    BY <2>2
  <2>4. /\ known[Peer(n)] \subseteq known'[Peer(n)]
        /\ Transferred(n) \subseteq Transferred(n)'
        /\ left[n] \subseteq left'[n]
        /\ n = m => i \in known'[Peer(n)] \cup Transferred(n)' \cup left'[n]
        /\ last_synced'[n] \in {last_synced[n]} \cup known'[Peer(n)]
    BY <1>0, <2>1, <2>3, RouteShares
  <2>5. ToSet(out[n]) \subseteq ToSet(out'[n]) \cup known'[Peer(n)]
                              \cup Transferred(n)' \cup left'[n]
    <3>1. CASE n = m
      <4>1. out'[n] = Tail(out[m])
        BY <1>0, <2>1, <3>1 DEF SyncType, ActorsType, ItemsType, OutType
      <4>. QED
        BY <2>2, <2>3, <2>4, <3>1, <4>1
    <3>2. CASE n # m
      <4>1. out'[n] = out[n]
        BY <1>0, <2>1, <3>2 DEF SyncType, ActorsType, ItemsType, OutType
      <4>. QED
        BY <4>1
    <3>. QED
      BY <3>1, <3>2
  <2>6. InHand(n) \subseteq InHand(n)'
    BY <2>1 DEF InHand
  <2>. QED
    BY <1>0, <2>1, <2>4, <2>5, <2>6, UnderwayFacts, SharedStep
<1>8. CASE EntrySends
  <2>1. /\ pc["client"]["focus"] = "Send"
        /\ Route("client", got["client"]["focus"])
        /\ pc' = [pc EXCEPT !["client"]["focus"] = "Idle"]
        /\ got' = [got EXCEPT !["client"]["focus"] = None]
        /\ UNCHANGED out
    BY <1>8 DEF EntrySends, To
  <2>2. PICK i \in known["client"] : i = got["client"]["focus"]
    BY <1>0, <1>a, <2>1 DEF KnownInv, HeldKnown, TransfersKnown
  <2>3. /\ known[Peer(n)] \subseteq known'[Peer(n)]
        /\ Transferred(n) \subseteq Transferred(n)'
        /\ left[n] \subseteq left'[n]
        /\ n = "client" => i \in known'[Peer(n)] \cup Transferred(n)' \cup left'[n]
        /\ last_synced'[n] \in {last_synced[n]} \cup known'[Peer(n)]
    BY <1>0, <1>a, <2>1, <2>2, RouteShares
  <2>4. InHand(n) \subseteq InHand(n)' \cup known'[Peer(n)]
                          \cup Transferred(n)' \cup left'[n]
    <3>1. CASE n = "client"
      <4>1. \A b \in Actors : pc[n][b] = "Send" =>
              \/ pc'[n][b] = "Send" /\ got'[n][b] = got[n][b]
              \/ got[n][b] = i
        BY <1>0, <1>a, <2>1, <2>2, <3>1 DEF SyncType, ActorsType, ItemsType, OutType
      <4>2. InHand(n) \subseteq InHand(n)' \cup {i}
        BY <4>1, InHandKept
      <4>. QED
        BY <2>3, <3>1, <4>2
    <3>2. CASE n # "client"
      <4>1. \A b \in Actors : pc'[n][b] = pc[n][b] /\ got'[n][b] = got[n][b]
        BY <1>0, <2>1, <3>2 DEF SyncType, ActorsType, ItemsType, OutType
      <4>. QED
        BY <4>1 DEF InHand
    <3>. QED
      BY <3>1, <3>2
  <2>. QED
    BY <1>0, <2>1, <2>3, <2>4, UnderwayFacts, SharedStep
<1>9. CASE UNCHANGED <<known, last_synced, pc, got, out, left, transfers>>
  <2>1. InHand(n) \subseteq InHand(n)'
    BY <1>9 DEF InHand
  <2>. QED
    BY <1>9, <1>u, <2>1
<1>10. ASSUME NEW m \in Machines,
              \/ \E r \in Receivers : SetClipboard(m, r)
              \/ SetFileTransfer(m) \/ ReceiveStatus(m)
       PROVE  UNCHANGED <<known, last_synced, pc, got, out, left, transfers>>
  BY <1>10 DEF SetClipboard, SetFileTransfer, ReceiveStatus, desktopVars
<1>11. ASSUME UNCHANGED vars
       PROVE  UNCHANGED <<known, last_synced, pc, got, out, left, transfers>>
  BY <1>11 DEF vars, desktopVars
<1>12. ASSUME NEW m \in Machines, NEW i \in Items, TransferArrives(m, i)
       PROVE  Shared(n)'
  <2>1. /\ transfers' = [transfers EXCEPT ![m][i] = @ - 1]
        /\ MarkReceived(Peer(m), "channel", i)
        /\ transfers[m][i] > 0
        /\ UNCHANGED <<pc, got, out, left>>
    BY <1>12 DEF TransferArrives
  <2>2. i \in known[m]
    BY <1>0, <2>1 DEF KnownInv, HeldKnown, TransfersKnown
  <2>3. /\ known[Peer(n)] \subseteq known'[Peer(n)]
        /\ n = m => i \in known'[Peer(n)]
        /\ last_synced'[n] \in {last_synced[n]} \cup known'[Peer(n)]
    BY <1>0, <2>1, <2>2, ReceivedShares
  <2>4. Transferred(n) \subseteq Transferred(n)' \cup known'[Peer(n)]
    BY <1>0, <2>1, <2>3, TransferredFacts
  <2>5. InHand(n) \subseteq InHand(n)'
    BY <2>1 DEF InHand
  <2>. QED
    BY <1>0, <2>1, <2>3, <2>4, <2>5, UnderwayFacts, SharedStep
<1>13. ASSUME NEW m \in Machines, NEW i \in Items, TransferFails(m, i)
       PROVE  Shared(n)'
  <2>1. /\ transfers' = [transfers EXCEPT ![m][i] = @ - 1]
        /\ left' = [left EXCEPT ![m] = left[m] \cup {i}]
        /\ UNCHANGED <<known, last_synced, pc, got, out>>
    BY <1>13 DEF TransferFails, desktopVars
  <2>2. left[n] \subseteq left'[n] /\ (n = m => i \in left'[n])
    BY <1>0, <2>1 DEF SyncType, ActorsType, ItemsType, OutType
  <2>3. Transferred(n) \subseteq
          Transferred(n)' \cup (IF n = m THEN {i} ELSE {})
    BY <1>0, <2>1, TransferredFacts
  <2>4. InHand(n) \subseteq InHand(n)'
    BY <2>1 DEF InHand
  <2>. QED
    <3>1. Transferred(n) \subseteq Underway(n)'
      BY <2>2, <2>3, UnderwayFacts
    <3>. QED
      BY <1>0, <2>1, <2>2, <2>4, <3>1, UnderwayFacts, SharedStep
<1>. QED
  BY <1>1, <1>2, <1>3, <1>5, <1>6, <1>7, <1>8, <1>9, <1>10, <1>11, <1>12, <1>13,
     StepCases

\* What was there at the start is marked.
LEMMA InitShared == Init => SharedInv
<1>. SUFFICES ASSUME Init PROVE SharedInv
  OBVIOUS
<1>1. SyncType
  <2>1. ActorsType /\ TransfersType /\ SettingType
    BY DEF Init, ActorsType, TransfersType, SettingType, Labels
  <2>2. ItemsType
    BY InitialAssumption DEF Init, ItemsType
  <2>3. OutType
    BY ItemsAssumption DEF Init, OutType
  <2>. QED
    BY <2>1, <2>2, <2>3 DEF SyncType
<1>2. KnownInv
  <2>1. \A m \in Machines : ToSet(out[m]) = {}
    BY DEF Init, ToSet
  <2>. QED
    BY <2>1, InitialAssumption, ItemsAssumption
    DEF Init, KnownInv, ClipKnown, SettingKnown, HeldKnown, OutKnown,
        TransfersKnown
<1>3. MarkedIsShared
  BY DEF Init, MarkedIsShared
<1>. QED
  BY <1>1, <1>2, <1>3 DEF SharedInv

\* The clipboards are typed, hold what is known, and marks are shared.
THEOREM SharedInvHolds == Spec => []SharedInv
<1>1. SharedInv /\ [Next]_vars => SharedInv'
  BY NextSyncType, NextKnown, NextShared DEF SharedInv
<1>. QED
  BY <1>1, InitShared, PTL DEF Spec

\* What a machine holds for synchronised its peer has had or is about to get.
THEOREM MarkedAreShared == Spec => []MarkedIsShared
<1>1. SharedInv => MarkedIsShared
  BY DEF SharedInv
<1>. QED
  BY <1>1, SharedInvHolds, PTL

-----------------------------------------------------------------------------
(* The setting of the file transfer.                                       *)

\* The last of a queue stays the last when the first is taken.
LEMMA LastOfTail ==
  ASSUME NEW q \in Seq(BOOLEAN), q # <<>>
  PROVE  IF Tail(q) = <<>> THEN Head(q) = q[Len(q)]
         ELSE Tail(q)[Len(Tail(q))] = q[Len(q)]
<1>1. /\ Len(q) \in Nat \ {0} /\ Tail(q) \in Seq(BOOLEAN)
      /\ Len(Tail(q)) = Len(q) - 1 /\ Head(q) = q[1]
      /\ \A i \in 1..(Len(q) - 1) : Tail(q)[i] = q[i + 1]
  BY HeadTailProperties, EmptySeq
<1>2. CASE Tail(q) = <<>>
  <2>1. PICK t \in Seq(BOOLEAN) : t = Tail(q) /\ Len(t) = Len(q) - 1
    BY <1>1
  <2>2. Len(t) = 0
    BY <1>2, <2>1, EmptySeq
  <2>3. Len(q) = 1
    BY <1>1, <2>1, <2>2
  <2>. QED
    BY <1>1, <1>2, <2>3
<1>3. CASE Tail(q) # <<>>
  <2>1. Len(Tail(q)) \in Nat \ {0}
    BY <1>1, <1>3, EmptySeq
  <2>2. Tail(q)[Len(q) - 1] = q[Len(q)]
    BY <1>1, <2>1
  <2>. QED
    BY <1>1, <1>3, <2>2
<1>. QED
  BY <1>2, <1>3

\* Whatever the last status under way says is what is set.
LEMMA NextFlags ==
  ASSUME FlagsInv, [Next]_vars
  PROVE  FlagsInv'
<1>. USE DEF FlagsInv, FlagsType, StatusInv
<1>1. CASE UNCHANGED flagVars
  BY <1>1 DEF flagVars, Peer
<1>2. ASSUME NEW m \in Machines, SetFileTransfer(m) PROVE FlagsInv'
  <2>1. /\ file_transfer_enabled' =
             [file_transfer_enabled EXCEPT ![m] = ~file_transfer_enabled[m]]
        /\ UNCHANGED peer_files_enabled
    BY <1>2 DEF SetFileTransfer
  <2>2. PICK b \in BOOLEAN : b = file_transfer_enabled'[m]
    BY <2>1
  <2>3. statuses' = [statuses EXCEPT ![m] = Append(statuses[m], b)]
    BY <1>2, <2>2 DEF SetFileTransfer
  <2>4. /\ Append(statuses[m], b) \in Seq(BOOLEAN)
        /\ Append(statuses[m], b) # <<>>
        /\ Append(statuses[m], b)[Len(Append(statuses[m], b))] = b
    BY AppendProperties
  <2>5. statuses' \in [Machines -> Seq(BOOLEAN)]
    BY <2>3, <2>4
  <2>6. file_transfer_enabled' \in [Machines -> BOOLEAN]
    BY <2>1
  <2>7. ASSUME NEW n \in Machines
        PROVE  IF statuses'[n] = <<>>
               THEN peer_files_enabled'[Peer(n)] = file_transfer_enabled'[n]
               ELSE statuses'[n][Len(statuses'[n])] = file_transfer_enabled'[n]
    <3>1. CASE n = m
      <4>1. statuses'[n] = Append(statuses[m], b)
        BY <2>3, <3>1
      <4>. QED
        BY <2>2, <2>4, <3>1, <4>1
    <3>2. CASE n # m
      <4>1. /\ statuses'[n] = statuses[n]
            /\ file_transfer_enabled'[n] = file_transfer_enabled[n]
        BY <2>1, <2>3, <3>2
      <4>. QED
        BY <2>1, <4>1
    <3>. QED
      BY <3>1, <3>2
  <2>. QED
    BY <2>1, <2>5, <2>6, <2>7 DEF Peer
<1>3. ASSUME NEW m \in Machines, ReceiveStatus(m) PROVE FlagsInv'
  <2>1. PICK p \in Machines : p = Peer(m)
    BY PeerFacts
  <2>2. /\ statuses[p] # <<>>
        /\ peer_files_enabled' = [peer_files_enabled EXCEPT ![m] = Head(statuses[p])]
        /\ statuses' = [statuses EXCEPT ![p] = Tail(statuses[p])]
        /\ UNCHANGED file_transfer_enabled
    BY <1>3, <2>1 DEF ReceiveStatus
  <2>3. /\ Head(statuses[p]) \in BOOLEAN /\ Tail(statuses[p]) \in Seq(BOOLEAN)
        /\ statuses[p] \in Seq(BOOLEAN)
    BY <2>2, HeadTailProperties
  <2>4. /\ Peer(p) = m /\ p # m
        /\ \A n \in Machines : n = p \/ (Peer(n) = p /\ n = m)
    BY <2>1, PeerFacts
  <2>5. IF Tail(statuses[p]) = <<>>
        THEN Head(statuses[p]) = file_transfer_enabled[p]
        ELSE Tail(statuses[p])[Len(Tail(statuses[p]))] = file_transfer_enabled[p]
    <3>1. statuses[p][Len(statuses[p])] = file_transfer_enabled[p]
      BY <2>2
    <3>. QED
      BY <2>2, <2>3, <3>1, LastOfTail
  <2>6. ASSUME NEW n \in Machines
        PROVE  IF statuses'[n] = <<>>
               THEN peer_files_enabled'[Peer(n)] = file_transfer_enabled'[n]
               ELSE statuses'[n][Len(statuses'[n])] = file_transfer_enabled'[n]
    <3>1. CASE n = p
      <4>1. /\ statuses'[n] = Tail(statuses[p])
            /\ peer_files_enabled'[Peer(n)] = Head(statuses[p])
            /\ file_transfer_enabled'[n] = file_transfer_enabled[p]
        BY <2>2, <2>4, <3>1
      <4>. QED
        BY <2>5, <4>1
    <3>2. CASE n # p
      <4>1. /\ statuses'[n] = statuses[n]
            /\ peer_files_enabled'[Peer(n)] = peer_files_enabled[Peer(n)]
            /\ file_transfer_enabled'[n] = file_transfer_enabled[n]
        BY <2>1, <2>2, <2>4, <3>2
      <4>. QED
        BY <4>1
    <3>. QED
      BY <3>1, <3>2
  <2>7. /\ statuses' \in [Machines -> Seq(BOOLEAN)]
        /\ peer_files_enabled' \in [Machines -> BOOLEAN]
        /\ file_transfer_enabled' \in [Machines -> BOOLEAN]
    BY <2>2, <2>3
  <2>. QED
    BY <2>6, <2>7 DEF Peer
<1>4. ASSUME NEW m \in Machines, NEW i \in Items, Copy(m, i)
      PROVE  UNCHANGED flagVars
  BY <1>4 DEF Copy
<1>5. ASSUME NEW m \in Machines, NEW a \in Actors,
             Look(m, a) \/ Compare(m, a) \/ Mark(m, a)
      PROVE  UNCHANGED flagVars
  BY <1>5 DEF Look, Compare, Mark
<1>6. ASSUME NEW m \in Machines,
             \/ WatcherSends(m) \/ SenderTakes(m)
             \/ \E r \in Receivers : SetClipboard(m, r)
             \/ \E i \in Items : TransferArrives(m, i) \/ TransferFails(m, i)
      PROVE  UNCHANGED flagVars
  BY <1>6 DEF WatcherSends, SenderTakes, SetClipboard, TransferArrives, TransferFails
<1>7. ASSUME ExitSends \/ EntrySends \/ UNCHANGED vars
      PROVE  UNCHANGED flagVars
  BY <1>7 DEF ExitSends, EntrySends, vars
<1>8. UNCHANGED flagVars \/ \E m \in Machines : SetFileTransfer(m) \/ ReceiveStatus(m)
  BY <1>4, <1>5, <1>6, <1>7, StepCases
<1>. QED
  BY <1>1, <1>2, <1>3, <1>8

\* Each side has announced its setting.
THEOREM FlagsInvHolds == Spec => []FlagsInv
<1>1. Init => FlagsInv
  <2>1. Init => FlagsType
    BY DEF Init, FlagsType
  <2>2. Init => StatusInv
    BY PeerFacts DEF Init, StatusInv
  <2>. QED
    BY <2>1, <2>2 DEF FlagsInv
<1>2. FlagsInv /\ [Next]_vars => FlagsInv'
  BY NextFlags
<1>. QED
  BY <1>1, <1>2, PTL DEF Spec

\* When no status is under way, each side knows the setting of the other.
THEOREM FlagsAgree == Spec => []FilesFlagAgrees
<1>1. FlagsInv => FilesFlagAgrees
  BY DEF FlagsInv, StatusInv, FilesFlagAgrees
<1>. QED
  BY <1>1, FlagsInvHolds, PTL

\* The variables have their types, whatever the interleaving.
THEOREM TypeCorrect == Spec => []TypeOK
<1>1. SharedInv /\ FlagsInv => TypeOK
  <2>. SUFFICES ASSUME SharedInv, FlagsInv PROVE TypeOK
    OBVIOUS
  <2>1. \A m \in Machines : ToSet(out[m]) \subseteq Items
    BY DEF SharedInv, SyncType, ItemsType, KnownInv, OutKnown
  <2>. QED
    BY <2>1 DEF SharedInv, SyncType, ActorsType, ItemsType, OutType, TransfersType,
                SettingType, FlagsInv, FlagsType, TypeOK, Labels
<1>. QED
  BY <1>1, SharedInvHolds, FlagsInvHolds, PTL
=============================================================================
