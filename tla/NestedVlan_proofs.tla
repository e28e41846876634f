--------------------------- MODULE NestedVlan_proofs ---------------------------
(***************************************************************************)
(* Proofs about NestedVlan, for any pods, machines, ids and bounds.  A     *)
(* thread must not only find its own subport in place: nobody else may     *)
(* hold its port or its VLAN id, no id that is held or on a trunk in the   *)
(* name of one of our ports may be available, and an id may only be lost   *)
(* to the pool if others have used it.                                     *)
(***************************************************************************)
EXTENDS NestedVlan, TLAPS

USE TrunkAssumption, NoneAssumption

\* What the proofs need besides: what a thread holds at which request,
UsingVlan   == {"add_subport", "add_subport_again", "vif", "remove_subport"}
HasSubport  == {"vif", "remove_subport"}

Shape ==
    \A p \in Pods :
      /\ port[p] = NoPort <=> pc[p] \in {"idle", "create_port"}
      /\ port[p] # NoPort => port[p] \in ports
      /\ pc[p] \in UsingVlan => vlan[p] # NoVlan
      /\ vlan[p] # NoVlan => pc[p] \in UsingVlan \cup {"get_vlan_again"}
      /\ pc[p] \in HasSubport => Subport(p) \in subports[Trunk[p]]
      /\ pc[p] = "get_vlan_again" => failed

\* that no two threads hold the same, nor an id that is available,
Apart ==
    /\ \A p, q \in Pods : p # q =>
          /\ port[p] = port[q] => port[p] = NoPort
          /\ vlan[p] = vlan[q] => vlan[p] = NoVlan
    /\ \A p \in Pods : vlan[p] \notin free

\* and whose the ids on the trunks are.
Owned ==
    \A t \in Trunks : \A s \in subports[t] :
      IF s.port = NoPort THEN s.vlan \in seen
      ELSE /\ s.vlan \notin free
           /\ \A p \in Pods : s.vlan = vlan[p] =>
                 t = Trunk[p] /\ s.port = port[p] /\ pc[p] \in HasSubport

IndInv == TypeOK /\ Shape /\ Apart /\ Owned /\ NothingLeaked

LEMMA RequestVifStep ==
    ASSUME IndInv, NEW p \in Pods, RequestVif(p)
    PROVE  IndInv'
<1>1. TypeOK'
  BY DEF IndInv, TypeOK, RequestVif, At, outside, Requesting, Releasing,
         Subports
<1>2. Shape'
  BY DEF IndInv, Shape, RequestVif, At, outside, UsingVlan, HasSubport,
         Subport
<1>3. Apart'
  BY DEF IndInv, Apart, RequestVif, At, outside
<1>4. Owned'
  BY DEF IndInv, Owned, RequestVif, At, outside, HasSubport
<1>5. NothingLeaked'
  BY DEF IndInv, NothingLeaked, RequestVif, At, outside, Subport
<1> QED
  BY <1>1, <1>2, <1>3, <1>4, <1>5 DEF IndInv

LEMMA CreatePortStep ==
    ASSUME IndInv, NEW p \in Pods, CreatePort(p)
    PROVE  IndInv'
<1>1. TypeOK'
  BY DEF IndInv, TypeOK, CreatePort, At, outside, Requesting, Releasing,
         Subports
<1>2. Shape'
  BY DEF IndInv, TypeOK, Shape, CreatePort, At, outside, Requesting,
         Releasing, Subports, UsingVlan, HasSubport, Subport
<1>3. Apart'
  <2>1. PICK n \in Ports \ ports : port' = [port EXCEPT ![p] = n]
    BY DEF CreatePort
  <2>2. \A q \in Pods : q # p => port'[q] = port[q] /\ port'[q] # n
    BY <2>1 DEF IndInv, TypeOK, Shape
  <2>3. port'[p] = n
    BY <2>1 DEF IndInv, TypeOK
  <2> QED
    BY <2>2, <2>3 DEF IndInv, Apart, CreatePort, outside
<1>4. Owned'
  BY DEF IndInv, Owned, CreatePort, At, outside, HasSubport
<1>5. NothingLeaked'
  <2>1. PICK n \in Ports \ ports : /\ port' = [port EXCEPT ![p] = n]
                                  /\ ports' = ports \cup {n}
    BY DEF CreatePort
  <2>2. /\ \A q \in Pods : q # p => port'[q] = port[q] /\ pc'[q] = pc[q]
        /\ port'[p] = n
    BY <2>1 DEF IndInv, TypeOK, CreatePort, At
  <2>3. port[p] = NoPort /\ pc[p] \notin HasSubport
    BY DEF IndInv, Shape, CreatePort, At, HasSubport
  <2>4. UNCHANGED <<subports, vlan, free, seen, failed>>
    BY DEF CreatePort, outside
  <2>5. ASSUME ~failed'
        PROVE  ports' \subseteq {port'[q] : q \in Pods}
    <3>1. ASSUME NEW m \in ports
          PROVE  \E q \in Pods : q # p /\ m = port[q]
      <4>1. m # NoPort
        BY DEF IndInv, TypeOK
      <4> QED
        BY <2>3, <2>4, <2>5, <4>1 DEF IndInv, NothingLeaked
    <3> QED
      BY <2>1, <2>2, <3>1
  <2>6. ASSUME ~failed', NEW t \in Trunks, NEW x \in subports[t], x.port # NoPort
        PROVE  \E q \in Pods : /\ Trunk[q] = t /\ x = Subport(q)'
                              /\ pc'[q] \in HasSubport
    BY <2>2, <2>3, <2>4, <2>6 DEF IndInv, NothingLeaked, Subport, HasSubport
  <2> QED
    BY <2>4, <2>5, <2>6 DEF IndInv, NothingLeaked, HasSubport
<1> QED
  BY <1>1, <1>2, <1>3, <1>4, <1>5 DEF IndInv

LEMMA OverQuotaStep ==
    ASSUME IndInv, NEW p \in Pods, OverQuota(p)
    PROVE  IndInv'
<1>1. TypeOK'
  BY DEF IndInv, TypeOK, OverQuota, Forget, outside, Requesting, Releasing,
         Subports
<1>2. Shape'
  BY DEF IndInv, TypeOK, Shape, OverQuota, Forget, outside, Requesting,
         Releasing, Subports, UsingVlan, HasSubport, Subport
<1>3. Apart'
  BY DEF IndInv, TypeOK, Apart, OverQuota, Forget, outside, Requesting,
         Releasing, Subports
<1>4. Owned'
  BY DEF IndInv, TypeOK, Owned, OverQuota, Forget, outside, Requesting,
         Releasing, Subports, HasSubport
<1>5. NothingLeaked'
  BY DEF IndInv, NothingLeaked, OverQuota, Forget, outside, Subport
<1> QED
  BY <1>1, <1>2, <1>3, <1>4, <1>5 DEF IndInv

LEMMA GetVlanStep ==
    ASSUME IndInv, NEW p \in Pods, GetVlan(p)
    PROVE  IndInv'
<1>1. TypeOK'
  BY DEF IndInv, TypeOK, GetVlan, At, Allocate, outside, VlansOf, Requesting,
         Releasing, Subports
<1>2. Shape'
  BY DEF IndInv, TypeOK, Shape, GetVlan, At, Allocate, outside, VlansOf,
         Requesting, Releasing, Subports, UsingVlan, HasSubport, Subport
<1>3. Apart'
  BY DEF IndInv, Apart, GetVlan, At, Allocate, outside, VlansOf
<1>4. Owned'
  BY DEF IndInv, Owned, GetVlan, At, Allocate, outside, VlansOf, HasSubport
<1>5. NothingLeaked'
  <2>1. PICK v \in free, D \in SUBSET (free \cap VlansOf(Trunk[p])) :
          vlan' = [vlan EXCEPT ![p] = v] /\ free' = free \ (D \cup {v})
    BY DEF GetVlan, Allocate
  <2>2. /\ \A q \in Pods : q # p => vlan'[q] = vlan[q] /\ pc'[q] = pc[q]
        /\ vlan'[p] = v
    BY <2>1 DEF IndInv, TypeOK, GetVlan, At
  <2>3. vlan[p] = NoVlan /\ pc[p] \notin HasSubport
    BY DEF IndInv, Shape, GetVlan, At, UsingVlan, HasSubport
  <2>4. UNCHANGED <<port, ports, subports, seen, failed>>
    BY DEF GetVlan, outside
  <2>5. D \subseteq seen
    BY DEF IndInv, Owned, VlansOf, TypeOK
  <2>6. ASSUME ~failed', NEW t \in Trunks, NEW x \in subports[t], x.port # NoPort
        PROVE  \E q \in Pods : /\ Trunk[q] = t /\ x = Subport(q)'
                              /\ pc'[q] \in HasSubport
    BY <2>2, <2>3, <2>4, <2>6 DEF IndInv, NothingLeaked, Subport, HasSubport
  <2>7. ASSUME ~failed'
        PROVE  Vlans \subseteq free' \cup {vlan'[q] : q \in Pods} \cup seen
    BY <2>1, <2>2, <2>3, <2>4, <2>5, <2>7 DEF IndInv, TypeOK, NothingLeaked
  <2> QED
    BY <2>4, <2>6, <2>7 DEF IndInv, NothingLeaked, HasSubport
<1> QED
  BY <1>1, <1>2, <1>3, <1>4, <1>5 DEF IndInv

LEMMA GetVlanAgainStep ==
    ASSUME IndInv, NEW p \in Pods, GetVlanAgain(p)
    PROVE  IndInv'
<1>1. TypeOK'
  BY DEF IndInv, TypeOK, GetVlanAgain, At, Allocate, outside, VlansOf,
         Requesting, Releasing, Subports
<1>2. Shape'
  BY DEF IndInv, TypeOK, Shape, GetVlanAgain, At, Allocate, outside, VlansOf,
         Requesting, Releasing, Subports, UsingVlan, HasSubport, Subport
<1>3. Apart'
  BY DEF IndInv, Apart, GetVlanAgain, At, Allocate, outside, VlansOf
<1>4. Owned'
  BY DEF IndInv, Owned, GetVlanAgain, At, Allocate, outside, VlansOf,
         HasSubport
<1>5. NothingLeaked'
  BY DEF IndInv, TypeOK, Shape, NothingLeaked, GetVlanAgain, At, Allocate,
         outside, VlansOf, Requesting, Releasing, Subports, UsingVlan,
         HasSubport, Subport
<1> QED
  BY <1>1, <1>2, <1>3, <1>4, <1>5 DEF IndInv

LEMMA NoVlanLeftStep ==
    ASSUME IndInv, NEW p \in Pods, NoVlanLeft(p)
    PROVE  IndInv'
<1>1. TypeOK'
  BY DEF IndInv, TypeOK, NoVlanLeft, Forget, outside, VlansOf, Requesting,
         Releasing, Subports
<1>2. Shape'
  BY DEF IndInv, TypeOK, Shape, NoVlanLeft, Forget, outside, VlansOf,
         Requesting, Releasing, Subports, UsingVlan, HasSubport, Subport
<1>3. Apart'
  BY DEF IndInv, TypeOK, Apart, NoVlanLeft, Forget, outside, VlansOf,
         Requesting, Releasing, Subports
<1>4. Owned'
  BY DEF IndInv, TypeOK, Owned, NoVlanLeft, Forget, outside, VlansOf,
         Requesting, Releasing, Subports, HasSubport
<1>5. NothingLeaked'
  BY DEF IndInv, NothingLeaked, NoVlanLeft, Forget, outside, VlansOf, Subport
<1> QED
  BY <1>1, <1>2, <1>3, <1>4, <1>5 DEF IndInv

LEMMA AddSubportStep ==
    ASSUME IndInv, NEW p \in Pods, AddSubport(p)
    PROVE  IndInv'
<1>1. TypeOK'
  BY DEF IndInv, TypeOK, Shape, AddSubport, At, PutSubport, outside, VlansOf,
         Requesting, Releasing, Subports, UsingVlan, HasSubport, Subport
<1>2. Shape'
  BY DEF IndInv, TypeOK, Shape, AddSubport, At, PutSubport, outside, VlansOf,
         Requesting, Releasing, Subports, UsingVlan, HasSubport, Subport
<1>3. Apart'
  BY DEF IndInv, Apart, AddSubport, At, PutSubport, outside, VlansOf
<1>4. Owned'
  BY DEF IndInv, TypeOK, Shape, Apart, Owned, AddSubport, At, PutSubport,
         outside, VlansOf, Requesting, Releasing, Subports, UsingVlan,
         HasSubport, Subport
<1>5. NothingLeaked'
  BY DEF IndInv, TypeOK, NothingLeaked, AddSubport, At, PutSubport, outside,
         VlansOf, Requesting, Releasing, Subports, Subport
<1> QED
  BY <1>1, <1>2, <1>3, <1>4, <1>5 DEF IndInv

LEMMA AddConflictStep ==
    ASSUME IndInv, NEW p \in Pods, AddConflict(p)
    PROVE  IndInv'
<1>1. TypeOK'
  BY DEF IndInv, TypeOK, AddConflict, At, outside, Requesting, Releasing,
         Subports
<1>2. Shape'
  BY DEF IndInv, Shape, AddConflict, At, outside, UsingVlan, HasSubport,
         Subport
<1>3. Apart'
  BY DEF IndInv, Apart, AddConflict, At, outside
<1>4. Owned'
  BY DEF IndInv, Owned, AddConflict, At, outside, HasSubport
<1>5. NothingLeaked'
  BY DEF IndInv, NothingLeaked, AddConflict, At, outside, Subport
<1> QED
  BY <1>1, <1>2, <1>3, <1>4, <1>5 DEF IndInv

LEMMA AddAgainStep ==
    ASSUME IndInv, NEW p \in Pods, AddAgain(p)
    PROVE  IndInv'
<1>1. TypeOK'
  BY DEF IndInv, TypeOK, AddAgain, Forget, outside, Requesting, Releasing,
         Subports
<1>2. Shape'
  BY DEF IndInv, TypeOK, Shape, AddAgain, Forget, outside, Requesting,
         Releasing, Subports, UsingVlan, HasSubport, Subport
<1>3. Apart'
  BY DEF IndInv, TypeOK, Apart, AddAgain, Forget, outside, Requesting,
         Releasing, Subports
<1>4. Owned'
  BY DEF IndInv, TypeOK, Owned, AddAgain, Forget, outside, Requesting,
         Releasing, Subports, HasSubport
<1>5. NothingLeaked'
  BY DEF IndInv, NothingLeaked, AddAgain, Forget, outside, Subport
<1> QED
  BY <1>1, <1>2, <1>3, <1>4, <1>5 DEF IndInv

LEMMA ReleaseVifStep ==
    ASSUME IndInv, NEW p \in Pods, ReleaseVif(p)
    PROVE  IndInv'
<1>1. TypeOK'
  BY DEF IndInv, TypeOK, ReleaseVif, At, outside, Requesting, Releasing,
         Subports
<1>2. Shape'
  BY DEF IndInv, Shape, ReleaseVif, At, outside, UsingVlan, HasSubport,
         Subport
<1>3. Apart'
  BY DEF IndInv, Apart, ReleaseVif, At, outside
<1>4. Owned'
  BY DEF IndInv, Owned, ReleaseVif, At, outside, HasSubport
<1>5. NothingLeaked'
  BY DEF IndInv, NothingLeaked, ReleaseVif, At, outside, Subport
<1> QED
  BY <1>1, <1>2, <1>3, <1>4, <1>5 DEF IndInv

LEMMA RemoveSubportStep ==
    ASSUME IndInv, NEW p \in Pods, RemoveSubport(p)
    PROVE  IndInv'
<1>1. TypeOK'
  BY DEF IndInv, TypeOK, Shape, RemoveSubport, At, DropSubport, outside,
         Requesting, Releasing, Subports, UsingVlan, HasSubport, Subport
<1>2. Shape'
  BY DEF IndInv, TypeOK, Shape, Apart, RemoveSubport, At, DropSubport,
         outside, Requesting, Releasing, Subports, UsingVlan, HasSubport,
         Subport
<1>3. Apart'
  BY DEF IndInv, TypeOK, Shape, Apart, RemoveSubport, At, DropSubport,
         outside, Requesting, Releasing, Subports, UsingVlan, HasSubport,
         Subport
<1>4. Owned'
  BY DEF IndInv, TypeOK, Owned, RemoveSubport, At, DropSubport, outside,
         Requesting, Releasing, Subports, HasSubport
<1>5. NothingLeaked'
  BY DEF IndInv, TypeOK, NothingLeaked, RemoveSubport, At, DropSubport,
         outside, Requesting, Releasing, Subports, Subport
<1> QED
  BY <1>1, <1>2, <1>3, <1>4, <1>5 DEF IndInv

LEMMA DeletePortStep ==
    ASSUME IndInv, NEW p \in Pods, DeletePort(p)
    PROVE  IndInv'
<1>1. TypeOK'
  BY DEF IndInv, TypeOK, DeletePort, Forget, outside, Requesting, Releasing,
         Subports
<1>2. Shape'
  BY DEF IndInv, TypeOK, Shape, Apart, DeletePort, Forget, outside,
         Requesting, Releasing, Subports, UsingVlan, HasSubport, Subport
<1>3. Apart'
  BY DEF IndInv, TypeOK, Apart, DeletePort, Forget, outside, Requesting,
         Releasing, Subports
<1>4. Owned'
  BY DEF IndInv, TypeOK, Owned, DeletePort, Forget, outside, Requesting,
         Releasing, Subports, HasSubport
<1>5. NothingLeaked'
  <2>1. \A q \in Pods : q # p => /\ port'[q] = port[q] /\ vlan'[q] = vlan[q]
                                /\ pc'[q] = pc[q]
    BY DEF IndInv, TypeOK, DeletePort, Forget
  <2>2. ports' = ports \ {port[p]} /\ UNCHANGED <<subports, free, seen, failed>>
    BY DEF DeletePort, outside
  <2>3. vlan[p] = NoVlan /\ pc[p] \notin HasSubport
    BY DEF IndInv, Shape, DeletePort, UsingVlan, HasSubport
  <2>4. ASSUME ~failed'
        PROVE  ports' \subseteq {port'[q] : q \in Pods}
    BY <2>1, <2>2, <2>4 DEF IndInv, NothingLeaked
  <2>5. ASSUME ~failed', NEW t \in Trunks, NEW x \in subports[t], x.port # NoPort
        PROVE  \E q \in Pods : /\ Trunk[q] = t /\ x = Subport(q)'
                              /\ pc'[q] \in HasSubport
    BY <2>1, <2>2, <2>3, <2>5 DEF IndInv, NothingLeaked, Subport, HasSubport
  <2>6. ASSUME ~failed'
        PROVE  Vlans \subseteq free \cup {vlan'[q] : q \in Pods} \cup seen
    BY <2>1, <2>2, <2>3, <2>6 DEF IndInv, NothingLeaked
  <2> QED
    BY <2>2, <2>4, <2>5, <2>6 DEF NothingLeaked, HasSubport
<1> QED
  BY <1>1, <1>2, <1>3, <1>4, <1>5 DEF IndInv

LEMMA FailsStep ==
    ASSUME IndInv, NEW p \in Pods, Fails(p)
    PROVE  IndInv'
<1>1. TypeOK'
  BY DEF IndInv, TypeOK, Shape, Fails, Forget, PutSubport, DropSubport,
         VlansOf, Requesting, Releasing, Subports, UsingVlan, HasSubport,
         Subport
<1>2. Shape'
  BY DEF IndInv, TypeOK, Shape, Apart, Fails, Forget, PutSubport, DropSubport,
         VlansOf, Requesting, Releasing, Subports, UsingVlan, HasSubport,
         Subport
<1>3. Apart'
  BY DEF IndInv, TypeOK, Apart, Fails, Forget, PutSubport, DropSubport,
         VlansOf, Requesting, Releasing, Subports
<1>4. Owned'
  BY DEF IndInv, TypeOK, Shape, Apart, Owned, Fails, Forget, PutSubport,
         DropSubport, VlansOf, Requesting, Releasing, Subports, UsingVlan,
         HasSubport, Subport
<1>5. NothingLeaked'
  BY DEF IndInv, NothingLeaked, Fails, Forget, PutSubport, DropSubport,
         VlansOf, Subport
<1> QED
  BY <1>1, <1>2, <1>3, <1>4, <1>5 DEF IndInv

LEMMA OthersStep ==
    ASSUME IndInv, OtherAdds \/ OtherRemoves
    PROVE  IndInv'
<1>1. TypeOK'
  BY DEF IndInv, TypeOK, OtherAdds, OtherRemoves, threadVars, Subports, VlansOf
<1>2. Shape'
  BY DEF IndInv, TypeOK, Shape, OtherAdds, OtherRemoves, threadVars, Subport,
         UsingVlan, HasSubport
<1>3. Apart'
  BY DEF IndInv, Apart, OtherAdds, OtherRemoves, threadVars
<1>4. Owned'
  BY DEF IndInv, TypeOK, Owned, OtherAdds, OtherRemoves, threadVars, HasSubport
<1>5. NothingLeaked'
  BY DEF IndInv, TypeOK, NothingLeaked, OtherAdds, OtherRemoves, threadVars, Subport
<1> QED
  BY <1>1, <1>2, <1>3, <1>4, <1>5 DEF IndInv

-----------------------------------------------------------------------------
\* The invariant holds in every reachable state.
THEOREM Inductive == Spec => []IndInv
<1>1. Init => IndInv
  <2> SUFFICES ASSUME Init PROVE IndInv
    OBVIOUS
  <2>1. TypeOK
    BY DEF Init, TypeOK
  <2>2. Shape /\ Apart
    BY DEF Init, Shape, Apart, UsingVlan, HasSubport
  <2>3. Owned /\ NothingLeaked
    BY DEF Init, Owned, NothingLeaked
  <2> QED
    BY <2>1, <2>2, <2>3 DEF IndInv
<1>2. IndInv /\ [Next]_vars => IndInv'
  <2>1. ASSUME IndInv, UNCHANGED vars
        PROVE  IndInv'
    BY <2>1 DEF vars, threadVars, IndInv, TypeOK, Shape, Apart, Owned,
                NothingLeaked, Subport
  <2>2. ASSUME IndInv, NEW p \in Pods, Thread(p)
        PROVE  IndInv'
    BY <2>2, CreatePortStep, OverQuotaStep, GetVlanStep, GetVlanAgainStep,
       NoVlanLeftStep, AddSubportStep, AddConflictStep, AddAgainStep,
       RemoveSubportStep, DeletePortStep DEF Thread
  <2> QED
    BY <2>1, <2>2, RequestVifStep, ReleaseVifStep, FailsStep, OthersStep DEF Next
<1> QED
  BY <1>1, <1>2, PTL DEF Spec

\* A pod's VIF stays on the trunk until the pod's own release_vif takes it off,
\* for any number of pods, machines and ids.
THEOREM VifStaysOnTrunk == Spec => []VifOnTrunk
<1>1. IndInv => VifOnTrunk
  BY DEF IndInv, Shape, VifOnTrunk, HasSubport
<1> QED
  BY <1>1, Inductive, PTL

\* Green threads never choose the same VLAN id: a conflict on the trunk, which
\* the code does not survive, needs another user of the trunk.
THEOREM ThreadsKeepApart == Spec => []OnlyOthersConflict
<1>1. IndInv => OnlyOthersConflict
  BY DEF IndInv, TypeOK, Owned, OnlyOthersConflict, HasSubport
<1> QED
  BY <1>1, Inductive, PTL

\* Without failures no port, subport or VLAN id is lost, however the requests
\* of the pods interleave.
THEOREM NoLeaks == Spec => []NothingLeaked
<1>1. IndInv => NothingLeaked
  BY DEF IndInv
<1> QED
  BY <1>1, Inductive, PTL
=============================================================================
