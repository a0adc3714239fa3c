---------------------- MODULE LoadBalancerMembersProofs ---------------------
(***************************************************************************)
(* What holds of the load balancer's member list for any number of VMs,    *)
(* servers and faults: its types, that only a write in between makes it    *)
(* wrong, and that no controller drops a machine of its own.               *)
(***************************************************************************)
EXTENDS LoadBalancerMembers, TLAPS

BMM == "VultrBareMetalMachine"

Staying == {"joining", "joined"}

(* A worker is busy with a machine of its own controller, which cannot be   *)
(* taken out or let go meanwhile.                                           *)
Busy ==
    \A c \in Controllers :
        /\ wk[c].pc = "add" => /\ wk[c].r \in Of(c)
                               /\ life[wk[c].r] \in Staying \cup {"leaving"}
        /\ wk[c].pc = "remove" => /\ c = BMM
                                  /\ wk[c].r \in Servers
                                  /\ life[wk[c].r] = "leaving"

(* What a worker read has the members of its own controller that are to     *)
(* stay ...                                                                 *)
OwnSeen ==
    \A c \in Controllers : \A r \in Of(c) :
        (wk[c].pc # "idle" /\ life[r] \in Staying /\ r \in members)
        => r \in wk[c].seen

(* ... and of the other controller's none that has gone since.              *)
OthersSeen ==
    \A c, d \in Controllers : \A r \in Of(c) :
        (c # d /\ wk[d].pc # "idle" /\ life[r] \in Staying /\ r \in wk[d].seen)
        => r \in members

MembersInv == TypeOK /\ Busy /\ OwnSeen /\ OthersSeen

-----------------------------------------------------------------------------
(* Every resource belongs to one controller.                                *)
LEMMA OfFacts ==
    /\ Of("VultrMachine") = VMs /\ Of(BMM) = Servers
    /\ \A c \in Controllers : Of(c) \subseteq Resources
    /\ \A c, d \in Controllers : \A r \in Of(c) : r \in Of(d) => c = d
BY MembersAssumption DEF Of, BMM, Controllers, Resources

(* The workers start idle and nobody is a member.                           *)
LEMMA InitInv == Init => MembersInv /\ ListIsRight
<1> SUFFICES ASSUME Init PROVE MembersInv /\ ListIsRight
    OBVIOUS
<1>1. \A c \in Controllers : wk[c].pc = "idle"
    BY DEF Init, Idle
<1>2. Idle \in Worker
    BY DEF Idle, Worker
<1>3. "joining" \in Lives /\ MaxFaults \in 0..MaxFaults
    BY MembersAssumption DEF Lives
<1>4. TypeOK
  <2>1. life \in [Resources -> Lives] /\ wk \in [Controllers -> Worker]
      BY <1>2, <1>3 DEF Init
  <2> QED BY <1>3, <2>1 DEF Init, TypeOK
<1>5. Busy /\ OwnSeen /\ OthersSeen
    BY <1>1 DEF Busy, OwnSeen, OthersSeen
<1>6. ListIsRight
    BY DEF Init, ListIsRight
<1> QED BY <1>4, <1>5, <1>6 DEF MembersInv

(* A step by which no list is written.                                      *)
Quiet == members' = members /\ stale' = stale

(* The worker of c reads the list for machine r, to add it or to take it    *)
(* out.                                                                     *)
LEMMA GetStep ==
    ASSUME MembersInv, Quiet,
           NEW c \in Controllers, NEW r \in Of(c), NEW p \in {"add", "remove"},
           wk[c].pc = "idle",
           wk' = [wk EXCEPT ![c] = [pc |-> p, r |-> r, seen |-> members]],
           UNCHANGED <<active, life, faults>>,
           p = "add" => life[r] \in Staying,
           p = "remove" => c = BMM /\ life[r] = "leaving"
    PROVE  MembersInv' /\ (ListIsRight => ListIsRight')
<1>1. r \in Resources /\ members \subseteq Resources
    BY OfFacts DEF MembersInv, TypeOK
<1>2. TypeOK'
    BY <1>1 DEF MembersInv, TypeOK, Worker, Quiet
<1>3. /\ wk'[c] = [pc |-> p, r |-> r, seen |-> members]
      /\ \A d \in Controllers : d # c => wk'[d] = wk[d]
    BY DEF MembersInv, TypeOK
<1>4. Busy'
    BY <1>3, OfFacts DEF MembersInv, Busy, Staying, Of
<1>5. OwnSeen'
    BY <1>3 DEF MembersInv, OwnSeen, Quiet, Of
<1>6. OthersSeen'
    BY <1>3 DEF MembersInv, OthersSeen, Quiet, Of
<1>7. ListIsRight => ListIsRight'
    BY DEF ListIsRight, Quiet
<1> QED BY <1>2, <1>4, <1>5, <1>6, <1>7 DEF MembersInv

(* Machine r of c goes from one life to another while the list stays as it  *)
(* is and the worker of c is idle, or only joins or is being deleted.       *)
LEMMA LifeStep ==
    ASSUME MembersInv, Quiet, UNCHANGED <<active, wk>>, faults' \in 0..MaxFaults,
           NEW c \in Controllers, NEW r \in Of(c), NEW l \in Lives,
           life' = [life EXCEPT ![r] = l],
           l \in Staying => life[r] \in Staying,
           l \notin Staying \cup {"leaving"} => wk[c].pc = "idle",
           l \in Staying => wk[c].pc = "idle",
           l = "joined" => r \in members,
           l = "left" => r \notin members
    PROVE  MembersInv' /\ (ListIsRight => ListIsRight')
<1>1. r \in Resources
    BY OfFacts
<1>2. TypeOK'
    BY <1>1 DEF MembersInv, TypeOK, Quiet
<1>3. life'[r] = l /\ \A q \in Resources : q # r => life'[q] = life[q]
    BY <1>1 DEF MembersInv, TypeOK
<1>4. Busy'
  <2> SUFFICES ASSUME NEW d \in Controllers
               PROVE  /\ wk[d].pc = "add" => /\ wk[d].r \in Of(d)
                                             /\ life'[wk[d].r] \in Staying \cup {"leaving"}
                      /\ wk[d].pc = "remove" => /\ d = BMM
                                                /\ wk[d].r \in Servers
                                                /\ life'[wk[d].r] = "leaving"
      BY DEF Busy, Of
  <2>1. CASE wk[d].r = r /\ wk[d].pc # "idle"
    <3>1. wk[d].r \in Of(d)
        BY <2>1, OfFacts DEF MembersInv, Busy, TypeOK, Worker
    <3>2. d = c
        BY <3>1, <2>1, OfFacts
    <3> QED BY <2>1, <3>2, <1>3 DEF MembersInv, Busy
  <2>2. CASE wk[d].r # r \/ wk[d].pc = "idle"
      BY <2>2, <1>3, OfFacts DEF MembersInv, Busy
  <2> QED BY <2>1, <2>2
<1>5. \A q \in Resources : life'[q] \in Staying => life[q] \in Staying
    BY <1>3
<1>6. OwnSeen'
    BY <1>5, OfFacts DEF MembersInv, OwnSeen, Quiet, Of
<1>7. OthersSeen'
    BY <1>5, OfFacts DEF MembersInv, OthersSeen, Quiet, Of
<1>8. ListIsRight => ListIsRight'
    BY <1>3 DEF ListIsRight, Quiet
<1> QED BY <1>2, <1>4, <1>6, <1>7, <1>8 DEF MembersInv

(* The worker of c comes back from an update that did not change the list.  *)
LEMMA FailStep ==
    ASSUME MembersInv, Quiet, UNCHANGED <<active, life>>, faults' \in 0..MaxFaults,
           NEW c \in Controllers, wk' = [wk EXCEPT ![c] = Idle]
    PROVE  MembersInv' /\ (ListIsRight => ListIsRight')
<1>1. /\ wk'[c].pc = "idle"
      /\ \A d \in Controllers : d # c => wk'[d] = wk[d]
    BY DEF MembersInv, TypeOK, Idle
<1>2. TypeOK'
    BY DEF MembersInv, TypeOK, Worker, Idle, Quiet
<1>3. Busy' /\ OwnSeen' /\ OthersSeen'
    BY <1>1 DEF MembersInv, Busy, OwnSeen, OthersSeen, Quiet, Of
<1>4. ListIsRight => ListIsRight'
    BY DEF ListIsRight, Quiet
<1> QED BY <1>2, <1>3, <1>4 DEF MembersInv

(* The worker of c writes what it read with its machine added or taken out. *)
(* Machines of c that stay are still in it, and so are those of the other   *)
(* controller that its own worker has not seen go.                          *)
LEMMA WriteStep ==
    ASSUME MembersInv, NEW c \in Controllers,
           wk' = [wk EXCEPT ![c] = Idle], UNCHANGED active,
           faults' \in 0..MaxFaults,
           NEW list,
           \/ wk[c].pc = "add" /\ list = wk[c].seen \cup {wk[c].r}
           \/ wk[c].pc = "remove" /\ list = wk[c].seen \ {wk[c].r},
           Write(c, list),
           NEW l \in Lives, life' = [life EXCEPT ![wk[c].r] = l],
           l = "joined" => wk[c].pc = "add",
           l = "left" => wk[c].pc = "remove",
           l \in Staying => life[wk[c].r] \in Staying
    PROVE  MembersInv' /\ (ListIsRight => ListIsRight')
<1> DEFINE r == wk[c].r
<1>1. r \in Of(c) /\ r \in Resources /\ wk[c].seen \subseteq Resources
    BY OfFacts DEF MembersInv, Busy, TypeOK, Worker
<1>2. /\ wk'[c].pc = "idle"
      /\ \A d \in Controllers : d # c => wk'[d] = wk[d]
    BY DEF MembersInv, TypeOK, Idle
<1>3. life'[r] = l /\ \A q \in Resources : q # r => life'[q] = life[q]
    BY <1>1 DEF MembersInv, TypeOK
<1>4. list \subseteq Resources /\ members' = list
    BY <1>1 DEF Write
<1>5. TypeOK'
    BY <1>1, <1>4 DEF MembersInv, TypeOK, Worker, Idle, Write
<1>6. Busy'
  <2> SUFFICES ASSUME NEW d \in Controllers, d # c
               PROVE  /\ wk[d].pc = "add" => /\ wk[d].r \in Of(d)
                                             /\ life'[wk[d].r] \in Staying \cup {"leaving"}
                      /\ wk[d].pc = "remove" => /\ d = BMM
                                                /\ wk[d].r \in Servers
                                                /\ life'[wk[d].r] = "leaving"
      BY <1>2 DEF Busy, Of
  <2>1. wk[d].pc \in {"add", "remove"} => wk[d].r \in Of(d)
      BY OfFacts DEF MembersInv, Busy
  <2>2. wk[d].pc \in {"add", "remove"} => wk[d].r # r /\ wk[d].r \in Resources
      BY <2>1, <1>1, OfFacts
  <2> QED BY <2>1, <2>2, <1>3 DEF MembersInv, Busy
<1>7. \A q \in Resources : life'[q] \in Staying => life[q] \in Staying
    BY <1>3
<1>8. ASSUME NEW d \in Controllers, d # c, NEW q \in Of(d),
             wk[d].pc # "idle", life'[q] \in Staying, q \in members'
      PROVE  q \in wk[d].seen
  <2>1. q # r /\ q \in Resources /\ life[q] \in Staying
      BY <1>1, <1>7, <1>8, OfFacts
  <2>2. q \in wk[c].seen
      BY <1>4, <1>8, <2>1
  <2>3. q \in members
      BY <1>8, <2>1, <2>2 DEF MembersInv, OthersSeen
  <2> QED BY <1>8, <2>1, <2>3 DEF MembersInv, OwnSeen
<1>9. OwnSeen'
    BY <1>2, <1>8 DEF OwnSeen, Of
<1>10. ASSUME NEW d \in Controllers, d # c, NEW q \in Of(c),
              wk[d].pc # "idle", life'[q] \in Staying, q \in wk[d].seen
       PROVE  q \in members'
  <2>1. q \in Resources /\ life[q] \in Staying
      BY <1>7, OfFacts, <1>10
  <2>2. q \in members
      BY <1>10, <2>1 DEF MembersInv, OthersSeen
  <2>3. q \in wk[c].seen
      BY <2>1, <2>2 DEF MembersInv, OwnSeen
  <2>4. wk[c].pc = "remove" => q # r
      BY <2>1 DEF MembersInv, Busy, Staying
  <2> QED BY <1>4, <2>3, <2>4
<1>11. OthersSeen'
    <2> SUFFICES ASSUME NEW e \in Controllers, NEW d \in Controllers, NEW q \in Of(e),
                        e # d, wk'[d].pc # "idle", life'[q] \in Staying,
                        q \in wk'[d].seen
                 PROVE  q \in members'
        BY DEF OthersSeen, Of
    <2>1. d # c /\ wk'[d] = wk[d]
        BY <1>2
    <2>2. e = c
        BY <2>1 DEF Controllers
    <2> QED BY <1>10, <2>1, <2>2
<1>12. ASSUME ListIsRight, ~stale' PROVE ListIsRight'
  <2>1. ~stale /\ members = wk[c].seen
      BY <1>12 DEF Write, MembersInv, TypeOK
  <2>2. ASSUME NEW q \in Resources
        PROVE  /\ life'[q] = "joined" => q \in members'
               /\ life'[q] = "left" => q \notin members'
    <3>1. CASE q = r
        BY <3>1, <1>3, <1>4
    <3>2. CASE q # r
        BY <3>2, <1>3, <1>4, <1>12, <2>1 DEF ListIsRight
    <3> QED BY <3>1, <3>2
  <2> QED BY <2>2 DEF ListIsRight
<1>13. ListIsRight => ListIsRight'
    BY <1>12 DEF ListIsRight
<1> QED BY <1>5, <1>6, <1>9, <1>11, <1>13 DEF MembersInv

-----------------------------------------------------------------------------
(* Each step is one of the four kinds.                                      *)
LEMMA InvStep ==
    MembersInv /\ [Next]_vars => MembersInv' /\ (ListIsRight => ListIsRight')
<1> SUFFICES ASSUME MembersInv, [Next]_vars
             PROVE  MembersInv' /\ (ListIsRight => ListIsRight')
    OBVIOUS
<1>0. /\ "VultrMachine" \in Controllers /\ BMM \in Controllers
      /\ faults \in 0..MaxFaults /\ (Fault => faults' \in 0..MaxFaults)
      /\ \A q \in Resources : life[q] \in Lives
    BY MembersAssumption DEF Controllers, BMM, MembersInv, TypeOK, Fault
<1>1. ASSUME NEW c \in Controllers, NEW r \in Of(c), GetToAdd(c, r)
      PROVE  MembersInv' /\ (ListIsRight => ListIsRight')
  <2>1. CASE r \in members
    <3>1. Quiet /\ UNCHANGED <<active, wk>> /\ faults' \in 0..MaxFaults
        BY <1>0, <1>1, <2>1 DEF GetToAdd, Quiet
    <3>2. life' = [life EXCEPT ![r] = "joined"]
        BY <1>1, <2>1, OfFacts DEF GetToAdd, Joined, MembersInv, TypeOK
    <3> QED BY <1>1, <2>1, <3>1, <3>2, LifeStep DEF GetToAdd, Lives, Staying
  <2>2. CASE r \notin members
      BY <1>1, <2>2, GetStep DEF GetToAdd, Quiet, Staying
  <2> QED BY <2>1, <2>2
<1>2. ASSUME NEW c \in Controllers, Add(c)
      PROVE  MembersInv' /\ (ListIsRight => ListIsRight')
  <2> DEFINE list == wk[c].seen \cup {wk[c].r}
  <2>1. /\ wk[c].pc = "add" /\ wk' = [wk EXCEPT ![c] = Idle] /\ UNCHANGED active
        /\ wk[c].r \in Resources
      BY <1>2, OfFacts DEF Add, MembersInv, Busy
  <2>2. CASE Write(c, list) /\ Joined(wk[c].r) /\ NoFault
    <3> DEFINE l == IF life[wk[c].r] = "joining" THEN "joined" ELSE life[wk[c].r]
    <3>1. life' = [life EXCEPT ![wk[c].r] = l] /\ l \in Lives
        BY <1>0, <2>1, <2>2 DEF Joined, MembersInv, TypeOK, Lives
    <3>2. l # "left" /\ (l \in Staying => life[wk[c].r] \in Staying)
        BY <2>1 DEF Staying, MembersInv, Busy
    <3>3. faults' \in 0..MaxFaults
        BY <1>0, <2>2 DEF NoFault
    <3> HIDE DEF l
    <3> QED BY <2>1, <2>2, <3>1, <3>2, <3>3, WriteStep
  <2>3. CASE Write(c, list) /\ UNCHANGED life /\ Fault
    <3>1. life' = [life EXCEPT ![wk[c].r] = life[wk[c].r]] /\ life[wk[c].r] \in Lives
        BY <1>0, <2>1, <2>3 DEF MembersInv, TypeOK
    <3>2. life[wk[c].r] # "left"
        BY <2>1 DEF Staying, MembersInv, Busy
    <3>3. faults' \in 0..MaxFaults
        BY <1>0, <2>3
    <3> QED BY <2>1, <2>3, <3>1, <3>2, <3>3, WriteStep
  <2>4. CASE UNCHANGED <<members, stale, life>> /\ Fault
      BY <1>0, <2>1, <2>4, FailStep DEF Quiet
  <2> QED BY <1>2, <2>2, <2>3, <2>4 DEF Add
<1>3. ASSUME NEW r \in Resources, DeleteVM(r)
      PROVE  MembersInv' /\ (ListIsRight => ListIsRight')
  <2>1. /\ Quiet /\ UNCHANGED <<active, wk>> /\ faults' \in 0..MaxFaults
        /\ r \in Of("VultrMachine") /\ wk["VultrMachine"].pc = "idle"
        /\ life' = [life EXCEPT ![r] = "kept"]
      BY <1>0, <1>3, OfFacts DEF DeleteVM, Quiet
  <2>2. "kept" \in Lives /\ "kept" \notin Staying \cup {"leaving"}
      BY DEF Lives, Staying
  <2> QED BY <1>0, <2>1, <2>2, LifeStep
<1>4. ASSUME NEW r \in Resources, GetToRemove(r)
      PROVE  MembersInv' /\ (ListIsRight => ListIsRight')
  <2>1. /\ wk[BMM].pc = "idle" /\ r \in Of(BMM) /\ life[r] = "leaving"
        /\ Quiet /\ UNCHANGED active
      BY <1>4, OfFacts DEF GetToRemove, Quiet, BMM
  <2>2. CASE /\ NoFault /\ UNCHANGED life
             /\ wk' = [wk EXCEPT ![BMM] = [pc |-> "remove", r |-> r, seen |-> members]]
      BY <1>0, <2>1, <2>2, GetStep DEF NoFault
  <2>3. ASSUME NEW as \in {"left", "kept"}, Removed(r, as), UNCHANGED wk,
               NoFault \/ Fault, as = "left" => r \notin members
        PROVE  MembersInv' /\ (ListIsRight => ListIsRight')
    <3>1. PICK l \in {"leaving", as} : life' = [life EXCEPT ![r] = l]
        BY <2>3 DEF Removed
    <3>2. faults' \in 0..MaxFaults
        BY <1>0, <2>3 DEF NoFault
    <3>3. l \in Lives /\ l \notin Staying /\ (l = "left" => r \notin members) /\ l # "joined"
        BY <2>3 DEF Lives, Staying
    <3> QED BY <1>0, <2>1, <2>3, <3>1, <3>2, <3>3, LifeStep
  <2> QED BY <1>4, <2>2, <2>3 DEF GetToRemove, BMM
<1>5. ASSUME Remove
      PROVE  MembersInv' /\ (ListIsRight => ListIsRight')
  <2> DEFINE list == wk[BMM].seen \ {wk[BMM].r}
  <2>1. /\ wk[BMM].pc = "remove" /\ wk' = [wk EXCEPT ![BMM] = Idle] /\ UNCHANGED active
        /\ wk[BMM].r \in Resources /\ life[wk[BMM].r] = "leaving"
      BY <1>0, <1>5, OfFacts DEF Remove, MembersInv, Busy, BMM
  <2>2. CASE Write(BMM, list) /\ Removed(wk[BMM].r, "left") /\ NoFault
    <3>1. PICK l \in {"leaving", "left"} : life' = [life EXCEPT ![wk[BMM].r] = l]
        BY <2>2 DEF Removed
    <3>2. faults' \in 0..MaxFaults /\ l \in Lives /\ l \notin Staying /\ l # "joined"
        BY <1>0, <2>2 DEF NoFault, Lives, Staying
    <3> QED BY <1>0, <2>1, <2>2, <3>1, <3>2, WriteStep
  <2>3. CASE Write(BMM, list) /\ UNCHANGED life /\ Fault
    <3>1. /\ life' = [life EXCEPT ![wk[BMM].r] = "leaving"]
          /\ "leaving" \in Lives /\ "leaving" \notin Staying
          /\ faults' \in 0..MaxFaults
        BY <1>0, <2>1, <2>3 DEF MembersInv, TypeOK, Lives, Staying
    <3> QED BY <1>0, <2>1, <2>3, <3>1, WriteStep
  <2>4. CASE UNCHANGED <<members, stale, life>> /\ Fault
      BY <1>0, <2>1, <2>4, FailStep DEF Quiet
  <2> QED BY <1>5, <2>2, <2>3, <2>4 DEF Remove, BMM
<1>6. ASSUME NEW c \in Controllers, NEW r \in Of(c), TerminalFailure(c, r)
      PROVE  MembersInv' /\ (ListIsRight => ListIsRight')
  <2>1. "failed" \in Lives /\ "failed" \notin Staying
      BY DEF Lives, Staying
  <2> QED BY <1>0, <1>6, <2>1, LifeStep DEF TerminalFailure, Quiet
<1>7. ASSUME NEW r \in Resources, DeleteObject(r)
      PROVE  MembersInv' /\ (ListIsRight => ListIsRight')
  <2>1. PICK c \in Controllers : r \in Of(c)
      BY <1>0, OfFacts DEF Resources
  <2>2. "leaving" \in Lives /\ "leaving" \notin Staying
      BY DEF Lives, Staying
  <2> QED BY <1>0, <1>7, <2>1, <2>2, LifeStep DEF DeleteObject, Quiet
<1>8. CASE BecomesActive \/ UNCHANGED vars
    BY <1>8 DEF BecomesActive, vars, MembersInv, TypeOK, Busy, OwnSeen,
       OthersSeen, ListIsRight, Of
<1> QED BY <1>1, <1>2, <1>3, <1>4, <1>5, <1>6, <1>7, <1>8 DEF Next, Join, Leave

-----------------------------------------------------------------------------
(* The member list and the workers of the two controllers are well typed in *)
(* every reachable state.                                                   *)
THEOREM MembersTyped == Spec => []TypeOK
<1>1. MembersInv => TypeOK
    BY DEF MembersInv
<1> QED BY <1>1, InitInv, InvStep, PTL DEF Spec

(* However many machines join, leave and fail: as long as no list is        *)
(* written that changed after EnsureLoadBalancerMember or                   *)
(* RemoveLoadBalancerMember read it, it holds every machine that joined and *)
(* none that was taken out.                                                 *)
THEOREM ListRight == Spec => []ListIsRight
BY InitInv, InvStep, PTL DEF Spec

(* When a worker goes back to idle, a machine of its controller that had    *)
(* joined and was a member still is one.                                    *)
LEMMA KeptStep ==
    MembersInv /\ [Next]_vars =>
        [\A c \in Controllers : \A r \in Of(c) :
            (wk[c].pc # "idle" /\ wk'[c].pc = "idle"
               /\ life[r] = "joined" /\ r \in members)
            => r \in members']_vars
<1> SUFFICES ASSUME MembersInv, [Next]_vars,
                    NEW c \in Controllers, NEW r \in Of(c),
                    wk[c].pc # "idle", wk'[c].pc = "idle",
                    life[r] = "joined", r \in members
             PROVE  r \in members'
    OBVIOUS
<1>1. r \in wk[c].seen
    BY DEF MembersInv, OwnSeen, Staying
<1>2. CASE members' = members
    BY <1>2
<1>3. ASSUME NEW d \in Controllers, Add(d), members' # members
      PROVE  r \in members'
  <2>1. members' = wk[d].seen \cup {wk[d].r} /\ wk' = [wk EXCEPT ![d] = Idle]
      BY <1>3 DEF Add, Write
  <2>2. d = c
      BY <2>1 DEF MembersInv, TypeOK
  <2> QED BY <1>1, <2>1, <2>2
<1>4. ASSUME Remove, members' # members
      PROVE  r \in members'
  <2>1. /\ members' = wk[BMM].seen \ {wk[BMM].r} /\ wk' = [wk EXCEPT ![BMM] = Idle]
        /\ wk[BMM].pc = "remove" /\ BMM \in Controllers
      BY <1>4 DEF Remove, Write, BMM, Controllers
  <2>2. BMM = c
      BY <2>1 DEF MembersInv, TypeOK
  <2>3. wk[BMM].r # r
      BY <2>1, OfFacts DEF MembersInv, Busy
  <2> QED BY <1>1, <2>1, <2>2, <2>3
<1>5. members' = members \/ Remove \/ \E d \in Controllers : Add(d)
    BY DEF Next, vars, Join, Leave, GetToAdd, DeleteVM, GetToRemove,
       TerminalFailure, DeleteObject, BecomesActive
<1> QED BY <1>2, <1>3, <1>4, <1>5

(* A controller's update never drops a machine of its own that has joined,  *)
(* whatever the other controller wrote since the list was read.             *)
THEOREM OwnKept == Spec => OwnMembersKept
BY InitInv, InvStep, KeptStep, PTL DEF Spec, OwnMembersKept
=============================================================================
