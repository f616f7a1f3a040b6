----------------------------- MODULE RoutesProofs -----------------------------
(* Theorems about Routes, for any number of links, dials and failures, and any  *)
(* configuration of the two servers.                                            *)
EXTENDS Routes, TLAPS

(* The types. *)
Shape ==
  /\ solicits \in Configs
  /\ dials \in [solicits -> 0..MaxDials]
  /\ DOMAIN from \subseteq Links /\ broken \subseteq DOMAIN from
  /\ DOMAIN remotes = Servers /\ remotes = [s \in Servers |-> remotes[s]]
  /\ \A s \in Servers : DOMAIN remotes[s] \subseteq Servers \ {s}
  /\ \A s \in Servers : \A t \in DOMAIN remotes[s] : remotes[s][t] \in Links
  /\ nc \in [End -> {"none", "dialed", "queued", "up", "nil"}]
  /\ solicited \in [End -> BOOLEAN] /\ remoteID \in [End -> BOOLEAN]
  /\ pc \in [End -> {"none", "read", "add", "upgrade", "dup", "loop", "end"}]
  /\ closing \in [End -> {"no", "unregister", "ask", "check", "done"}]
  /\ DOMAIN found \subseteq End /\ ghosts \subseteq End

(* The server of e has it in s.remotes. *)
Kept(e) == Other(Owner(e)) \in DOMAIN remotes[Owner(e)]
           /\ remotes[Owner(e)][Other(Owner(e))] = Link(e)

(* What one end is to the others, wherever it is in its life. *)
EndOK(e) ==
  /\ closing[e] # "no" <=> nc[e] = "nil"
  /\ pc[e] \in {"upgrade", "dup"} <=> e \in DOMAIN found
  /\ pc[e] = "none" <=> nc[e] \in {"none", "dialed", "queued"}
  /\ nc[e] # "none" => Link(e) \in DOMAIN from
  /\ pc[e] \in {"add", "upgrade", "dup", "loop"} => remoteID[e]
  /\ Kept(e) => pc[e] # "none" /\ remoteID[e] /\ (closing[e] \in {"no", "unregister"} \/ e \in ghosts)
  /\ pc[e] = "loop" /\ nc[e] = "up" => Kept(e)

(* Where only s solicits, every end at s is a dialled one, is not closed from   *)
(* outside before addRoute, and one that has been closed leaves another, or a   *)
(* goroutine that dials.                                                        *)
OneWay(s) == <<s, Other(s)>> \in solicits /\ <<Other(s), s>> \notin solicits

Dialled(s) ==
  /\ \A l \in Links : l \in DOMAIN from => from[l] = s
  /\ \A l \in Links : nc[<<l, s>>] # "none" =>
        /\ solicited[<<l, s>>] /\ <<l, s>> \notin ghosts
        /\ closing[<<l, s>>] # "no" => pc[<<l, s>>] \in {"loop", "end"}
  /\ Tries(s, Other(s))

RouteInv ==
  /\ Shape
  /\ \A e \in End : EndOK(e)
  /\ \A s \in Servers : OneWay(s) => Dialled(s)

(* There are two servers. *)
LEMMA OtherServer ==
  ASSUME NEW s \in Servers
  PROVE  Other(s) \in Servers /\ Other(s) # s /\ Servers = {s, Other(s)} /\ Other(Other(s)) = s
<1>1. \A t \in Servers : Other(t) \in Servers /\ Other(t) # t
  BY ServersAssumption DEF Other
<1> QED BY <1>1, ServersAssumption

LEMMA EndIs ==
  ASSUME NEW e \in End
  PROVE  /\ Link(e) \in Links /\ Owner(e) \in Servers /\ e = <<Link(e), Owner(e)>>
         /\ Other(Owner(e)) \in Servers
  BY OtherServer DEF End, Link, Owner

LEMMA EndsOf ==
  ASSUME NEW l \in Links, NEW s \in Servers
  PROVE  <<l, s>> \in End /\ Link(<<l, s>>) = l /\ Owner(<<l, s>>) = s
  BY DEF End, Link, Owner
-----------------------------------------------------------------------------
(* Initially there is no connection. *)
LEMMA RouteInit == Init => RouteInv
<1> SUFFICES ASSUME Init PROVE RouteInv
  OBVIOUS
<1>1. Shape
  <2>1. solicits \in Configs /\ dials \in [solicits -> 0..MaxDials]
    BY BoundsAssumption DEF Init
  <2>2. \A s \in Servers : remotes[s] = <<>> /\ DOMAIN remotes[s] = {}
    BY DEF Init
  <2> QED BY <2>1, <2>2 DEF Init, Shape
<1>2. ASSUME NEW e \in End PROVE EndOK(e)
  <2>1. ~Kept(e)
    BY EndIs DEF Kept, Init
  <2> QED BY <2>1 DEF Init, EndOK
<1>3. ASSUME NEW s \in Servers, OneWay(s) PROVE Dialled(s)
  <2>1. dials[<<s, Other(s)>>] = 1
    BY <1>3 DEF OneWay, Init
  <2>2. \A l \in Links : nc[<<l, s>>] = "none"
    BY DEF Init, End
  <2> QED BY <1>3, <2>1, <2>2 DEF Dialled, Tries, Init, OneWay
<1> QED BY <1>1, <1>2, <1>3 DEF RouteInv

-----------------------------------------------------------------------------
(* A step at e that leaves s.remotes alone keeps what is said of other ends.    *)
LEMMA OtherEnd ==
  ASSUME NEW e \in End, EndOK(e),
         pc'[e] = pc[e] /\ nc'[e] = nc[e] /\ closing'[e] = closing[e],
         remoteID'[e] = remoteID[e],
         e \in DOMAIN found' <=> e \in DOMAIN found,
         e \in ghosts => e \in ghosts',
         DOMAIN from \subseteq DOMAIN from',
         remotes'[Owner(e)] = remotes[Owner(e)]
  PROVE  EndOK(e)'
<1>1. Kept(e)' <=> Kept(e)
  BY DEF Kept, Owner, Link, Other
<1> QED BY <1>1 DEF EndOK, Link

(* A step that keeps the connections of s, or opens more, and its goroutines.   *)
LEMMA DialledStays ==
  ASSUME NEW s \in Servers, Dialled(s), UNCHANGED <<solicits, from, solicited>>,
         dials' = dials,
         \A l \in Links : <<l, s>> \in ghosts' => <<l, s>> \in ghosts,
         \A l \in Links :
            /\ nc[<<l, s>>] = "none" <=> nc'[<<l, s>>] = "none"
            /\ nc'[<<l, s>>] # "none" /\ closing'[<<l, s>>] # "no" => pc'[<<l, s>>] \in {"loop", "end"}
            /\ closing'[<<l, s>>] = "done" => closing[<<l, s>>] = "done"
  PROVE  Dialled(s)'
<1>1. Tries(s, Other(s))'
  BY DEF Dialled, Tries, Open, Other
<1> QED BY <1>1 DEF Dialled, Other

LEMMA CreateRouteInv ==
  ASSUME RouteInv, NEW e \in End, createRoute(e) PROVE RouteInv'
<1>1. /\ nc[e] \in {"dialed", "queued"}
      /\ nc' = [nc EXCEPT ![e] = "up"] /\ pc' = [pc EXCEPT ![e] = "read"]
      /\ UNCHANGED <<solicits, remotes, solicited, remoteID, found, ghosts, dials, from, broken, closing>>
  BY DEF createRoute, end
<1>2. Shape'
  BY <1>1 DEF RouteInv, Shape
<1>3. /\ nc'[e] = "up" /\ pc'[e] = "read"
      /\ \A x \in End \ {e} : nc'[x] = nc[x] /\ pc'[x] = pc[x]
  BY <1>1 DEF RouteInv, Shape
<1>4. EndOK(e)'
  <2>1. Kept(e)' <=> Kept(e)
    BY <1>1 DEF Kept
  <2> QED BY <2>1, <1>1, <1>3 DEF RouteInv, EndOK
<1>5. \A x \in End \ {e} : EndOK(x)'
  BY <1>1, <1>3, OtherEnd DEF RouteInv
<1>6. ASSUME NEW s \in Servers, OneWay(s)' PROVE Dialled(s)'
  <2>1. Dialled(s)
    BY <1>1, <1>6 DEF RouteInv, OneWay, Other
  <2>2. closing[e] = "no"
    BY <1>1 DEF RouteInv, EndOK
  <2>3. \A l \in Links :
           /\ nc[<<l, s>>] = "none" <=> nc'[<<l, s>>] = "none"
           /\ nc'[<<l, s>>] # "none" /\ closing'[<<l, s>>] # "no" => pc'[<<l, s>>] \in {"loop", "end"}
    BY <1>1, <1>3, <2>1, <2>2, EndsOf DEF Dialled
  <2> QED BY <1>1, <2>1, <2>3, DialledStays
<1> QED BY <1>2, <1>4, <1>5, <1>6 DEF RouteInv

LEMMA ProcessRouteInfoInv ==
  ASSUME RouteInv, NEW e \in End, processRouteInfo(e) PROVE RouteInv'
<1>1. /\ pc[e] = "read" /\ nc[e] = "up"
      /\ remoteID' = [remoteID EXCEPT ![e] = TRUE]
      /\ pc' = [pc EXCEPT ![e] = "add"]
      /\ UNCHANGED <<solicits, remotes, dials, from, broken, nc, solicited, found, closing, ghosts>>
  BY DEF processRouteInfo
<1>2. Shape'
  BY <1>1 DEF RouteInv, Shape
<1>3. /\ remoteID'[e] = TRUE /\ pc'[e] = "add"
      /\ \A x \in End \ {e} : remoteID'[x] = remoteID[x] /\ pc'[x] = pc[x]
  BY <1>1 DEF RouteInv, Shape
<1>4. EndOK(e)'
  <2>1. Kept(e)' <=> Kept(e)
    BY <1>1 DEF Kept
  <2> QED BY <2>1, <1>1, <1>3 DEF RouteInv, EndOK
<1>5. \A x \in End \ {e} : EndOK(x)'
  BY <1>1, <1>3, OtherEnd DEF RouteInv
<1>6. ASSUME NEW s \in Servers, OneWay(s)' PROVE Dialled(s)'
  <2>1. Dialled(s)
    BY <1>1, <1>6 DEF RouteInv, OneWay, Other
  <2>2. closing[e] = "no"
    BY <1>1 DEF RouteInv, EndOK
  <2>3. \A l \in Links :
           /\ nc[<<l, s>>] = "none" <=> nc'[<<l, s>>] = "none"
           /\ nc'[<<l, s>>] # "none" /\ closing'[<<l, s>>] # "no" => pc'[<<l, s>>] \in {"loop", "end"}
    BY <1>1, <1>3, <2>1, <2>2, EndsOf DEF Dialled
  <2> QED BY <1>1, <2>1, <2>3, DialledStays
<1> QED BY <1>2, <1>4, <1>5, <1>6 DEF RouteInv

(* Whom an entry of s.remotes stands for.                                       *)
LEMMA RangeIs ==
  ASSUME Shape, NEW s \in Servers, NEW l
  PROVE  l \in Range(remotes[s]) <=> Other(s) \in DOMAIN remotes[s] /\ remotes[s][Other(s)] = l
<1>1. DOMAIN remotes[s] \subseteq {Other(s)}
  BY OtherServer DEF Shape
<1> QED BY <1>1 DEF Range

LEMMA AddRouteInv ==
  ASSUME RouteInv, NEW e \in End, addRoute(e) PROVE RouteInv'
<1> DEFINE s == Owner(e)
           t == Other(s)
<1>0. PICK l \in Links, p \in Servers : e = <<l, p>> /\ Link(e) = l /\ Owner(e) = p
  BY EndIs
<1>1. /\ pc[e] = "add"
      /\ UNCHANGED <<solicits, dials, from, broken, nc, solicited, remoteID, closing>>
  BY DEF addRoute
<1>2. /\ t \in Servers /\ t # s /\ s \in Servers /\ \A q \in Servers : q # s => q = t /\ Other(q) = s
  BY EndIs, OtherServer
<1>3. CASE t \in DOMAIN remotes[s]
  <2>1. /\ DOMAIN found' = DOMAIN found \union {e}
        /\ pc' = [pc EXCEPT ![e] = IF solicited[e] THEN "upgrade" ELSE "dup"]
        /\ UNCHANGED <<remotes, ghosts>>
    BY <1>3 DEF addRoute, InfoID, Registered
  <2>2. Shape'
    BY <1>1, <2>1 DEF RouteInv, Shape
  <2>3. /\ pc'[e] \in {"upgrade", "dup"}
        /\ \A x \in End \ {e} : pc'[x] = pc[x]
    BY <2>1 DEF RouteInv, Shape
  <2>4. EndOK(e)'
    <3>1. Kept(e)' <=> Kept(e)
      BY <2>1 DEF Kept
    <3> QED BY <1>1, <2>1, <2>3, <3>1 DEF RouteInv, EndOK
  <2>5. \A x \in End \ {e} : EndOK(x)'
    BY <1>1, <2>1, <2>3, OtherEnd DEF RouteInv
  <2>6. ASSUME NEW q \in Servers, OneWay(q)' PROVE Dialled(q)'
    <3>1. Dialled(q)
      BY <1>1, <2>6 DEF RouteInv, OneWay, Other
    <3>2. Owner(e) = q => closing[e] = "no"
      BY <1>0, <1>1, <3>1 DEF RouteInv, EndOK, Dialled
    <3>3. \A k \in Links :
             /\ nc[<<k, q>>] = "none" <=> nc'[<<k, q>>] = "none"
             /\ nc'[<<k, q>>] # "none" /\ closing'[<<k, q>>] # "no" => pc'[<<k, q>>] \in {"loop", "end"}
      BY <1>1, <2>3, <3>1, <3>2, EndsOf DEF Dialled
    <3> QED BY <1>1, <2>1, <3>1, <3>3, DialledStays
  <2> QED BY <2>2, <2>4, <2>5, <2>6 DEF RouteInv
<1>4. CASE t \notin DOMAIN remotes[s]
  <2>1. /\ remotes' = [remotes EXCEPT ![s] = [x \in {t} |-> Link(e)]]
        /\ pc' = [pc EXCEPT ![e] = "loop"]
        /\ ghosts' = IF closing[e] \in {"no", "unregister"} THEN ghosts ELSE ghosts \union {e}
        /\ UNCHANGED found
    BY <1>4 DEF addRoute, InfoID, Registered
  <2>2. /\ DOMAIN remotes'[s] = {t} /\ remotes'[s][t] = Link(e)
        /\ \A q \in Servers \ {s} : remotes'[q] = remotes[q]
    <3> HIDE DEF s, t
    <3> QED BY <1>2, <2>1 DEF RouteInv, Shape
  <2>3. /\ pc'[e] = "loop"
        /\ \A x \in End \ {e} : pc'[x] = pc[x]
    BY <2>1 DEF RouteInv, Shape
  <2>4. Shape'
    <3>1. DOMAIN remotes' = Servers /\ remotes' = [q \in Servers |-> remotes'[q]]
      BY <2>1 DEF RouteInv, Shape
    <3>2. \A q \in Servers : /\ DOMAIN remotes'[q] \subseteq Servers \ {q}
                              /\ \A u \in DOMAIN remotes'[q] : remotes'[q][u] \in Links
      BY <1>0, <1>2, <2>2 DEF RouteInv, Shape
    <3> HIDE DEF s, t
    <3> QED BY <1>1, <2>1, <3>1, <3>2 DEF RouteInv, Shape
  <2>5. EndOK(e)'
    <3>1. Kept(e)'
      BY <2>2 DEF Kept, Link, Owner, Other
    <3> QED BY <1>1, <2>1, <2>3, <3>1 DEF RouteInv, EndOK
  <2>6. ASSUME NEW x \in End \ {e} PROVE EndOK(x)'
    <3>1. CASE Owner(x) # s
      BY <1>1, <1>2, <2>1, <2>2, <2>3, <3>1, OtherEnd, EndIs DEF RouteInv
    <3>2. CASE Owner(x) = s
      <4>1. Link(x) # Link(e)
        BY <3>2, EndIs
      <4>2. ~Kept(x) /\ ~Kept(x)'
        BY <1>4, <2>2, <3>2, <4>1 DEF Kept, Link, Owner, Other
      <4> QED BY <1>1, <2>1, <2>3, <4>2 DEF RouteInv, EndOK
    <3> QED BY <3>1, <3>2
  <2>7. ASSUME NEW q \in Servers, OneWay(q)' PROVE Dialled(q)'
    <3>1. Dialled(q)
      BY <1>1, <2>7 DEF RouteInv, OneWay, Other
    <3>2. Owner(e) = q => closing[e] = "no"
      BY <1>0, <1>1, <3>1 DEF RouteInv, EndOK, Dialled
    <3>3. \A k \in Links :
             /\ nc[<<k, q>>] = "none" <=> nc'[<<k, q>>] = "none"
             /\ nc'[<<k, q>>] # "none" /\ closing'[<<k, q>>] # "no" => pc'[<<k, q>>] \in {"loop", "end"}
             /\ <<k, q>> \in ghosts' => <<k, q>> \in ghosts
      BY <1>1, <2>1, <2>3, <3>1, <3>2, EndsOf DEF Dialled
    <3> QED BY <1>1, <2>1, <3>1, <3>3, DialledStays
  <2> QED BY <2>4, <2>5, <2>6, <2>7 DEF RouteInv
<1> QED BY <1>3, <1>4

LEMMA UpgradeInv ==
  ASSUME RouteInv, NEW e \in End, Upgrade(e) PROVE RouteInv'
<1>1. /\ pc[e] = "upgrade"
      /\ solicited' = [solicited EXCEPT ![found[e]] = TRUE]
      /\ pc' = [pc EXCEPT ![e] = "dup"]
      /\ UNCHANGED <<solicits, remotes, dials, from, broken, nc, remoteID, found, closing, ghosts>>
  BY DEF Upgrade
<1>2. Shape'
  BY ZenonT(30), <1>1 DEF RouteInv, Shape
<1>3. /\ pc'[e] = "dup"
      /\ \A x \in End \ {e} : pc'[x] = pc[x]
      /\ \A x \in End : solicited[x] => solicited'[x]
  BY <1>1 DEF RouteInv, Shape
<1>4. EndOK(e)'
  <2>1. Kept(e)' <=> Kept(e)
    BY <1>1 DEF Kept
  <2> QED BY <2>1, <1>1, <1>3 DEF RouteInv, EndOK
<1>5. \A x \in End \ {e} : EndOK(x)'
  BY <1>1, <1>3, OtherEnd DEF RouteInv
<1>6. ASSUME NEW s \in Servers, OneWay(s)' PROVE Dialled(s)'
  <2>1. Dialled(s)
    BY <1>1, <1>6 DEF RouteInv, OneWay, Other
  <2>2. Tries(s, Other(s))'
    BY <1>1, <1>3, <2>1, EndsOf DEF Dialled, Tries, Open, Other
  <2>3. \A l \in Links : nc'[<<l, s>>] # "none" =>
           /\ solicited'[<<l, s>>] /\ <<l, s>> \notin ghosts'
           /\ closing'[<<l, s>>] # "no" => pc'[<<l, s>>] \in {"loop", "end"}
    BY <1>1, <1>3, <2>1, EndsOf DEF Dialled
  <2> QED BY <1>1, <2>1, <2>2, <2>3 DEF Dialled, Other
<1> QED BY <1>2, <1>4, <1>5, <1>6 DEF RouteInv

(* Closing e, where it is on the way out of its loop or is not in it.           *)
LEMMA CloseInv ==
  ASSUME RouteInv, NEW e \in End, closeConnection(e),
         UNCHANGED <<solicits, remotes, dials, from, solicited, remoteID, ghosts>>,
         nc[e] \notin {"none", "dialed", "queued"},
         \A x \in End \ {e} : pc'[x] = pc[x] /\ (x \in DOMAIN found' <=> x \in DOMAIN found),
         DOMAIN found' \subseteq DOMAIN found,
         pc' \in [End -> {"none", "read", "add", "upgrade", "dup", "loop", "end"}],
         pc'[e] = "end" \/ (pc'[e] = pc[e] /\ found' = found),
         pc'[e] = "end" => e \notin DOMAIN found',
         pc'[e] \in {"loop", "end"} \/ ~OneWay(Owner(e))
  PROVE  RouteInv'
<1>0. Link(e) \in DOMAIN from
  BY DEF RouteInv, EndOK
<1>1. Shape'
  BY <1>0 DEF RouteInv, Shape, closeConnection
<1>2. /\ nc'[e] = "nil"
      /\ nc[e] # "nil" => closing'[e] = "unregister" /\ closing[e] = "no"
      /\ nc[e] = "nil" => closing'[e] = closing[e]
      /\ \A x \in End \ {e} : nc'[x] = nc[x] /\ closing'[x] = closing[x]
  BY DEF RouteInv, Shape, EndOK, closeConnection
<1>3. EndOK(e)'
  <2>1. Kept(e)' <=> Kept(e)
    BY DEF Kept
  <2> QED BY <1>2, <2>1 DEF RouteInv, EndOK
<1>4. \A x \in End \ {e} : EndOK(x)'
  BY <1>2, OtherEnd DEF RouteInv
<1>5. ASSUME NEW s \in Servers, OneWay(s)' PROVE Dialled(s)'
  <2>1. OneWay(s) /\ Dialled(s)
    BY <1>5 DEF RouteInv, OneWay, Other
  <2>2. \A l \in Links :
           /\ nc[<<l, s>>] = "none" <=> nc'[<<l, s>>] = "none"
           /\ nc'[<<l, s>>] # "none" /\ closing'[<<l, s>>] # "no" => pc'[<<l, s>>] \in {"loop", "end"}
           /\ closing'[<<l, s>>] = "done" => closing[<<l, s>>] = "done"
    BY <1>2, <2>1, EndsOf DEF Dialled
  <2> QED BY <2>1, <2>2, DialledStays
<1> QED BY <1>1, <1>3, <1>4, <1>5 DEF RouteInv

LEMMA DuplicateInv ==
  ASSUME RouteInv, NEW e \in End, Duplicate(e) PROVE RouteInv'
<1>1. /\ pc[e] = "dup" /\ closeConnection(e)
      /\ pc' = [pc EXCEPT ![e] = "end"]
      /\ found' = Restrict(found, DOMAIN found \ {e})
      /\ UNCHANGED <<solicits, remotes, dials, from, solicited, remoteID, ghosts>>
  BY DEF Duplicate
<1>2. DOMAIN found' = DOMAIN found \ {e}
  BY <1>1 DEF Restrict
<1>3. nc[e] \notin {"none", "dialed", "queued"}
  BY <1>1 DEF RouteInv, EndOK
<1>4. /\ pc' \in [End -> {"none", "read", "add", "upgrade", "dup", "loop", "end"}]
      /\ pc'[e] = "end" /\ \A x \in End \ {e} : pc'[x] = pc[x]
  BY <1>1 DEF RouteInv, Shape
<1> QED BY <1>1, <1>2, <1>3, <1>4, CloseInv

LEMMA ReadErrorInv ==
  ASSUME RouteInv, NEW e \in End, ReadError(e) PROVE RouteInv'
<1>1. /\ pc[e] \in {"read", "loop"} /\ closeConnection(e)
      /\ pc' = [pc EXCEPT ![e] = "end"]
      /\ UNCHANGED <<solicits, remotes, dials, from, solicited, remoteID, found, ghosts>>
  BY DEF ReadError, end
<1>2. nc[e] \notin {"none", "dialed", "queued"} /\ e \notin DOMAIN found
  BY <1>1 DEF RouteInv, EndOK
<1>3. /\ pc' \in [End -> {"none", "read", "add", "upgrade", "dup", "loop", "end"}]
      /\ pc'[e] = "end" /\ \A x \in End \ {e} : pc'[x] = pc[x]
  BY <1>1 DEF RouteInv, Shape
<1> QED BY <1>1, <1>2, <1>3, CloseInv

(* Only an accepted end is closed from outside before addRoute.                 *)
LEMMA CloseFromOutsideInv ==
  ASSUME RouteInv, NEW e \in End, CloseFromOutside(e) PROVE RouteInv'
<1>1. /\ nc[e] = "up"
      /\ pc[e] = "loop" \/ from[Link(e)] # Owner(e)
      /\ closeConnection(e)
      /\ UNCHANGED <<solicits, remotes, dials, from, solicited, remoteID, found, ghosts, pc>>
  BY DEF CloseFromOutside, end
<1>2. OneWay(Owner(e)) => pc[e] = "loop"
  BY <1>1, EndIs DEF RouteInv, Dialled, EndOK
<1>3. pc[e] # "end" \/ e \notin DOMAIN found
  BY DEF RouteInv, EndOK
<1>4. pc \in [End -> {"none", "read", "add", "upgrade", "dup", "loop", "end"}]
  BY DEF RouteInv, Shape
<1> QED BY <1>1, <1>2, <1>3, <1>4, CloseInv

LEMMA CutInv ==
  ASSUME RouteInv, NEW l \in Links, Cut(l) PROVE RouteInv'
<1>1. /\ l \in DOMAIN from /\ broken' = broken \union {l}
      /\ UNCHANGED <<solicits, remotes, dials, from, nc, solicited, remoteID, found, ghosts, pc, closing>>
  BY DEF Cut, end
<1>2. Shape'
  BY <1>1 DEF RouteInv, Shape
<1>3. \A x \in End : EndOK(x)'
  BY <1>1, OtherEnd DEF RouteInv
<1>4. ASSUME NEW s \in Servers, OneWay(s)' PROVE Dialled(s)'
  <2>1. Dialled(s)
    BY <1>1, <1>4 DEF RouteInv, OneWay, Other
  <2> QED BY <1>1, <2>1, DialledStays DEF Dialled
<1> QED BY <1>2, <1>3, <1>4 DEF RouteInv

(* A connection that has been closed is the one that is taken out, or another   *)
(* stays in.                                                                    *)
LEMMA RemoveClientInv ==
  ASSUME RouteInv, NEW e \in End, removeClient(e) PROVE RouteInv'
<1>0. PICK l \in Links, s \in Servers : e = <<l, s>> /\ Link(e) = l /\ Owner(e) = s
  BY EndIs
<1> DEFINE t == Other(s)
           out == remoteID[e] /\ Kept(e)
<1>1. /\ closing[e] = "unregister"
      /\ remotes' = IF out THEN [remotes EXCEPT ![s] = <<>>] ELSE remotes
      /\ closing' = [closing EXCEPT ![e] = "ask"]
      /\ UNCHANGED <<solicits, dials, from, broken, nc, pc, solicited, remoteID, found, ghosts>>
  BY <1>0 DEF removeClient, OnlyIfItIsUs, Kept, end
<1>2. /\ t \in Servers /\ t # s
      /\ closing'[e] = "ask" /\ \A x \in End \ {e} : closing'[x] = closing[x]
      /\ \A q \in Servers \ {s} : remotes'[q] = remotes[q]
      /\ out => remotes'[s] = <<>> /\ DOMAIN remotes'[s] = {}
      /\ ~out => remotes' = remotes
  <2>1. t \in Servers /\ t # s
    BY OtherServer
  <2> HIDE DEF out, t
  <2> QED BY <1>1, <2>1 DEF RouteInv, Shape
<1>3. Shape'
  <2>1. DOMAIN remotes' = Servers /\ remotes' = [q \in Servers |-> remotes'[q]]
    BY <1>1 DEF RouteInv, Shape
  <2>2. \A q \in Servers : /\ DOMAIN remotes'[q] \subseteq Servers \ {q}
                            /\ \A u \in DOMAIN remotes'[q] : remotes'[q][u] \in Links
    BY <1>2 DEF RouteInv, Shape
  <2> HIDE DEF out, t
  <2> QED BY <1>1, <2>1, <2>2 DEF RouteInv, Shape
<1>4. nc[e] = "nil" /\ (Kept(e) => out)
  BY <1>1 DEF RouteInv, EndOK
<1>5. EndOK(e)'
  <2>1. ~Kept(e)'
    BY <1>0, <1>2, <1>4 DEF Kept, Owner, Link, Other
  <2> QED BY <1>1, <1>2, <1>4, <2>1 DEF RouteInv, EndOK
<1>6. ASSUME NEW x \in End \ {e} PROVE EndOK(x)'
  <2>1. CASE remotes'[Owner(x)] = remotes[Owner(x)]
    BY <1>1, <1>2, <2>1, OtherEnd DEF RouteInv
  <2>2. CASE remotes'[Owner(x)] # remotes[Owner(x)]
    <3>1. Owner(x) = s /\ out
      BY <1>2, <2>2, EndIs
    <3>2. Link(x) # l
      BY <1>0, <3>1, EndIs
    <3>3. ~Kept(x) /\ ~Kept(x)'
      BY <1>0, <1>2, <3>1, <3>2 DEF Kept, Owner, Link, Other
    <3> QED BY <1>1, <1>2, <3>3 DEF RouteInv, EndOK
  <2> QED BY <2>1, <2>2
<1>7. ASSUME NEW q \in Servers, OneWay(q)' PROVE Dialled(q)'
  <2>1. Dialled(q)
    BY <1>1, <1>7 DEF RouteInv, OneWay, Other
  <2>2. \A k \in Links :
           /\ nc'[<<k, q>>] # "none" /\ closing'[<<k, q>>] # "no" => pc'[<<k, q>>] \in {"loop", "end"}
           /\ closing'[<<k, q>>] = "done" => closing[<<k, q>>] = "done"
    BY <1>1, <1>2, <2>1, EndsOf DEF Dialled
  <2> QED BY <1>1, <2>1, <2>2, DialledStays
<1> QED BY <1>3, <1>5, <1>6, <1>7 DEF RouteInv

(* The rest of closing e goes on, or ends.                                      *)
LEMMA ClosingInv ==
  ASSUME RouteInv, NEW e \in End, NEW next \in {"check", "done"},
         closing[e] \in {"ask", "check"},
         closing' = [closing EXCEPT ![e] = next],
         UNCHANGED <<solicits, remotes, from, broken, nc, pc, solicited, remoteID, found, ghosts>>,
         dials' \in [solicits -> 0..MaxDials],
         \A s \in Servers : OneWay(s) => Tries(s, Other(s))'
  PROVE  RouteInv'
<1>1. Shape'
  BY DEF RouteInv, Shape
<1>2. closing'[e] = next /\ \A x \in End \ {e} : closing'[x] = closing[x]
  BY DEF RouteInv, Shape
<1>3. EndOK(e)'
  <2>1. Kept(e)' <=> Kept(e)
    BY DEF Kept
  <2> QED BY <1>2, <2>1 DEF RouteInv, EndOK
<1>4. \A x \in End \ {e} : EndOK(x)'
  BY <1>2, OtherEnd DEF RouteInv
<1>5. ASSUME NEW s \in Servers, OneWay(s)' PROVE Dialled(s)'
  <2>1. Dialled(s) /\ Tries(s, Other(s))'
    BY <1>5 DEF RouteInv, OneWay, Other
  <2>2. \A l \in Links :
           nc'[<<l, s>>] # "none" /\ closing'[<<l, s>>] # "no" => pc'[<<l, s>>] \in {"loop", "end"}
    BY <1>2, <2>1, EndsOf DEF Dialled
  <2> QED BY <2>1, <2>2 DEF Dialled, Other
<1> QED BY <1>1, <1>3, <1>4, <1>5 DEF RouteInv

LEMMA IsSolicitedRouteInv ==
  ASSUME RouteInv, NEW e \in End, isSolicitedRoute(e) PROVE RouteInv'
<1> DEFINE next == IF solicited[e] THEN "check" ELSE "done"
<1>1. /\ closing[e] = "ask"
      /\ closing' = [closing EXCEPT ![e] = next]
      /\ UNCHANGED <<solicits, remotes, dials, from, broken, nc, pc, solicited, remoteID, found, ghosts>>
  BY DEF isSolicitedRoute, end
<1>2. closing'[e] = next /\ \A x \in End \ {e} : closing'[x] = closing[x]
  BY <1>1 DEF RouteInv, Shape
<1>3. ASSUME NEW s \in Servers, OneWay(s) PROVE Tries(s, Other(s))'
  <2>1. Dialled(s)
    BY <1>3 DEF RouteInv
  <2>2. \A l \in Links : Open(<<l, s>>) /\ solicited[<<l, s>>] => Open(<<l, s>>)' /\ solicited'[<<l, s>>]
    BY <1>1, <1>2, EndsOf DEF Open
  <2>3. Tries(s, Other(s))
    BY <2>1 DEF Dialled
  <2> QED BY <1>1, <2>2, <2>3 DEF Tries, Other
<1>4. dials' \in [solicits -> 0..MaxDials]
  BY <1>1 DEF RouteInv, Shape
<1> QED BY <1>1, <1>3, <1>4, ClosingInv

(* Whoever is in s.remotes instead is open, when s is the one that dials.       *)
LEMMA ReconnectInv ==
  ASSUME RouteInv, NEW e \in End, Reconnect(e) PROVE RouteInv'
<1>0. PICK l \in Links, p \in Servers : e = <<l, p>> /\ Link(e) = l /\ Owner(e) = p
  BY EndIs
<1> DEFINE r == <<p, Other(p)>>
<1>1. /\ closing[e] = "check"
      /\ closing' = [closing EXCEPT ![e] = "done"]
      /\ IF AlreadyConnected(e) THEN UNCHANGED dials
         ELSE dials[r] < MaxDials /\ dials' = [dials EXCEPT ![r] = @ + 1]
      /\ UNCHANGED <<solicits, remotes, from, broken, nc, pc, solicited, remoteID, found, ghosts>>
  BY <1>0 DEF Reconnect, end
<1>2. closing'[e] = "done" /\ \A x \in End \ {e} : closing'[x] = closing[x]
  BY <1>1 DEF RouteInv, Shape
<1>3. /\ dials' \in [solicits -> 0..MaxDials]
      /\ r \in solicits /\ ~AlreadyConnected(e) => dials'[r] > 0
      /\ \A q \in solicits : dials'[q] >= dials[q]
  <2>1. dials \in [solicits -> 0..MaxDials] /\ MaxDials \in Nat
    BY BoundsAssumption DEF RouteInv, Shape
  <2> HIDE DEF r
  <2>2. CASE AlreadyConnected(e)
    BY <1>1, <2>1, <2>2
  <2>3. CASE ~AlreadyConnected(e) /\ r \in solicits
    BY <1>1, <2>1, <2>3
  <2>4. CASE ~AlreadyConnected(e) /\ r \notin solicits
    <3>1. dials' = dials
      BY <1>1, <2>1, <2>4
    <3> QED BY <2>1, <2>4, <3>1
  <2> QED BY <2>2, <2>3, <2>4
<1>4. ASSUME NEW s \in Servers, OneWay(s) PROVE Tries(s, Other(s))'
  <2>0. Dialled(s) /\ <<s, Other(s)>> \in solicits
    BY <1>4 DEF RouteInv, OneWay
  <2>1. \A k \in Links : <<k, s>> # e /\ Open(<<k, s>>) /\ solicited[<<k, s>>]
                            => Open(<<k, s>>)' /\ solicited'[<<k, s>>]
    BY <1>1, <1>2, EndsOf DEF Open
  <2>2. CASE dials[<<s, Other(s)>>] > 0
    BY <1>1, <1>3, <2>0, <2>2 DEF Tries, Other, RouteInv, Shape
  <2>3. CASE p # s
    <3>1. \A k \in Links : <<k, s>> # e
      BY <1>0, <2>3
    <3>2. CASE \E k \in Links : Open(<<k, s>>) /\ solicited[<<k, s>>]
      BY <1>1, <2>1, <3>1, <3>2 DEF Tries, Other
    <3> QED BY <2>0, <2>2, <3>2 DEF Dialled, Tries
  <2>4. CASE p = s /\ ~AlreadyConnected(e)
    BY <1>1, <1>3, <2>0, <2>4 DEF Tries, Other
  <2>5. CASE p = s /\ AlreadyConnected(e)
    <3>1. Other(s) \in DOMAIN remotes[s]
      BY <1>0, <2>5 DEF AlreadyConnected
    <3>2. PICK k \in Links : k = remotes[s][Other(s)]
      BY <3>1 DEF RouteInv, Shape
    <3>3. <<k, s>> \in End /\ Kept(<<k, s>>)
      BY <3>1, <3>2, EndsOf DEF Kept
    <3>4. /\ closing[<<k, s>>] \in {"no", "unregister"} \/ <<k, s>> \in ghosts
          /\ nc[<<k, s>>] # "none"
      <4>1. EndOK(<<k, s>>)
        BY <3>3 DEF RouteInv
      <4> QED BY <3>3, <4>1 DEF EndOK
    <3>5. /\ closing[<<k, s>>] \in {"no", "unregister"}
          /\ solicited[<<k, s>>]
      BY <2>0, <3>4 DEF Dialled
    <3>6. <<k, s>> # e
      BY <1>1, <3>5
    <3>7. Open(<<k, s>>)
      BY <3>4, <3>5 DEF Open
    <3>8. Open(<<k, s>>)' /\ solicited'[<<k, s>>]
      BY <2>1, <3>5, <3>6, <3>7
    <3> QED BY <3>8 DEF Tries
  <2> QED BY <2>3, <2>4, <2>5
<1> QED BY <1>1, <1>3, <1>4, ClosingInv

(* A new connection is solicited at the server that dials, and nobody knows its *)
(* link yet.                                                                    *)
LEMMA DialInv ==
  ASSUME RouteInv, NEW s \in Servers, NEW t \in Servers, NEW l \in Links, Dial(s, t, l)
  PROVE  RouteInv'
<1> DEFINE x == <<l, s>>
           y == <<l, t>>
<1>1. /\ <<s, t>> \in solicits /\ dials[<<s, t>>] > 0 /\ Unused(l)
      /\ dials' = [dials EXCEPT ![<<s, t>>] = @ - 1]
      /\ from' = [k \in DOMAIN from \union {l} |-> IF k = l THEN s ELSE from[k]]
      /\ broken' = broken \ {l}
      /\ nc' = [nc EXCEPT ![x] = "dialed", ![y] = "queued"]
      /\ solicited' = [solicited EXCEPT ![x] = TRUE, ![y] = FALSE]
      /\ remoteID' = [remoteID EXCEPT ![x] = FALSE, ![y] = FALSE]
      /\ pc' = [pc EXCEPT ![x] = "none", ![y] = "none"]
      /\ closing' = [closing EXCEPT ![x] = "no", ![y] = "no"]
      /\ ghosts' = ghosts \ {x, y}
      /\ UNCHANGED <<solicits, remotes, found>>
  BY DEF Dial
<1>2. s # t /\ t = Other(s) /\ s = Other(t) /\ \A q \in Servers : q = s \/ q = t
  <2>1. s # t
    BY <1>1, ConfigsAssumption DEF RouteInv, Shape
  <2> QED BY <2>1, OtherServer
<1>3. x \in End /\ y \in End /\ x # y
  BY <1>2, EndsOf
<1> HIDE DEF x, y
<1>4. Shape'
  <2>1. dials' \in [solicits -> 0..MaxDials]
    BY <1>1, BoundsAssumption DEF RouteInv, Shape
  <2>2. DOMAIN from' \subseteq Links /\ broken' \subseteq DOMAIN from'
    BY <1>1 DEF RouteInv, Shape
  <2>3. /\ nc' \in [End -> {"none", "dialed", "queued", "up", "nil"}]
        /\ solicited' \in [End -> BOOLEAN] /\ remoteID' \in [End -> BOOLEAN]
        /\ pc' \in [End -> {"none", "read", "add", "upgrade", "dup", "loop", "end"}]
        /\ closing' \in [End -> {"no", "unregister", "ask", "check", "done"}]
    BY <1>1, <1>3 DEF RouteInv, Shape
  <2>4. DOMAIN found' \subseteq End /\ ghosts' \subseteq End
    BY <1>1 DEF RouteInv, Shape
  <2>5. Shape /\ solicits' = solicits /\ remotes' = remotes
    BY <1>1 DEF RouteInv
  <2> QED BY <2>1, <2>2, <2>3, <2>4, <2>5 DEF Shape
<1>5. \A e \in {x, y} : /\ nc'[e] \in {"dialed", "queued"} /\ remoteID'[e] = FALSE
                        /\ pc'[e] = "none" /\ closing'[e] = "no"
  BY <1>1, <1>3 DEF RouteInv, Shape
<1>6. \A e \in End \ {x, y} : /\ nc'[e] = nc[e] /\ remoteID'[e] = remoteID[e]
                              /\ pc'[e] = pc[e] /\ closing'[e] = closing[e]
                              /\ solicited'[e] = solicited[e]
                              /\ e \in ghosts' <=> e \in ghosts
  BY <1>1, <1>3 DEF RouteInv, Shape
<1>7. ASSUME NEW e \in {x, y} PROVE EndOK(e)'
  <2>1. e \in End /\ Link(e) = l /\ Owner(e) \in Servers /\ e = <<l, Owner(e)>>
    BY <1>3, EndsOf DEF x, y
  <2>2. pc[e] \in {"none", "end"}
    <3>1. nc[e] = "none" \/ pc[e] = "end"
      BY <1>1, <2>1 DEF Unused
    <3> QED BY <2>1, <3>1 DEF RouteInv, EndOK
  <2>3. e \notin DOMAIN found'
    BY <1>1, <2>1, <2>2 DEF RouteInv, EndOK
  <2>4. ~Kept(e)'
    <3>1. l \notin Range(remotes[Owner(e)])
      BY <1>1, <2>1 DEF Unused
    <3>2. ~Kept(e)
      BY <2>1, <3>1, RangeIs DEF RouteInv, Kept
    <3> QED BY <1>1, <3>2 DEF Kept
  <2>5. Link(e) \in DOMAIN from'
    BY <1>1, <2>1
  <2> QED BY <1>5, <2>3, <2>4, <2>5 DEF EndOK
<1>8. ASSUME NEW e \in End \ {x, y} PROVE EndOK(e)'
  <2>1. DOMAIN from \subseteq DOMAIN from'
    BY <1>1
  <2>2. remotes'[Owner(e)] = remotes[Owner(e)] /\ found' = found /\ EndOK(e) /\ e \in End
    BY <1>1 DEF RouteInv
  <2>3. /\ pc'[e] = pc[e] /\ nc'[e] = nc[e] /\ closing'[e] = closing[e]
        /\ remoteID'[e] = remoteID[e] /\ (e \in ghosts => e \in ghosts')
    BY <1>6
  <2> QED BY <2>1, <2>2, <2>3, OtherEnd
<1>9. ASSUME NEW q \in Servers, OneWay(q)' PROVE Dialled(q)'
  <2>1. q = s /\ Dialled(s)
    <3>1. OneWay(q)
      BY <1>1, <1>9 DEF OneWay, Other
    <3>2. q = s
      BY <1>1, <1>2, <3>1 DEF OneWay
    <3> QED BY <3>1, <3>2 DEF RouteInv
  <2>2. \A k \in Links : k \in DOMAIN from' => from'[k] = s
    BY <1>1, <2>1 DEF Dialled
  <2>3. nc'[x] = "dialed" /\ solicited'[x] /\ x \notin ghosts' /\ closing'[x] = "no"
    BY <1>1, <1>3 DEF RouteInv, Shape
  <2>4. \A k \in Links : nc'[<<k, s>>] # "none" =>
           /\ solicited'[<<k, s>>] /\ <<k, s>> \notin ghosts'
           /\ closing'[<<k, s>>] # "no" => pc'[<<k, s>>] \in {"loop", "end"}
    <3> SUFFICES ASSUME NEW k \in Links, nc'[<<k, s>>] # "none"
                 PROVE  /\ solicited'[<<k, s>>] /\ <<k, s>> \notin ghosts'
                        /\ closing'[<<k, s>>] # "no" => pc'[<<k, s>>] \in {"loop", "end"}
      OBVIOUS
    <3>1. CASE k = l
      BY <2>3, <3>1 DEF x
    <3>2. CASE k # l
      <4>1. <<k, s>> \in End \ {x, y}
        BY <3>2, EndsOf DEF x, y
      <4> QED BY <1>6, <2>1, <4>1 DEF Dialled
    <3> QED BY <3>1, <3>2
  <2>5. Tries(s, t)'
    BY <2>3 DEF Tries, Open, x
  <2> QED BY <1>2, <2>1, <2>2, <2>4, <2>5 DEF Dialled, Other
<1> QED BY <1>4, <1>7, <1>8, <1>9 DEF RouteInv

(* Nothing moves. *)
LEMMA RouteStutter == ASSUME RouteInv, UNCHANGED vars PROVE RouteInv'
<1>1. Shape'
  BY DEF RouteInv, Shape, vars
<1>2. \A e \in End : EndOK(e)'
  BY OtherEnd DEF RouteInv, vars
<1>3. ASSUME NEW s \in Servers, OneWay(s)' PROVE Dialled(s)'
  <2>1. Dialled(s)
    BY <1>3 DEF RouteInv, OneWay, Other, vars
  <2> QED BY <2>1, DialledStays DEF Dialled, vars
<1> QED BY <1>1, <1>2, <1>3 DEF RouteInv

LEMMA RouteStep == ASSUME RouteInv, [Next]_vars PROVE RouteInv'
<1>1. CASE \E s, t \in Servers : Connecting(s, t)
  BY <1>1, DialInv DEF Connecting
<1>2. CASE \E e \in End : Step(e)
  BY <1>2, CreateRouteInv, ProcessRouteInfoInv, AddRouteInv, UpgradeInv, DuplicateInv,
     ReadErrorInv DEF Step
<1>3. CASE \E e \in End : Close(e)
  BY <1>3, RemoveClientInv, IsSolicitedRouteInv, ReconnectInv DEF Close
<1>4. CASE \E e \in End : CloseFromOutside(e)
  BY <1>4, CloseFromOutsideInv
<1>5. CASE \E l \in Links : Cut(l)
  BY <1>5, CutInv
<1>6. CASE UNCHANGED vars
  BY <1>6, RouteStutter
<1> QED BY <1>1, <1>2, <1>3, <1>4, <1>5, <1>6 DEF Next
-----------------------------------------------------------------------------
(* The invariant of the routes between two servers, whatever each is configured *)
(* to solicit.                                                                  *)
THEOREM RouteInvariance == Spec => []RouteInv
BY RouteInit, RouteStep, PTL DEF Spec

(* The state fits its types: a closed connection has no nc, a connection found  *)
(* instead is held by the read loop that found it (route.go:202-279).           *)
THEOREM RouteTypes == Spec => []TypeOK
<1>1. ASSUME RouteInv PROVE TypeOK
  <2>1. DOMAIN dials = solicits /\ \A r \in solicits : dials[r] \in 0..MaxDials
    BY <1>1 DEF RouteInv, Shape
  <2> QED BY <1>1, <2>1 DEF RouteInv, Shape, EndOK, TypeOK
<1> QED BY <1>1, RouteInvariance, PTL

(* s.remotes is true, with any number of connections, dials and failures: who   *)
(* is in there has not been taken out by its close, or was let in after it, and *)
(* who was let in and is not closed is in there (route.go:247-264,              *)
(* server.go:498-507).                                                          *)
THEOREM RemotesAreTrue == Spec => []RemotesTrue
<1>1. ASSUME RouteInv PROVE RemotesTrue
  <2> SUFFICES ASSUME NEW s \in Servers, NEW l \in Links
               PROVE  /\ l \in Range(remotes[s]) => \/ closing[<<l, s>>] \in {"no", "unregister"}
                                                    \/ <<l, s>> \in ghosts
                      /\ pc[<<l, s>>] = "loop" /\ nc[<<l, s>>] = "up" => l \in Range(remotes[s])
    BY DEF RemotesTrue
  <2>1. <<l, s>> \in End /\ EndOK(<<l, s>>)
    BY <1>1, EndsOf DEF RouteInv
  <2>2. l \in Range(remotes[s]) <=> Kept(<<l, s>>)
    BY <1>1, RangeIs, EndsOf DEF RouteInv, Kept
  <2> QED BY <2>1, <2>2 DEF EndOK
<1> QED BY <1>1, RouteInvariance, PTL

(* A route that one of the servers is configured to have is never given up, for *)
(* any number of failures: a connection that closes dials again, or leaves one  *)
(* in s.remotes that will (client.go:923-936, route.go:389-412).                *)
THEOREM RouteIsNotGivenUp == Spec => []NotGivenUp
<1>1. ASSUME RouteInv PROVE NotGivenUp
  <2> SUFFICES ASSUME NEW r \in solicits, <<r[2], r[1]>> \notin solicits
               PROVE  Tries(r[1], r[2])
    BY DEF NotGivenUp
  <2>1. r \in Servers \X Servers /\ r[1] # r[2]
    BY <1>1, ConfigsAssumption DEF RouteInv, Shape
  <2>2. PICK s \in Servers, t \in Servers : r = <<s, t>>
    BY <2>1
  <2>3. t = Other(s)
    BY <2>1, <2>2, OtherServer
  <2>4. OneWay(s)
    BY <2>2, <2>3 DEF OneWay
  <2>5. Tries(s, t)
    BY <1>1, <2>3, <2>4 DEF RouteInv, Dialled
  <2> QED BY <2>2, <2>5
<1> QED BY <1>1, RouteInvariance, PTL
-----------------------------------------------------------------------------
(* The two ends of a link: both exist or neither, what has been closed is       *)
(* broken for the other, and a read loop that has ended has closed.             *)
Wired(e) ==
  /\ nc[e] = "none" => nc[Peer(e)] = "none"
  /\ nc[e] = "nil" => Link(e) \in broken
  /\ pc[e] = "end" => nc[e] = "nil"

LinkInv == RouteInv /\ \A e \in End : Wired(e)

LEMMA PeerIs ==
  ASSUME NEW e \in End
  PROVE  /\ Peer(e) \in End /\ Peer(Peer(e)) = e /\ Link(Peer(e)) = Link(e)
         /\ Owner(Peer(e)) = Other(Owner(e)) /\ Peer(e) # e
<1>1. PICK l \in Links, s \in Servers : e = <<l, s>> /\ Link(e) = l /\ Owner(e) = s
  BY EndIs
<1>2. Other(s) \in Servers /\ Other(s) # s /\ Other(Other(s)) = s
  BY OtherServer
<1>3. Peer(e) = <<l, Other(s)>>
  BY <1>1 DEF Peer
<1>4. Peer(e) \in End /\ Link(Peer(e)) = l /\ Owner(Peer(e)) = Other(s)
  BY <1>2, <1>3, EndsOf
<1>5. Peer(Peer(e)) = e
  BY <1>1, <1>2, <1>4 DEF Peer
<1> QED BY <1>1, <1>2, <1>3, <1>4, <1>5

LEMMA WiredStays ==
  ASSUME LinkInv, broken \subseteq broken',
         \A e \in End : /\ nc[e] = "none" <=> nc'[e] = "none"
                        /\ nc[e] = "nil" => nc'[e] = "nil"
                        /\ nc'[e] = "nil" => nc[e] = "nil" \/ Link(e) \in broken'
                        /\ pc'[e] = "end" => pc[e] = "end" \/ nc'[e] = "nil"
  PROVE  \A e \in End : Wired(e)'
<1> SUFFICES ASSUME NEW e \in End PROVE Wired(e)'
  OBVIOUS
<1>1. Wired(e) /\ Peer(e) \in End
  BY PeerIs DEF LinkInv
<1>2. (nc[Peer(e)] = "none" <=> nc'[Peer(e)] = "none")
  BY <1>1
<1> QED BY <1>1, <1>2 DEF Wired, Peer, Link, Owner, Other

LEMMA CloseWired ==
  ASSUME LinkInv, NEW e \in End, closeConnection(e), nc[e] \notin {"none", "dialed", "queued"},
         \A x \in End \ {e} : pc'[x] = pc[x]
  PROVE  \A x \in End : Wired(x)'
<1>1. Wired(e)
  BY DEF LinkInv
<1>2. nc'[e] = "nil" /\ Link(e) \in broken' /\ broken \subseteq broken'
  BY <1>1 DEF LinkInv, RouteInv, Shape, closeConnection, Wired
<1>3. \A x \in End \ {e} : nc'[x] = nc[x]
  BY DEF LinkInv, RouteInv, Shape, closeConnection
<1> QED BY <1>2, <1>3, WiredStays

LEMMA DialWired ==
  ASSUME LinkInv, NEW s \in Servers, NEW t \in Servers, NEW l \in Links, Dial(s, t, l)
  PROVE  \A e \in End : Wired(e)'
<1>1. s # t /\ t = Other(s) /\ s = Other(t)
  <2>1. s # t
    BY ConfigsAssumption DEF LinkInv, RouteInv, Shape, Dial
  <2> QED BY <2>1, OtherServer
<1>2. PICK x, y \in End : x = <<l, s>> /\ y = <<l, t>>
  BY EndsOf
<1>3. x # y /\ Peer(x) = y /\ Peer(y) = x
  BY <1>1, <1>2, EndsOf DEF Peer
<1>4. /\ nc' = [nc EXCEPT ![x] = "dialed", ![y] = "queued"]
      /\ pc' = [pc EXCEPT ![x] = "none", ![y] = "none"]
      /\ broken' = broken \ {l}
  BY <1>2 DEF Dial
<1>5. /\ nc'[x] = "dialed" /\ nc'[y] = "queued" /\ pc'[x] = "none" /\ pc'[y] = "none"
      /\ \A e \in End \ {x, y} : nc'[e] = nc[e] /\ pc'[e] = pc[e]
  BY <1>3, <1>4 DEF LinkInv, RouteInv, Shape
<1>6. ASSUME NEW e \in End \ {x, y} PROVE Wired(e)'
  <2>1. Link(e) # l
    BY <1>1, <1>2, EndIs, OtherServer
  <2>2. Wired(e) /\ Peer(e) \in End \ {x, y}
    BY <1>2, <2>1, PeerIs, EndsOf DEF LinkInv
  <2>3. Link(e) \in broken => Link(e) \in broken'
    BY <1>4, <2>1
  <2>4. nc'[e] = nc[e] /\ pc'[e] = pc[e] /\ nc'[Peer(e)] = nc[Peer(e)]
    BY <1>5, <2>2
  <2> QED BY <2>2, <2>3, <2>4 DEF Wired, Peer, Link, Owner, Other
<1>7. Wired(x)' /\ Wired(y)'
  BY <1>5 DEF Wired
<1> QED BY <1>6, <1>7

(* Every step keeps the ends of each link together.                             *)
LEMMA LinkStep == ASSUME LinkInv, [Next]_vars PROVE LinkInv'
<1>1. RouteInv'
  BY RouteStep DEF LinkInv
<1>2. \A e \in End : Wired(e)'
  <2>1. ASSUME NEW s \in Servers, NEW t \in Servers, Connecting(s, t) PROVE \A e \in End : Wired(e)'
    BY <2>1, DialWired DEF Connecting
  <2>2. ASSUME NEW e \in End, createRoute(e) PROVE \A x \in End : Wired(x)'
    BY <2>2, WiredStays DEF createRoute, LinkInv, RouteInv, Shape
  <2>3. ASSUME NEW e \in End, Duplicate(e) \/ ReadError(e) PROVE \A x \in End : Wired(x)'
    <3>1. pc[e] \in {"dup", "read", "loop"} /\ closeConnection(e) /\ pc' = [pc EXCEPT ![e] = "end"]
      BY <2>3 DEF Duplicate, ReadError
    <3>2. nc[e] \notin {"none", "dialed", "queued"}
      BY <3>1 DEF LinkInv, RouteInv, EndOK
    <3>3. \A x \in End \ {e} : pc'[x] = pc[x]
      BY <3>1 DEF LinkInv, RouteInv, Shape
    <3> QED BY <3>1, <3>2, <3>3, CloseWired
  <2>4. ASSUME NEW e \in End, processRouteInfo(e) \/ addRoute(e) \/ Upgrade(e)
        PROVE  \A x \in End : Wired(x)'
    <3>1. UNCHANGED <<nc, broken>>
      BY <2>4 DEF processRouteInfo, addRoute, Upgrade
    <3>2. PICK v \in {"add", "upgrade", "dup", "loop"} : pc' = [pc EXCEPT ![e] = v]
      BY <2>4 DEF processRouteInfo, addRoute, Upgrade
    <3>3. \A x \in End : pc'[x] = "end" => pc[x] = "end"
      BY <3>2 DEF LinkInv, RouteInv, Shape
    <3> QED BY <3>1, <3>3, WiredStays DEF LinkInv, Wired
  <2>5. ASSUME NEW e \in End, CloseFromOutside(e) PROVE \A x \in End : Wired(x)'
    BY <2>5, CloseWired DEF CloseFromOutside
  <2>6. ASSUME NEW e \in End, Close(e) PROVE \A x \in End : Wired(x)'
    <3>1. UNCHANGED <<nc, pc, broken>>
      BY <2>6 DEF Close, removeClient, isSolicitedRoute, Reconnect
    <3> QED BY <3>1, WiredStays DEF LinkInv, Wired
  <2>7. ASSUME NEW l \in Links, Cut(l) PROVE \A x \in End : Wired(x)'
    <3>1. UNCHANGED <<nc, pc>> /\ broken \subseteq broken'
      BY <2>7 DEF Cut
    <3> QED BY <3>1, WiredStays DEF LinkInv, Wired
  <2>8. CASE UNCHANGED vars
    <3>1. UNCHANGED <<nc, pc, broken>>
      BY <2>8 DEF vars
    <3> QED BY <3>1, WiredStays DEF LinkInv, Wired
  <2> QED BY <2>1, <2>2, <2>3, <2>4, <2>5, <2>6, <2>7, <2>8 DEF Next, Step
<1> QED BY <1>1, <1>2 DEF LinkInv

LEMMA LinkInvariance == Spec => []LinkInv
<1>1. Init => LinkInv
  <2>1. Init => \A e \in End : Wired(e)
    BY PeerIs DEF Init, Wired
  <2> QED BY <2>1, RouteInit DEF LinkInv
<1> QED BY <1>1, LinkStep, PTL DEF Spec

(* An open end at which nothing is left to do reads on, and so does the other   *)
(* end of its link.                                                             *)
LEMMA SettledEnd ==
  ASSUME LinkInv, \A x \in End : Settled(x), NEW e \in End, Open(e)
  PROVE  /\ pc[e] = "loop" /\ nc[e] = "up" /\ Kept(e)
         /\ pc[Peer(e)] = "loop" /\ nc[Peer(e)] = "up" /\ Kept(Peer(e))
<1>1. PICK p \in End : p = Peer(e) /\ Peer(p) = e /\ Link(p) = Link(e)
  BY PeerIs
<1>2. EndOK(e) /\ Wired(e) /\ EndOK(p) /\ Wired(p) /\ Settled(e) /\ Settled(p)
  BY DEF LinkInv, RouteInv
<1>3. /\ nc[e] \in {"none", "dialed", "queued", "up", "nil"}
      /\ nc[p] \in {"none", "dialed", "queued", "up", "nil"}
      /\ pc[e] \in {"none", "read", "add", "upgrade", "dup", "loop", "end"}
      /\ pc[p] \in {"none", "read", "add", "upgrade", "dup", "loop", "end"}
  BY DEF LinkInv, RouteInv, Shape
<1>4. nc[e] = "up" /\ pc[e] \in {"read", "loop"} /\ Link(e) \notin broken
  BY <1>2, <1>3 DEF Open, Settled, EndOK, Wired
<1>5. nc[p] = "up" /\ pc[p] \in {"read", "loop"}
  BY <1>1, <1>2, <1>3, <1>4 DEF Settled, EndOK, Wired
<1>6. pc[e] = "loop" /\ pc[p] = "loop"
  BY <1>1, <1>2, <1>4, <1>5 DEF Settled
<1> QED BY <1>1, <1>2, <1>4, <1>5, <1>6 DEF EndOK

(* When everything has been done, the two servers have one connection, which    *)
(* both have in s.remotes, or none: whatever was dialled, dropped as a          *)
(* duplicate, cut and closed before (route.go:247-264, client.go:896-943).      *)
THEOREM SettledRoutesAgree == Spec => []SettledAgree
<1>1. ASSUME LinkInv, \A x \in End : Settled(x), NEW e \in End, Open(e) PROVE Agreed
  <2>1. PICK l \in Links : l = Link(e)
    BY EndIs
  <2>2. ASSUME NEW s \in Servers
        PROVE  <<l, s>> \in End /\ nc[<<l, s>>] = "up" /\ Kept(<<l, s>>)
    <3>1. <<l, s>> \in End /\ (<<l, s>> = e \/ <<l, s>> = Peer(e))
      BY <2>1, EndIs, EndsOf, OtherServer DEF Peer
    <3> QED BY <1>1, <3>1, SettledEnd
  <2>3. ASSUME NEW s \in Servers PROVE Range(remotes[s]) = {l}
    <3>1. Shape /\ Link(<<l, s>>) = l /\ Owner(<<l, s>>) = s
      BY <1>1, EndsOf DEF LinkInv, RouteInv
    <3>2. Other(s) \in DOMAIN remotes[s] /\ remotes[s][Other(s)] = l
      BY <2>2, <3>1 DEF Kept
    <3>3. \A k : k \in Range(remotes[s]) <=> k = l
      BY <3>1, <3>2, RangeIs
    <3> QED BY <3>3
  <2>4. ASSUME NEW s \in Servers, NEW k \in Links, Open(<<k, s>>) PROVE k = l
    <3>1. <<k, s>> \in End /\ Link(<<k, s>>) = k /\ Owner(<<k, s>>) = s
      BY EndsOf
    <3>2. Kept(<<k, s>>)
      BY <1>1, <2>4, <3>1, SettledEnd
    <3>3. Link(<<l, s>>) = l /\ Owner(<<l, s>>) = s /\ Kept(<<l, s>>)
      BY <2>2, EndsOf
    <3> QED BY <3>1, <3>2, <3>3 DEF Kept
  <2> QED BY <2>2, <2>3, <2>4 DEF Agreed
<1>2. ASSUME LinkInv PROVE SettledAgree
  BY <1>1, <1>2 DEF SettledAgree
<1> QED BY <1>2, LinkInvariance, PTL
================================================================================
