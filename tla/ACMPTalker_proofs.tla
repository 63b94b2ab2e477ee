------------------------- MODULE ACMPTalker_proofs -------------------------
(***************************************************************************)
(* Proofs about ACMPTalker: type correctness, StreamReserved, and the      *)
(* refinement of StreamSource, for every set of addresses and every number *)
(* of failed calls and conflicts.                                          *)
(***************************************************************************)
EXTENDS ACMPTalker, SequenceTheorems, TLAPS

(***************************************************************************)
(* MAAP's indications alternate: each one reverses the one before it, the  *)
(* first one reverses the descriptor's address, and the last one says what *)
(* MAAP has now.                                                           *)
(***************************************************************************)
Before(o, q, i) == IF i = 1 THEN o.mac # NoAddress ELSE q[i - 1].valid

Alternate(o, q, m) ==
    /\ \A i \in 1 .. Len(q) : q[i].valid # Before(o, q, i)
    /\ (m # NoAddress) = Before(o, q, Len(q) + 1)

(***************************************************************************)
(* The descriptor's flags say what SRP and the media stack were told.      *)
(***************************************************************************)
FlagsTell(o) ==
    /\ o.declared = (o.srp # NoAddress)
    /\ o.connected = (o.media # NoAddress)

(***************************************************************************)
(* What was told agrees, unless a call was refused (r); l is the address   *)
(* declared last.                                                          *)
(***************************************************************************)
TellsSame(o, r) ==
    o.declared /\ ~r => o.srp = o.mac /\ (o.connected => o.media = o.srp)

(* Nothing is told of a stream that was not declared, but for a failure. *)
SendsDeclared(o) == o.connected => o.declared

(***************************************************************************)
(* While the withdrawal ages (g) the withdraw timer runs, and the          *)
(* parameters it is kept for are those declared last, or none.             *)
(***************************************************************************)
Waits(o, g, l, r) ==
    g /\ ~o.declared /\ ~r => o.withdrawing /\ o.withdrawn \in {l, NoAddress}

Declared(o, l) == o.srp # NoAddress => l = o.srp

(***************************************************************************)
(* The inductive invariant.  The exit clears the flags whether or not the  *)
(* calls succeeded, so the flags tell the truth only before it.            *)
(***************************************************************************)
Inv ==
    /\ TypeOK
    /\ Alternate(out, ind, maap)
    /\ Declared(out, last)
    /\ running => /\ FlagsTell(out)
                  /\ TellsSame(out, refused)
                  /\ Waits(out, aging, last, refused)
    /\ failures = 0 => ~refused /\ (running => SendsDeclared(out))
    /\ ~running /\ failures = 0 => out.srp = NoAddress /\ out.media = NoAddress
    /\ ~running /\ ~refused => out.srp = NoAddress

-----------------------------------------------------------------------------
(***************************************************************************)
(* The calls of acmp_milan_talker_update: what each changes and leaves.    *)
(***************************************************************************)
LEMMA WithdrawFacts ==
    ASSUME NEW o \in Outputs
    PROVE  /\ Withdraw(o) \in Outputs
           /\ Withdraw(o).mac = o.mac /\ Withdraw(o).probed = o.probed
           /\ Withdraw(o).listener = o.listener /\ Withdraw(o).connected = o.connected
           /\ Withdraw(o).media = o.media
           /\ MustWithdraw(o) =>
                /\ ~Withdraw(o).declared /\ Withdraw(o).srp = NoAddress
                /\ Withdraw(o).withdrawn = o.mac /\ Withdraw(o).withdrawing
           /\ ~MustWithdraw(o) => Withdraw(o) = o
  BY DEF Outputs, Withdraw, MustWithdraw

LEMMA DisconnectFacts ==
    ASSUME NEW o \in Outputs
    PROVE  /\ Disconnect(o) \in Outputs
           /\ Disconnect(o).mac = o.mac /\ Disconnect(o).probed = o.probed
           /\ Disconnect(o).listener = o.listener /\ Disconnect(o).declared = o.declared
           /\ Disconnect(o).srp = o.srp /\ Disconnect(o).withdrawing = o.withdrawing
           /\ Disconnect(o).withdrawn = o.withdrawn
           /\ MustDisconnect(o) =>
                ~Disconnect(o).connected /\ Disconnect(o).media = NoAddress
           /\ ~MustDisconnect(o) => Disconnect(o) = o
  BY DEF Outputs, Disconnect, MustDisconnect

LEMMA UndelayedFacts ==
    ASSUME NEW o \in Outputs
    PROVE  /\ Undelayed(o) \in Outputs
           /\ Undelayed(o).mac = o.mac /\ Undelayed(o).declared = o.declared
           /\ Undelayed(o).srp = o.srp /\ Undelayed(o).connected = o.connected
           /\ Undelayed(o).media = o.media
  BY DEF Outputs, Undelayed, MustDeclare

LEMMA DeclareFacts ==
    ASSUME NEW o \in Outputs
    PROVE  /\ Declare(o) \in Outputs
           /\ Declare(o).mac = o.mac /\ Declare(o).probed = o.probed
           /\ Declare(o).listener = o.listener /\ Declare(o).connected = o.connected
           /\ Declare(o).media = o.media
           /\ MustDeclare(o) =>
                /\ Declare(o).declared /\ Declare(o).srp = o.mac
                /\ o.mac # NoAddress /\ ~o.declared
                /\ o.withdrawing => o.withdrawn = o.mac
           /\ ~MustDeclare(o) => Declare(o) = o
  BY DEF Outputs, Declare, MustDeclare, Valid

LEMMA ConnectFacts ==
    ASSUME NEW o \in Outputs
    PROVE  /\ Connect(o) \in Outputs
           /\ Connect(o).mac = o.mac /\ Connect(o).declared = o.declared
           /\ Connect(o).srp = o.srp /\ Connect(o).withdrawing = o.withdrawing
           /\ Connect(o).withdrawn = o.withdrawn
           /\ MustConnect(o) =>
                /\ Connect(o).connected /\ Connect(o).media = o.mac
                /\ o.mac # NoAddress /\ o.declared
           /\ ~MustConnect(o) => Connect(o) = o
  BY DEF Outputs, Connect, MustConnect, Valid

-----------------------------------------------------------------------------
(***************************************************************************)
(* What every call keeps (Good), and what acmp_milan_talker_update is      *)
(* entered with (Entered): its caller may just have cleared the address.   *)
(***************************************************************************)
Good(o, g, l, r) ==
    /\ o \in Outputs /\ FlagsTell(o) /\ Declared(o, l)
    /\ TellsSame(o, r) /\ Waits(o, g, l, r)

Entered(o, g, l, r) ==
    /\ o \in Outputs /\ FlagsTell(o) /\ Declared(o, l) /\ Waits(o, g, l, r)
    /\ o.declared /\ ~r =>
         /\ o.mac \in {o.srp, NoAddress}
         /\ o.connected => o.media = o.srp

LEMMA WithdrawGood ==
    ASSUME NEW o, NEW g \in BOOLEAN, NEW l, NEW r \in BOOLEAN, Entered(o, g, l, r)
    PROVE  /\ \A h \in BOOLEAN : (h => g \/ MustWithdraw(o)) => Good(Withdraw(o), h, l, r)
           /\ Withdraw(o).srp = IF MustWithdraw(o) THEN NoAddress ELSE o.srp
           /\ MustWithdraw(o) => o.srp # NoAddress
           /\ Withdraw(o).declared => o.declared
  <1>1. o \in Outputs  BY DEF Entered
  <1>2. CASE MustWithdraw(o)
    BY <1>1, <1>2, WithdrawFacts
    DEF Good, Entered, FlagsTell, Declared, TellsSame, Waits, MustWithdraw, Outputs
  <1>3. CASE ~MustWithdraw(o)
    BY <1>1, <1>3, WithdrawFacts
    DEF Good, Entered, FlagsTell, Declared, TellsSame, Waits, MustWithdraw, Valid, Outputs
  <1> QED  BY <1>2, <1>3

LEMMA DisconnectGood ==
    ASSUME NEW o, NEW g \in BOOLEAN, NEW l, NEW r \in BOOLEAN, Good(o, g, l, r)
    PROVE  /\ Good(Disconnect(o), g, l, r)
           /\ Disconnect(o).srp = o.srp /\ Disconnect(o).declared = o.declared
           /\ SendsDeclared(Disconnect(o))
  <1>1. o \in Outputs  BY DEF Good
  <1> QED
    BY <1>1, DisconnectFacts
    DEF Good, FlagsTell, Declared, TellsSame, Waits, SendsDeclared, MustDisconnect, Outputs

LEMMA DeclareGood ==
    ASSUME NEW o, NEW g \in BOOLEAN, NEW l, NEW r \in BOOLEAN, Good(o, g, l, r),
           SendsDeclared(o)
    PROVE  /\ ~MustDeclare(o) => Declare(o) = o
           /\ MustDeclare(o) =>
                /\ ~o.declared /\ o.srp = NoAddress /\ Declare(o).declared
                /\ Declare(o).srp = o.mac /\ o.mac # NoAddress
                /\ g /\ ~r => o.mac = l
                /\ \A h, z \in BOOLEAN : Good(Declare(o), h, o.mac, z)
           /\ SendsDeclared(Declare(o))
  <1>1. o \in Outputs  BY DEF Good
  <1>2. CASE MustDeclare(o)
    BY <1>1, <1>2, DeclareFacts
    DEF Good, FlagsTell, Declared, TellsSame, Waits, SendsDeclared, Outputs
  <1>3. CASE ~MustDeclare(o)
    BY <1>1, <1>3, DeclareFacts
  <1> QED  BY <1>2, <1>3

LEMMA ConnectGood ==
    ASSUME NEW o, NEW g \in BOOLEAN, NEW l, NEW r \in BOOLEAN, Good(o, g, l, r),
           SendsDeclared(o)
    PROVE  /\ Good(Connect(o), g, l, r) /\ SendsDeclared(Connect(o))
           /\ Connect(o).srp = o.srp /\ Connect(o).declared = o.declared
  <1>1. o \in Outputs  BY DEF Good
  <1> QED
    BY <1>1, ConnectFacts
    DEF Good, FlagsTell, Declared, TellsSame, Waits, SendsDeclared, Outputs

(***************************************************************************)
(* The steps of the stream source, in the variables of the output.         *)
(***************************************************************************)
SourceStep ==
    \/ /\ out'.srp = out.srp /\ last' = last /\ aging' \in {aging, FALSE}
       /\ refused => refused'
    \/ /\ out.srp # NoAddress /\ out'.srp = NoAddress
       /\ aging' = TRUE /\ last' = out.srp
       /\ refused => refused'
    \/ /\ out.srp = NoAddress /\ out'.srp \in Addresses /\ last' = out'.srp
       /\ aging' => refused \/ (aging /\ last = out'.srp)

LEMMA UpdateGood ==
    ASSUME TypeOK, NEW o, NEW old \in BOOLEAN, old => aging,
           Entered(o, old, last, refused),
           o.srp = out.srp, o.declared = out.declared, Update(o, old)
    PROVE  /\ Good(out', aging', last', refused')
           /\ out'.mac = o.mac
           /\ aging' \in BOOLEAN /\ refused' \in BOOLEAN
           /\ last' \in Addresses \cup {NoAddress} /\ failures' \in 0 .. MaxFailures
           /\ failures' = 0 =>
                failures = 0 /\ SendsDeclared(out') /\ (~refused => ~refused')
           /\ SourceStep
  <1> USE TalkerAssumption
  <1> DEFINE w == Withdraw(o)
             d == Disconnect(w)
             e == Declare(d)
             c == Connect(e)
             g == old \/ MustWithdraw(o)
  <1>1. o \in Outputs  BY DEF Entered
  <1>2. /\ aging \in BOOLEAN /\ refused \in BOOLEAN /\ failures \in 0 .. MaxFailures
        /\ last \in Addresses \cup {NoAddress} /\ MaxFailures \in Nat
    BY DEF TypeOK
  <1>3. PICK fail \in {"none", "withdraw", "disconnect", "declare", "connect"} :
           /\ Fails(o, fail)
           /\ fail # "none" => failures < MaxFailures
           /\ failures' = IF fail = "none" THEN failures ELSE failures + 1
           /\ out' = Outcome(o, fail)
           /\ aging' = (old \/ (out.srp # NoAddress /\ out'.srp = NoAddress))
           /\ last' = IF out'.srp # NoAddress THEN out'.srp ELSE last
           /\ refused' = \/ fail \in {"withdraw", "declare"}
                         \/ refused /\ (out'.declared => out.declared)
    BY DEF Update
  <1>4. /\ failures' \in 0 .. MaxFailures
        /\ failures' = 0 => failures = 0 /\ fail = "none"
        /\ aging' \in BOOLEAN /\ refused' \in BOOLEAN
    BY <1>2, <1>3
  <1>5. MustWithdraw(o) \in BOOLEAN  BY <1>1 DEF MustWithdraw, Outputs
  <1>6. /\ Good(w, g, last, refused)
        /\ w.srp = IF MustWithdraw(o) THEN NoAddress ELSE o.srp
        /\ MustWithdraw(o) => o.srp # NoAddress
        /\ w.declared => o.declared
        /\ w.mac = o.mac
    BY <1>1, <1>2, <1>5, WithdrawGood, WithdrawFacts
  <1>7. /\ Good(d, g, last, refused) /\ SendsDeclared(d)
        /\ d.srp = w.srp /\ d.declared = w.declared /\ d.mac = o.mac
        /\ w \in Outputs /\ d \in Outputs
    <2>1. w \in Outputs  BY <1>6 DEF Good
    <2> HIDE DEF w, g
    <2>2. g \in BOOLEAN  BY <1>5 DEF g
    <2> QED  BY <1>2, <1>6, <2>1, <2>2, DisconnectGood, DisconnectFacts DEF Good
  <1>8. /\ ~MustDeclare(d) => e = d
        /\ MustDeclare(d) =>
              /\ ~d.declared /\ d.srp = NoAddress /\ e.declared
              /\ e.srp = o.mac /\ o.mac # NoAddress
              /\ g /\ ~refused => o.mac = last
              /\ \A h, z \in BOOLEAN : Good(e, h, o.mac, z)
        /\ SendsDeclared(e)
        /\ e.mac = o.mac /\ e \in Outputs
    <2> HIDE DEF d, g
    <2>2. g \in BOOLEAN  BY <1>5 DEF g
    <2>3. e.mac = o.mac /\ e \in Outputs  BY <1>7, DeclareFacts
    <2>4. d.mac = o.mac  BY <1>7
    <2>5. refused \in BOOLEAN /\ Good(d, g, last, refused) /\ SendsDeclared(d)
      BY <1>2, <1>7
    <2>6. /\ ~MustDeclare(d) => Declare(d) = d
          /\ MustDeclare(d) =>
                /\ ~d.declared /\ d.srp = NoAddress /\ Declare(d).declared
                /\ Declare(d).srp = d.mac /\ d.mac # NoAddress
                /\ g /\ ~refused => d.mac = last
                /\ \A h, z \in BOOLEAN : Good(Declare(d), h, d.mac, z)
          /\ SendsDeclared(Declare(d))
      BY <2>2, <2>5, DeclareGood
    <2> QED  BY <2>3, <2>4, <2>6
  <1>9. /\ Good(c, g, last, refused) \/ MustDeclare(d)
        /\ MustDeclare(d) => \A h, z \in BOOLEAN : Good(c, h, o.mac, z)
        /\ SendsDeclared(c) /\ c.srp = e.srp /\ c.declared = e.declared /\ c.mac = o.mac
        /\ Good(e, g, last, refused) \/ MustDeclare(d)
    <2> HIDE DEF e, d, g
    <2>1. c.mac = o.mac /\ c.srp = e.srp /\ c.declared = e.declared
      BY <1>8, ConnectFacts
    <2>2. g \in BOOLEAN  BY <1>5 DEF g
    <2>3. CASE ~MustDeclare(d)
      <3>1. Good(e, g, last, refused) /\ SendsDeclared(e)  BY <1>7, <1>8, <2>3
      <3>2. Good(c, g, last, refused) /\ SendsDeclared(c)
        BY <1>2, <2>2, <3>1, ConnectGood
      <3> QED  BY <2>1, <2>3, <3>1, <3>2
    <2>4. CASE MustDeclare(d)
      <3>1. ASSUME NEW h \in BOOLEAN, NEW z \in BOOLEAN
            PROVE  Good(c, h, o.mac, z) /\ SendsDeclared(c)
        <4>1. Good(e, h, o.mac, z) /\ SendsDeclared(e)  BY <1>8, <2>4
        <4> QED  BY <4>1, ConnectGood
      <3>2. TRUE \in BOOLEAN  OBVIOUS
      <3>3. SendsDeclared(c)  BY <3>1, <3>2
      <3> QED  BY <2>1, <2>4, <3>1, <3>3
    <2> QED  BY <2>3, <2>4
  <1>10. ASSUME Good(out', g, last, refused), out'.srp = w.srp, refused => refused'
         PROVE  /\ Good(out', aging', last', refused') /\ SourceStep
                /\ last' \in Addresses \cup {NoAddress}
    <2>1. out'.srp = IF MustWithdraw(o) THEN NoAddress ELSE out.srp
      BY <1>6, <1>10
    <2>2. MustWithdraw(o) => out.srp # NoAddress  BY <1>6
    <2>3. Declared(o, last)  BY DEF Entered
    <2>4. last' = last /\ (out.srp # NoAddress => last = out.srp)
      BY <1>3, <2>1, <2>3 DEF Declared
    <2>5. aging' = g  BY <1>3, <1>5, <2>1, <2>2
    <2>6. Good(out', aging', last', refused')
      BY <1>2, <1>4, <1>10, <2>4, <2>5 DEF Good, TellsSame, Waits
    <2>7. SourceStep
      <3>1. CASE MustWithdraw(o)
        BY <1>10, <2>1, <2>2, <2>4, <2>5, <3>1 DEF SourceStep
      <3>2. CASE ~MustWithdraw(o)
        BY <1>2, <1>10, <2>1, <2>4, <2>5, <3>2 DEF SourceStep
      <3> QED  BY <3>1, <3>2
    <2> QED  BY <1>2, <2>4, <2>6, <2>7
  <1>11. CASE fail = "withdraw"
    <2>1. out' = o /\ refused' = TRUE /\ aging' = old
      BY <1>3, <1>11 DEF Outcome
    <2>2. last' = last  BY <1>1, <1>3, <2>1 DEF Entered, Declared
    <2>3. Good(out', aging', last', refused')
      BY <2>1, <2>2 DEF Good, Entered, TellsSame, Waits
    <2> QED  BY <1>2, <1>4, <1>11, <2>1, <2>2, <2>3 DEF SourceStep
  <1>12. CASE fail = "disconnect"
    <2>1. out' = w  BY <1>3, <1>12 DEF Outcome
    <2>2. refused => refused'  BY <1>3, <1>6, <2>1
    <2> QED  BY <1>4, <1>6, <1>10, <1>12, <2>1, <2>2
  <1>13. CASE fail = "declare"
    <2>1. out' = Undelayed(d) /\ refused' = TRUE  BY <1>3, <1>13 DEF Outcome
    <2>2. /\ out' \in Outputs /\ out'.mac = o.mac /\ out'.srp = w.srp
          /\ out'.declared = d.declared /\ out'.connected = d.connected
          /\ out'.media = d.media /\ out'.srp = d.srp
      BY <1>7, <2>1, UndelayedFacts
    <2>3. out'.srp = IF MustWithdraw(o) THEN NoAddress ELSE out.srp  BY <1>6, <2>2
    <2>4. Declared(o, last) /\ (MustWithdraw(o) => out.srp # NoAddress)
      BY <1>6 DEF Entered
    <2>5. last' = last /\ (out.srp # NoAddress => last = out.srp)
      BY <1>3, <2>3, <2>4 DEF Declared
    <2>6. aging' = g  BY <1>3, <1>5, <2>3, <2>4
    <2>7. Good(out', aging', last', refused')
      BY <1>7, <2>1, <2>2, <2>5, <2>6 DEF Good, FlagsTell, Declared, TellsSame, Waits
    <2>8. SourceStep
      BY <1>2, <2>1, <2>3, <2>4, <2>5, <2>6 DEF SourceStep
    <2> QED  BY <1>2, <1>4, <1>13, <2>2, <2>5, <2>7, <2>8
  <1>14. CASE fail \in {"connect", "none"}
    <2>1. out' = IF fail = "none" THEN c ELSE e  BY <1>3, <1>14 DEF Outcome
    <2>2. /\ out'.mac = o.mac /\ SendsDeclared(out') /\ out'.srp = e.srp
          /\ out'.declared = e.declared
      BY <1>8, <1>9, <2>1
    <2>3. refused' = (refused /\ (out'.declared => out.declared))
      BY <1>2, <1>3, <1>14
    <2>4. CASE ~MustDeclare(d)
      <3>1. /\ Good(out', g, last, refused) /\ out'.srp = w.srp
            /\ out'.declared => o.declared
        BY <1>6, <1>7, <1>8, <1>9, <2>1, <2>2, <2>4
      <3>2. refused => refused'  BY <2>3, <3>1
      <3> QED  BY <1>4, <1>10, <2>2, <2>3, <3>1, <3>2
    <2>5. CASE MustDeclare(d)
      <3>1. /\ \A h, z \in BOOLEAN : Good(out', h, o.mac, z)
            /\ out'.srp = o.mac /\ o.mac # NoAddress /\ out'.declared
            /\ w.srp = NoAddress /\ ~w.declared
        BY <1>7, <1>8, <1>9, <2>1, <2>2, <2>5
      <3>2. ~MustWithdraw(o)
        <4>1. d.mac = o.mac /\ d.probed = o.probed /\ d.listener = o.listener
          BY <1>1, <1>7, WithdrawFacts, DisconnectFacts
        <4> QED  BY <2>5, <4>1 DEF MustWithdraw, MustDeclare, Valid
      <3>3. out.srp = NoAddress  BY <1>6, <3>1, <3>2
      <3>4. last' = o.mac /\ aging' = old /\ o.mac \in Addresses
        BY <1>1, <1>3, <3>1, <3>3 DEF Outputs
      <3>5. aging' => refused \/ (aging /\ last = o.mac)
        BY <1>8, <2>5, <3>4
      <3>6. SourceStep  BY <3>1, <3>3, <3>4, <3>5 DEF SourceStep
      <3>7. Good(out', aging', last', refused')  BY <1>4, <3>1, <3>4
      <3> QED  BY <1>4, <2>2, <2>3, <3>4, <3>6, <3>7
    <2> QED  BY <2>4, <2>5
  <1> QED  BY <1>3, <1>11, <1>12, <1>13, <1>14

-----------------------------------------------------------------------------
(***************************************************************************)
(* The actions.                                                            *)
(***************************************************************************)
LEMMA InitInv == Init => Inv
  <1> SUFFICES ASSUME Init PROVE Inv  OBVIOUS
  <1>1. out \in Outputs  BY DEF Init, NewOutput, Outputs, Listeners
  <1>2. TypeOK
    <2>1. ind \in Seq([valid : BOOLEAN, mac : Addresses])  BY DEF Init
    <2>2. failures \in 0 .. MaxFailures /\ conflicts \in 0 .. MaxConflicts
      BY TalkerAssumption DEF Init
    <2>3. {aging, running, refused} \subseteq BOOLEAN  BY DEF Init
    <2> QED  BY <1>1, <2>1, <2>2, <2>3 DEF Init, TypeOK
  <1>3. Alternate(out, ind, maap)
    <2>1. Len(ind) = 0 /\ out.mac = NoAddress /\ maap = NoAddress
      BY DEF Init, NewOutput
    <2> QED  BY <2>1 DEF Alternate, Before
  <1>4. /\ out.declared = FALSE /\ out.connected = FALSE /\ out.srp = NoAddress
        /\ out.media = NoAddress /\ aging = FALSE /\ refused = FALSE /\ running = TRUE
    BY DEF Init, NewOutput
  <1> QED
    BY <1>2, <1>3, <1>4 DEF Inv, Declared, FlagsTell, TellsSame, Waits, SendsDeclared

(* A call of acmp_milan_talker_update that leaves MAAP's indications sound. *)
LEMMA UpdateInv ==
    ASSUME Inv, running, NEW o, NEW old \in BOOLEAN, old => aging,
           Entered(o, old, last, refused),
           o.srp = out.srp, o.declared = out.declared, Update(o, old),
           UNCHANGED <<maap, running, conflicts>>,
           ind' \in Seq([valid : BOOLEAN, mac : Addresses]),
           out'.mac = o.mac => Alternate(out', ind', maap')
    PROVE  Inv' /\ SourceStep
  <1>1. TypeOK  BY DEF Inv
  <1>2. /\ Good(out', aging', last', refused')
        /\ out'.mac = o.mac
        /\ aging' \in BOOLEAN /\ refused' \in BOOLEAN
        /\ last' \in Addresses \cup {NoAddress} /\ failures' \in 0 .. MaxFailures
        /\ failures' = 0 =>
             failures = 0 /\ SendsDeclared(out') /\ (~refused => ~refused')
        /\ SourceStep
    BY <1>1, UpdateGood
  <1>3. TypeOK'  BY <1>1, <1>2 DEF TypeOK, Good
  <1>4. Alternate(out, ind, maap)'  BY <1>2 DEF Alternate, Before
  <1>5. (failures = 0 => ~refused /\ (running => SendsDeclared(out)))'
    BY <1>2 DEF Inv, SendsDeclared
  <1>6. /\ Declared(out, last)' /\ FlagsTell(out)' /\ TellsSame(out, refused)'
        /\ Waits(out, aging, last, refused)'
    BY <1>2 DEF Good, Declared, FlagsTell, TellsSame, Waits
  <1> QED  BY <1>2, <1>3, <1>4, <1>5, <1>6 DEF Inv

(* The descriptor with one field set by the caller. *)
Probed(o, b) == [o EXCEPT !.probed = b]
Notified(o, status) == [o EXCEPT !.listener = status]
Expired(o) == [o EXCEPT !.withdrawing = FALSE]
Addressed(o, a) == [o EXCEPT !.mac = a]

LEMMA FieldFacts ==
    ASSUME NEW o \in Outputs
    PROVE  /\ \A b \in BOOLEAN :
                /\ Probed(o, b) \in Outputs /\ Probed(o, b).mac = o.mac
                /\ Probed(o, b).srp = o.srp /\ Probed(o, b).media = o.media
                /\ Probed(o, b).declared = o.declared
                /\ Probed(o, b).connected = o.connected
                /\ Probed(o, b).withdrawing = o.withdrawing
                /\ Probed(o, b).withdrawn = o.withdrawn
           /\ \A status \in Listeners :
                /\ Notified(o, status) \in Outputs /\ Notified(o, status).mac = o.mac
                /\ Notified(o, status).srp = o.srp /\ Notified(o, status).media = o.media
                /\ Notified(o, status).declared = o.declared
                /\ Notified(o, status).connected = o.connected
                /\ Notified(o, status).withdrawing = o.withdrawing
                /\ Notified(o, status).withdrawn = o.withdrawn
           /\ Expired(o) \in Outputs /\ Expired(o).mac = o.mac
           /\ Expired(o).srp = o.srp /\ Expired(o).media = o.media
           /\ Expired(o).declared = o.declared /\ Expired(o).connected = o.connected
           /\ \A a \in Addresses \cup {NoAddress} :
                /\ Addressed(o, a) \in Outputs /\ Addressed(o, a).mac = a
                /\ Addressed(o, a).srp = o.srp /\ Addressed(o, a).media = o.media
                /\ Addressed(o, a).declared = o.declared
                /\ Addressed(o, a).connected = o.connected
                /\ Addressed(o, a).withdrawing = o.withdrawing
                /\ Addressed(o, a).withdrawn = o.withdrawn
  BY DEF Probed, Notified, Expired, Addressed, Outputs

(* Two descriptors that agree on all that the invariant reads. *)
Alike(o, x) ==
    /\ o.mac = x.mac /\ o.srp = x.srp /\ o.media = x.media
    /\ o.declared = x.declared /\ o.connected = x.connected
    /\ o.withdrawing = x.withdrawing /\ o.withdrawn = x.withdrawn

LEMMA AlikeEntered ==
    ASSUME Inv, running, NEW o \in Outputs, Alike(o, out)
    PROVE  Entered(o, aging, last, refused)
  BY DEF Inv, Alike, Entered, FlagsTell, Declared, TellsSame, Waits

LEMMA AlternateAlike ==
    ASSUME NEW o, NEW x, NEW q, NEW m, o.mac = x.mac, Alternate(o, q, m)
    PROVE  Alternate(x, q, m)
  BY DEF Alternate, Before

(* A step that leaves what was told as it is. *)
LEMMA SilentInv ==
    ASSUME Inv, out' \in Outputs, Alike(out', out),
           UNCHANGED <<aging, last, refused, running>>,
           failures' \in 0 .. MaxFailures, failures' = 0 => failures = 0,
           conflicts' \in 0 .. MaxConflicts,
           maap' \in Addresses \cup {NoAddress},
           ind' \in Seq([valid : BOOLEAN, mac : Addresses]),
           Alternate(out', ind', maap')
    PROVE  Inv' /\ SourceStep
  <1>1. TypeOK'  BY DEF TypeOK, Inv
  <1>2. SourceStep  BY DEF SourceStep, Alike
  <1>3. Alternate(out, ind, maap)'  BY DEF Alternate, Before
  <1>4. Declared(out, last)'  BY DEF Inv, Declared, Alike
  <1>5. running' => /\ FlagsTell(out)' /\ TellsSame(out, refused)'
                    /\ Waits(out, aging, last, refused)'
    BY DEF Inv, FlagsTell, TellsSame, Waits, Alike
  <1>6. failures' = 0 => ~refused' /\ (running' => SendsDeclared(out)')
    BY DEF Inv, SendsDeclared, Alike
  <1>7. /\ ~running' /\ failures' = 0 => out'.srp = NoAddress /\ out'.media = NoAddress
        /\ ~running' /\ ~refused' => out'.srp = NoAddress
    BY DEF Inv, Alike
  <1> QED  BY <1>1, <1>2, <1>3, <1>4, <1>5, <1>6, <1>7 DEF Inv

(* An update entered with a descriptor alike, the indications untouched. *)
LEMMA AlikeInv ==
    ASSUME Inv, running, NEW o \in Outputs, Alike(o, out), Update(o, aging),
           UNCHANGED <<maap, ind, running, conflicts>>
    PROVE  Inv' /\ SourceStep
  <1>1. Entered(o, aging, last, refused)  BY AlikeEntered
  <1>2. aging \in BOOLEAN /\ ind' \in Seq([valid : BOOLEAN, mac : Addresses])
    BY DEF Inv, TypeOK
  <1>3. out'.mac = o.mac => Alternate(out', ind', maap')
    BY DEF Inv, Alike, Alternate, Before
  <1>4. o.srp = out.srp /\ o.declared = out.declared  BY DEF Alike
  <1> QED  BY <1>1, <1>2, <1>3, <1>4, UpdateInv

LEMMA ProbeInv == Inv /\ Probe => Inv' /\ SourceStep
  <1> SUFFICES ASSUME Inv, Probe PROVE Inv' /\ SourceStep  OBVIOUS
  <1> DEFINE o == Probed(out, TRUE)
  <1>1. out \in Outputs  BY DEF Inv, TypeOK
  <1>2. o \in Outputs /\ Alike(o, out)  BY <1>1, FieldFacts DEF Alike
  <1>3. /\ running /\ UNCHANGED <<maap, ind, running, conflicts>>
        /\ \/ Update(o, aging)
           \/ out' = o /\ UNCHANGED <<aging, last, refused, failures>>
    BY DEF Probe, Probed
  <1> HIDE DEF o
  <1>4. CASE Update(o, aging)  BY <1>2, <1>3, <1>4, AlikeInv
  <1>5. CASE out' = o /\ UNCHANGED <<aging, last, refused, failures>>
    <2>1. Alternate(out', ind', maap')
      BY <1>2, <1>3, <1>5 DEF Inv, Alike, Alternate, Before
    <2> QED  BY <1>2, <1>3, <1>5, <2>1, SilentInv DEF Inv, TypeOK
  <1> QED  BY <1>3, <1>4, <1>5

LEMMA ProbeTimerInv == Inv /\ ProbeTimer => Inv' /\ SourceStep
  <1> SUFFICES ASSUME Inv, ProbeTimer PROVE Inv' /\ SourceStep  OBVIOUS
  <1> DEFINE o == Probed(out, FALSE)
  <1>1. out \in Outputs  BY DEF Inv, TypeOK
  <1>2. o \in Outputs /\ Alike(o, out)  BY <1>1, FieldFacts DEF Alike
  <1>3. running /\ UNCHANGED <<maap, ind, running, conflicts>> /\ Update(o, aging)
    BY DEF ProbeTimer, Probed
  <1> QED  BY <1>2, <1>3, AlikeInv

LEMMA ListenerStatusInv ==
    ASSUME NEW status \in Listeners, Inv, ListenerStatus(status)
    PROVE  Inv' /\ SourceStep
  <1> DEFINE o == Notified(out, status)
  <1>1. out \in Outputs  BY DEF Inv, TypeOK
  <1>2. o \in Outputs /\ Alike(o, out)  BY <1>1, FieldFacts DEF Alike
  <1>3. running /\ UNCHANGED <<maap, ind, running, conflicts>> /\ Update(o, aging)
    BY DEF ListenerStatus, Notified
  <1> QED  BY <1>2, <1>3, AlikeInv

LEMMA WithdrawTimerInv == Inv /\ WithdrawTimer => Inv' /\ SourceStep
  <1> SUFFICES ASSUME Inv, WithdrawTimer PROVE Inv' /\ SourceStep  OBVIOUS
  <1> DEFINE o == Expired(out)
  <1>1. out \in Outputs  BY DEF Inv, TypeOK
  <1>2. /\ o \in Outputs /\ o.mac = out.mac /\ o.srp = out.srp /\ o.media = out.media
        /\ o.declared = out.declared /\ o.connected = out.connected
    BY <1>1, FieldFacts
  <1>3. running /\ UNCHANGED <<maap, ind, running, conflicts>> /\ Update(o, FALSE)
    BY DEF WithdrawTimer, Expired
  <1> HIDE DEF o
  <1>4. Entered(o, FALSE, last, refused)
    BY <1>2, <1>3 DEF Inv, Entered, FlagsTell, Declared, TellsSame, Waits
  <1>5. out'.mac = o.mac => Alternate(out', ind', maap')
    BY <1>2, <1>3 DEF Inv, Alternate, Before
  <1>6. ind' \in Seq([valid : BOOLEAN, mac : Addresses])  BY <1>3 DEF Inv, TypeOK
  <1> QED  BY <1>2, <1>3, <1>4, <1>5, <1>6, UpdateInv

LEMMA MaapStartInv == Inv /\ MaapStart => Inv' /\ SourceStep
  <1> SUFFICES ASSUME Inv, MaapStart PROVE Inv' /\ SourceStep  OBVIOUS
  <1>1. out \in Outputs /\ failures \in 0 .. MaxFailures /\ MaxFailures \in Nat
    BY TalkerAssumption DEF Inv, TypeOK
  <1>2. out' \in Outputs /\ Alike(out', out)
    BY <1>1 DEF MaapStart, Alike, Outputs
  <1>3. /\ UNCHANGED <<maap, ind, aging, last, running, refused, conflicts>>
        /\ failures' \in 0 .. MaxFailures /\ (failures' = 0 => failures = 0)
    BY <1>1 DEF MaapStart
  <1>4. Alternate(out', ind', maap')
    BY <1>2, <1>3 DEF Inv, Alike, Alternate, Before
  <1> QED  BY <1>2, <1>3, <1>4, SilentInv DEF Inv, TypeOK

Indications == [valid : BOOLEAN, mac : Addresses]

(* MAAP reports a change of what it has. *)
LEMMA AppendAlternates ==
    ASSUME NEW o, NEW q \in Seq(Indications), NEW m, NEW n, NEW r \in Indications,
           Alternate(o, q, m), r.valid = (m = NoAddress), (n # NoAddress) = r.valid
    PROVE  Alternate(o, Append(q, r), n)
  <1> DEFINE p == Append(q, r)
  <1>1. /\ Len(q) \in Nat /\ Len(p) = Len(q) + 1 /\ p[Len(q) + 1] = r
        /\ \A i \in 1 .. Len(q) : p[i] = q[i]
    OBVIOUS
  <1> HIDE DEF p
  <1>2. ASSUME NEW i \in 1 .. Len(q) + 1
        PROVE  Before(o, p, i) = Before(o, q, i)
    BY <1>1 DEF Before
  <1>3. ASSUME NEW i \in 1 .. Len(p)
        PROVE  p[i].valid # Before(o, p, i)
    <2>1. CASE i \in 1 .. Len(q)  BY <1>1, <1>2, <2>1 DEF Alternate
    <2>2. CASE i = Len(q) + 1  BY <1>1, <1>2, <2>2 DEF Alternate
    <2> QED  BY <1>1, <2>1, <2>2
  <1>4. Before(o, p, Len(p) + 1) = r.valid  BY <1>1 DEF Before
  <1> QED  BY <1>3, <1>4 DEF Alternate, p

(* The descriptor takes the first indication. *)
LEMMA TailAlternates ==
    ASSUME NEW o, NEW x, NEW q \in Seq(Indications), q # <<>>, NEW m,
           Alternate(o, q, m), (x.mac # NoAddress) = Head(q).valid
    PROVE  Alternate(x, Tail(q), m) /\ Head(q).valid # (o.mac # NoAddress)
  <1> DEFINE p == Tail(q)
  <1>1. /\ Len(q) \in Nat /\ Len(q) > 0 /\ Len(p) = Len(q) - 1 /\ Head(q) = q[1]
        /\ \A i \in 1 .. Len(p) : p[i] = q[i + 1]
    OBVIOUS
  <1> HIDE DEF p
  <1>2. ASSUME NEW i \in 1 .. Len(p) + 1
        PROVE  Before(x, p, i) = Before(o, q, i + 1)
    <2>1. CASE i = 1  BY <1>1, <2>1 DEF Before
    <2>2. CASE i # 1
      <3>1. i - 1 \in 1 .. Len(p) /\ (i + 1) - 1 = (i - 1) + 1  BY <1>1, <2>2
      <3>2. p[i - 1] = q[(i + 1) - 1]  BY <1>1, <3>1
      <3> QED  BY <1>1, <2>2, <3>2 DEF Before
    <2> QED  BY <2>1, <2>2
  <1>3. ASSUME NEW i \in 1 .. Len(p)
        PROVE  p[i].valid # Before(x, p, i)
    <2>1. i + 1 \in 1 .. Len(q) /\ i \in 1 .. Len(p) + 1  BY <1>1
    <2> QED  BY <1>1, <1>2, <2>1 DEF Alternate
  <1>4. Before(x, p, Len(p) + 1) = Before(o, q, Len(q) + 1)
    BY <1>1, <1>2
  <1>5. q[1].valid # Before(o, q, 1)  BY <1>1 DEF Alternate
  <1> QED  BY <1>1, <1>3, <1>4, <1>5 DEF Alternate, Before, p

LEMMA AcquireInv ==
    ASSUME NEW a \in Addresses, Inv, Acquire(a)
    PROVE  Inv' /\ SourceStep
  <1> DEFINE r == [valid |-> TRUE, mac |-> a]
  <1>1. r \in Indications /\ r.valid = (maap = NoAddress) /\ (a # NoAddress) = r.valid
    BY TalkerAssumption DEF Acquire, Indications
  <1>2. ind' = Append(ind, r) /\ ind \in Seq(Indications)  BY DEF Acquire, Inv, TypeOK, Indications
  <1> HIDE DEF r
  <1>3. Alternate(out, ind', a) /\ ind' \in Seq(Indications)
    BY <1>1, <1>2, AppendAlternates DEF Inv
  <1>4. Alternate(out', ind', maap')  BY <1>3 DEF Acquire
  <1>5. out' \in Outputs /\ Alike(out', out)  BY DEF Acquire, Inv, TypeOK, Alike
  <1> QED  BY <1>3, <1>4, <1>5, SilentInv DEF Acquire, Inv, TypeOK, Indications

LEMMA LoseInv == Inv /\ Lose => Inv' /\ SourceStep
  <1> SUFFICES ASSUME Inv, Lose PROVE Inv' /\ SourceStep  OBVIOUS
  <1> DEFINE r == [valid |-> FALSE, mac |-> maap]
  <1>1. /\ r \in Indications /\ r.valid = (maap = NoAddress)
        /\ (NoAddress # NoAddress) = r.valid
    BY DEF Lose, Inv, TypeOK, Indications
  <1>2. ind' = Append(ind, r) /\ ind \in Seq(Indications)  BY DEF Lose, Inv, TypeOK, Indications
  <1> HIDE DEF r
  <1>3. Alternate(out, ind', NoAddress) /\ ind' \in Seq(Indications)
    BY <1>1, <1>2, AppendAlternates DEF Inv
  <1>4. Alternate(out', ind', maap')  BY <1>3 DEF Lose
  <1>5. out' \in Outputs /\ Alike(out', out)  BY DEF Lose, Inv, TypeOK, Alike
  <1>6. conflicts' \in 0 .. MaxConflicts  BY TalkerAssumption DEF Lose, Inv, TypeOK
  <1> QED  BY <1>3, <1>4, <1>5, <1>6, SilentInv DEF Lose, Inv, TypeOK, Indications

LEMMA MaapIndicationInv == Inv /\ MaapIndication => Inv' /\ SourceStep
  <1> SUFFICES ASSUME Inv, MaapIndication PROVE Inv' /\ SourceStep  OBVIOUS
  <1> DEFINE a == IF Head(ind).valid THEN Head(ind).mac ELSE NoAddress
             o == Addressed(out, a)
  <1>1. out \in Outputs /\ ind \in Seq(Indications) /\ ind # <<>> /\ aging \in BOOLEAN
    BY DEF MaapIndication, Inv, TypeOK, Indications
  <1>2. Head(ind) \in Indications  BY <1>1
  <1>3. a \in Addresses \cup {NoAddress} /\ (a # NoAddress) = Head(ind).valid
    BY <1>2, TalkerAssumption DEF Indications
  <1> HIDE DEF a
  <1>4. /\ o \in Outputs /\ o.mac = a /\ o.srp = out.srp /\ o.media = out.media
        /\ o.declared = out.declared /\ o.connected = out.connected
        /\ o.withdrawing = out.withdrawing /\ o.withdrawn = out.withdrawn
    BY <1>1, <1>3, FieldFacts
  <1>5. /\ running /\ UNCHANGED <<maap, running, conflicts>> /\ Update(o, aging)
        /\ ind' = Tail(ind)
    BY DEF MaapIndication, Addressed, a
  <1> HIDE DEF o
  <1>6. Alternate(o, Tail(ind), maap) /\ Head(ind).valid # (out.mac # NoAddress)
    BY <1>1, <1>3, <1>4, TailAlternates DEF Inv
  <1>7. Entered(o, aging, last, refused)
    <2>1. Head(ind).valid => out.mac = NoAddress  BY <1>2, <1>6 DEF Indications
    <2>2. FlagsTell(out) /\ TellsSame(out, refused) /\ Waits(out, aging, last, refused)
          /\ Declared(out, last)
      BY <1>5 DEF Inv
    <2>3. o.declared /\ ~refused => o.mac \in {o.srp, NoAddress}
      BY <1>3, <1>4, <2>1, <2>2 DEF FlagsTell, TellsSame
    <2> QED
      BY <1>4, <2>2, <2>3 DEF Entered, FlagsTell, TellsSame, Waits, Declared
  <1>8. out'.mac = o.mac => Alternate(out', ind', maap')
    BY <1>5, <1>6 DEF Alternate, Before
  <1>9. ind' \in Seq([valid : BOOLEAN, mac : Addresses])
    BY <1>1, <1>5 DEF Indications
  <1> QED  BY <1>1, <1>4, <1>5, <1>7, <1>8, <1>9, UpdateInv

LEMMA AgedInv == Inv /\ Aged => Inv' /\ SourceStep
  <1> SUFFICES ASSUME Inv, Aged PROVE Inv' /\ SourceStep  OBVIOUS
  <1>1. UNCHANGED <<out, maap, ind, last, running, refused, failures, conflicts>>
        /\ aging' = FALSE
    BY DEF Aged
  <1>2. TypeOK'  BY <1>1 DEF Inv, TypeOK
  <1>3. SourceStep  BY <1>1 DEF SourceStep
  <1>4. Alternate(out, ind, maap)'  BY <1>1 DEF Inv, Alternate, Before
  <1>5. /\ Declared(out, last)'
        /\ running' => /\ FlagsTell(out)' /\ TellsSame(out, refused)'
                       /\ Waits(out, aging, last, refused)'
        /\ failures' = 0 => ~refused' /\ (running' => SendsDeclared(out)')
        /\ ~running' /\ failures' = 0 => out'.srp = NoAddress /\ out'.media = NoAddress
        /\ ~running' /\ ~refused' => out'.srp = NoAddress
    BY <1>1 DEF Inv, Declared, FlagsTell, TellsSame, Waits, SendsDeclared
  <1> QED  BY <1>2, <1>3, <1>4, <1>5 DEF Inv

(* The descriptor acmp_milan_exit leaves: the calls that failed leave SRP s, *)
(* the media stack m, and MAAP running (a).                                  *)
Exited(o, s, m, a) ==
    [o EXCEPT !.declared = FALSE, !.connected = FALSE, !.probed = FALSE,
              !.withdrawing = FALSE, !.maap = a, !.srp = s, !.media = m]

LEMMA ExitedFacts ==
    ASSUME NEW o \in Outputs, NEW s \in Addresses \cup {NoAddress},
           NEW m \in Addresses \cup {NoAddress}, NEW a \in BOOLEAN
    PROVE  /\ Exited(o, s, m, a) \in Outputs /\ Exited(o, s, m, a).mac = o.mac
           /\ Exited(o, s, m, a).srp = s /\ Exited(o, s, m, a).media = m
  BY DEF Exited, Outputs

LEMMA ExitInv == Inv /\ Exit => Inv' /\ SourceStep
  <1> SUFFICES ASSUME Inv, Exit PROVE Inv' /\ SourceStep  OBVIOUS
  <1>1. PICK sf \in BOOLEAN, mf \in BOOLEAN, af \in BOOLEAN :
           /\ sf \/ mf \/ af => failures < MaxFailures
           /\ failures' = IF sf \/ mf \/ af THEN failures + 1 ELSE failures
           /\ out' = Exited(out, IF sf THEN out.srp ELSE NoAddress,
                            IF mf THEN out.media ELSE NoAddress, af)
           /\ refused' = (refused \/ sf \/ mf)
           /\ aging' = (aging \/ (out.srp # NoAddress /\ ~sf))
    BY DEF Exit, Exited
  <1>2. running' = FALSE /\ UNCHANGED <<maap, ind, last, conflicts>>  BY DEF Exit
  <1>3. /\ out \in Outputs /\ failures \in 0 .. MaxFailures /\ MaxFailures \in Nat
        /\ aging \in BOOLEAN /\ refused \in BOOLEAN
    BY TalkerAssumption DEF Inv, TypeOK
  <1>4. /\ out' \in Outputs /\ out'.mac = out.mac
        /\ out'.srp = IF sf THEN out.srp ELSE NoAddress
        /\ out'.media = IF mf THEN out.media ELSE NoAddress
    <2> DEFINE s == IF sf THEN out.srp ELSE NoAddress
               m == IF mf THEN out.media ELSE NoAddress
    <2>1. s \in Addresses \cup {NoAddress} /\ m \in Addresses \cup {NoAddress}
      BY <1>3 DEF Outputs
    <2>2. out' = Exited(out, s, m, af)  BY <1>1
    <2> HIDE DEF s, m
    <2>3. out' \in Outputs /\ out'.mac = out.mac /\ out'.srp = s /\ out'.media = m
      <3>1. /\ Exited(out, s, m, af) \in Outputs
            /\ Exited(out, s, m, af).mac = out.mac
            /\ Exited(out, s, m, af).srp = s /\ Exited(out, s, m, af).media = m
        BY <1>3, <2>1, ExitedFacts
      <3> QED  BY <2>2, <3>1
    <2> QED  BY <2>3 DEF s, m
  <1>5. /\ failures' \in 0 .. MaxFailures
        /\ failures' = 0 => failures = 0 /\ ~sf /\ ~mf
    BY <1>1, <1>3
  <1>6. aging' \in BOOLEAN /\ refused' \in BOOLEAN  BY <1>1, <1>3
  <1>7. TypeOK'  BY <1>2, <1>4, <1>5, <1>6 DEF Inv, TypeOK
  <1>8. Alternate(out, ind, maap)'  BY <1>2, <1>4 DEF Inv, Alternate, Before
  <1>9. Declared(out, last)'  BY <1>2, <1>4 DEF Inv, Declared
  <1>10. SourceStep
    <2>1. out.srp # NoAddress => last = out.srp  BY DEF Inv, Declared
    <2>2. refused => refused'  BY <1>1
    <2>3. CASE out.srp # NoAddress /\ ~sf
      BY <1>1, <1>2, <1>4, <2>1, <2>2, <2>3 DEF SourceStep
    <2>4. CASE ~(out.srp # NoAddress /\ ~sf)
      <3>1. out'.srp = out.srp  BY <1>4, <2>4
      <3>2. aging' = aging  BY <1>1, <1>3, <2>4
      <3> QED  BY <1>2, <2>2, <3>1, <3>2 DEF SourceStep
    <2> QED  BY <2>3, <2>4
  <1>11. /\ failures' = 0 => ~refused'
         /\ failures' = 0 => out'.srp = NoAddress /\ out'.media = NoAddress
         /\ ~refused' => out'.srp = NoAddress
    BY <1>1, <1>3, <1>4, <1>5 DEF Inv
  <1> QED  BY <1>2, <1>7, <1>8, <1>9, <1>10, <1>11 DEF Inv

LEMMA StepInv == Inv /\ [Next]_vars => Inv' /\ (SourceStep \/ UNCHANGED vars)
  <1> SUFFICES ASSUME Inv, [Next]_vars
               PROVE  Inv' /\ (SourceStep \/ UNCHANGED vars)
    OBVIOUS
  <1>1. CASE UNCHANGED vars
    <2>1. UNCHANGED <<out, maap, ind, aging, last, running, refused, failures, conflicts>>
      BY <1>1 DEF vars
    <2>2. TypeOK'  BY <2>1 DEF Inv, TypeOK
    <2>3. Alternate(out, ind, maap)'  BY <2>1 DEF Inv, Alternate, Before
    <2>4. /\ Declared(out, last)'
          /\ running' => /\ FlagsTell(out)' /\ TellsSame(out, refused)'
                         /\ Waits(out, aging, last, refused)'
          /\ failures' = 0 => ~refused' /\ (running' => SendsDeclared(out)')
          /\ ~running' /\ failures' = 0 => out'.srp = NoAddress /\ out'.media = NoAddress
          /\ ~running' /\ ~refused' => out'.srp = NoAddress
      BY <2>1 DEF Inv, Declared, FlagsTell, TellsSame, Waits, SendsDeclared
    <2> QED  BY <1>1, <2>2, <2>3, <2>4 DEF Inv
  <1> QED
    BY <1>1, ProbeInv, ProbeTimerInv, WithdrawTimerInv, AgedInv, ListenerStatusInv,
       MaapStartInv, AcquireInv, LoseInv, MaapIndicationInv, ExitInv
    DEF Next

-----------------------------------------------------------------------------
LEMMA Invariance == Spec => []Inv
  BY InitInv, StepInv, PTL DEF Spec

(***************************************************************************)
(* The variables of a stream output always have their types.               *)
(***************************************************************************)
THEOREM TalkerTypeOK == Spec => []TypeOK
  <1>1. Inv => TypeOK  BY DEF Inv
  <1> QED  BY <1>1, Invariance, PTL

(***************************************************************************)
(* What the media stack sends is what SRP reserved, for every number of    *)
(* failed calls and of address conflicts.                                  *)
(***************************************************************************)
THEOREM TalkerStreamReserved == Spec => []StreamReserved
  <1>1. Inv => StreamReserved
    <2> SUFFICES ASSUME Inv PROVE StreamReserved  OBVIOUS
    <2>1. CASE running
      BY <2>1 DEF Inv, StreamReserved, FlagsTell, TellsSame, SendsDeclared
    <2>2. CASE ~running
      BY <2>2 DEF Inv, StreamReserved
    <2> QED  BY <2>1, <2>2
  <1> QED  BY <1>1, Invariance, PTL

(***************************************************************************)
(* A stream output implements the stream source: every step reserves,      *)
(* releases or keeps, and what is sent matches.                            *)
(***************************************************************************)
LEMMA SourceInit == Init => Source!Init
  BY DEF Init, NewOutput, Source!Init

LEMMA SourceNext ==
    ASSUME Inv', SourceStep
    PROVE  Source!Next
  <1>1. Source!Matches
    <2>1. CASE running'
      BY <2>1 DEF Inv, FlagsTell, TellsSame, Source!Matches
    <2>2. CASE ~running'
      BY <2>2 DEF Inv, Source!Matches
    <2> QED  BY <2>1, <2>2
  <1>2. ASSUME out'.srp = out.srp, last' = last, aging' \in {aging, FALSE},
               refused => refused'
        PROVE  Source!Keep
    <2>1. CASE aging' = aging  BY <1>1, <1>2, <2>1 DEF Source!Keep
    <2>2. CASE aging' = FALSE  BY <1>1, <1>2, <2>2 DEF Source!Keep
    <2> QED  BY <1>2, <2>1, <2>2
  <1>3. ASSUME out.srp # NoAddress, out'.srp = NoAddress, aging' = TRUE,
               last' = out.srp, refused => refused'
        PROVE  Source!Release
    BY <1>1, <1>3 DEF Source!Release
  <1>4. ASSUME out.srp = NoAddress, out'.srp \in Addresses, last' = out'.srp,
               aging' => refused \/ (aging /\ last = out'.srp)
        PROVE  Source!Reserve
    <2>1. CASE aging'  BY <1>1, <1>4, <2>1 DEF Source!Reserve
    <2>2. CASE ~aging'  BY <1>1, <1>4, <2>2 DEF Source!Reserve
    <2> QED  BY <2>1, <2>2
  <1> QED  BY <1>2, <1>3, <1>4 DEF SourceStep, Source!Next

THEOREM TalkerImplementsSource == Spec => ImplementsSource
  <1>1. Inv /\ Inv' /\ [Next]_vars => [Source!Next]_(Source!vars)
    <2> SUFFICES ASSUME Inv, Inv', [Next]_vars PROVE [Source!Next]_(Source!vars)
      OBVIOUS
    <2>1. CASE SourceStep  BY <2>1, SourceNext
    <2>2. CASE UNCHANGED vars  BY <2>2 DEF vars, Source!vars
    <2> QED  BY <2>1, <2>2, StepInv
  <1> QED
    BY <1>1, SourceInit, Invariance, PTL DEF Spec, ImplementsSource, Source!Spec
=============================================================================
