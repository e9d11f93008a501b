----------------------------- MODULE Ctrl_proofs -----------------------------
(***************************************************************************)
(* The safety properties of Ctrl for all arguments, sensor readings and    *)
(* numbers of commands.                                                    *)
(*                                                                         *)
(* What the threads still have to store decides whether a property can be  *)
(* broken later, so the inductive invariant speaks about the pending       *)
(* stores: in every todo list a store of CONST_TORQUE to az_state is       *)
(* followed by a store to motor_az (AzOrdered), and no list stores         *)
(* CONST_SPEED (NoSpeed).  Good lists stay good when their head is         *)
(* executed, and all setters are good.                                     *)
(***************************************************************************)
EXTENDS Ctrl, ControlLaw_proofs, SequenceTheorems

AzOrdered(s) ==
    \A i \in 1 .. Len(s) :
        s[i].dst = "az_state" /\ s[i].val = MOTOR_STATE_CONST_TORQUE =>
            \E j \in 1 .. Len(s) : i < j /\ s[j].dst = "motor_az"

NoSpeed(s) ==
    \A i \in 1 .. Len(s) : s[i].dst = "az_state" => s[i].val # MOTOR_STATE_CONST_SPEED

Good(s) == s \in Seq(Store) /\ AzOrdered(s) /\ NoSpeed(s)

Stores(s, cell) == \E i \in 1 .. Len(s) : s[i].dst = cell

-----------------------------------------------------------------------------
(* Facts about lists of stores.                                            *)

\* What remains of a list after its head.
LEMMA TailFacts ==
    ASSUME NEW s \in Seq(Store), s # <<>>
    PROVE  /\ Len(s) \in Nat /\ Len(s) >= 1
           /\ Head(s) = s[1] /\ Head(s) \in Store
           /\ Tail(s) \in Seq(Store)
           /\ Len(Tail(s)) = Len(s) - 1
           /\ \A i \in 1 .. Len(Tail(s)) : Tail(s)[i] = s[i + 1]
  BY HeadTailProperties, EmptySeq

\* Executing the head of a good list leaves a good list, in which the store
\* of the azimuth torque is pending if the head switched to CONST_TORQUE.
LEMMA GoodTail ==
    ASSUME NEW s, Good(s), s # <<>>
    PROVE  /\ Good(Tail(s))
           /\ Head(s).dst = "az_state" => Head(s).val # MOTOR_STATE_CONST_SPEED
           /\ Head(s).dst = "az_state" /\ Head(s).val = MOTOR_STATE_CONST_TORQUE
                  => Stores(Tail(s), "motor_az")
  <1>1. /\ Len(s) \in Nat /\ Len(s) >= 1
        /\ Head(s) = s[1] /\ Head(s) \in Store
        /\ Tail(s) \in Seq(Store)
        /\ Len(Tail(s)) = Len(s) - 1
        /\ \A i \in 1 .. Len(Tail(s)) : Tail(s)[i] = s[i + 1]
    BY TailFacts DEF Good
  <1>2. AzOrdered(Tail(s))
    <2> SUFFICES ASSUME NEW i \in 1 .. Len(Tail(s)),
                        Tail(s)[i].dst = "az_state",
                        Tail(s)[i].val = MOTOR_STATE_CONST_TORQUE
                 PROVE  \E j \in 1 .. Len(Tail(s)) : i < j /\ Tail(s)[j].dst = "motor_az"
      BY DEF AzOrdered
    <2>1. i + 1 \in 1 .. Len(s) /\ Tail(s)[i] = s[i + 1]
      BY <1>1
    <2>2. PICK k \in 1 .. Len(s) : i + 1 < k /\ s[k].dst = "motor_az"
      BY <2>1 DEF Good, AzOrdered
    <2>3. k - 1 \in 1 .. Len(Tail(s)) /\ i < k - 1 /\ Tail(s)[k - 1] = s[k]
      BY <1>1, <2>2
    <2> QED BY <2>2, <2>3
  <1>3. NoSpeed(Tail(s))
    BY <1>1 DEF Good, NoSpeed
  <1>4. Head(s).dst = "az_state" => Head(s).val # MOTOR_STATE_CONST_SPEED
    BY <1>1 DEF Good, NoSpeed
  <1>5. ASSUME Head(s).dst = "az_state", Head(s).val = MOTOR_STATE_CONST_TORQUE
        PROVE  Stores(Tail(s), "motor_az")
    <2>1. PICK k \in 1 .. Len(s) : 1 < k /\ s[k].dst = "motor_az"
      BY <1>1, <1>5 DEF Good, AzOrdered
    <2>2. k - 1 \in 1 .. Len(Tail(s)) /\ Tail(s)[k - 1] = s[k]
      BY <1>1, <2>1
    <2> QED BY <2>1, <2>2 DEF Stores
  <1> QED BY <1>1, <1>2, <1>3, <1>4, <1>5 DEF Good

\* A store other than the head is still pending after the head.
LEMMA StoresTail ==
    ASSUME NEW s \in Seq(Store), s # <<>>, NEW cell, Head(s).dst # cell
    PROVE  Stores(Tail(s), cell) <=> Stores(s, cell)
  <1>1. /\ Len(s) \in Nat /\ Len(s) >= 1
        /\ Head(s) = s[1]
        /\ Len(Tail(s)) = Len(s) - 1
        /\ \A i \in 1 .. Len(Tail(s)) : Tail(s)[i] = s[i + 1]
    BY TailFacts
  <1>2. ASSUME Stores(s, cell) PROVE Stores(Tail(s), cell)
    <2>1. PICK i \in 1 .. Len(s) : s[i].dst = cell
      BY <1>2 DEF Stores
    <2>2. i - 1 \in 1 .. Len(Tail(s)) /\ Tail(s)[i - 1] = s[i]
      BY <1>1, <2>1
    <2> QED BY <2>1, <2>2 DEF Stores
  <1>3. ASSUME Stores(Tail(s), cell) PROVE Stores(s, cell)
    <2>1. PICK i \in 1 .. Len(Tail(s)) : Tail(s)[i].dst = cell
      BY <1>3 DEF Stores
    <2>2. i + 1 \in 1 .. Len(s) /\ Tail(s)[i] = s[i + 1]
      BY <1>1
    <2> QED BY <2>1, <2>2 DEF Stores
  <1> QED BY <1>2, <1>3

\* Two good lists in a row are a good list.
LEMMA GoodConcat ==
    ASSUME NEW s, NEW u, Good(s), Good(u)
    PROVE  Good(s \o u)
  <1>1. /\ s \o u \in Seq(Store)
        /\ Len(s) \in Nat /\ Len(u) \in Nat
        /\ Len(s \o u) = Len(s) + Len(u)
        /\ \A i \in 1 .. Len(s) : (s \o u)[i] = s[i]
        /\ \A i \in 1 .. Len(u) : (s \o u)[Len(s) + i] = u[i]
    BY ConcatProperties, LenProperties DEF Good
  <1>2. ASSUME NEW i \in 1 .. Len(s \o u)
        PROVE  \/ i \in 1 .. Len(s) /\ (s \o u)[i] = s[i]
               \/ i - Len(s) \in 1 .. Len(u) /\ (s \o u)[i] = u[i - Len(s)]
    <2>1. CASE i <= Len(s)
      BY <1>1, <2>1
    <2>2. CASE i > Len(s)
      <3>1. i - Len(s) \in 1 .. Len(u) /\ Len(s) + (i - Len(s)) = i
        BY <1>1, <2>2
      <3> QED BY <1>1, <3>1
    <2> QED BY <1>1, <2>1, <2>2
  <1>3. AzOrdered(s \o u)
    <2> SUFFICES ASSUME NEW i \in 1 .. Len(s \o u),
                        (s \o u)[i].dst = "az_state",
                        (s \o u)[i].val = MOTOR_STATE_CONST_TORQUE
                 PROVE  \E j \in 1 .. Len(s \o u) : i < j /\ (s \o u)[j].dst = "motor_az"
      BY DEF AzOrdered
    <2>1. CASE i \in 1 .. Len(s) /\ (s \o u)[i] = s[i]
      <3>1. PICK j \in 1 .. Len(s) : i < j /\ s[j].dst = "motor_az"
        BY <2>1 DEF Good, AzOrdered
      <3> QED BY <1>1, <3>1
    <2>2. CASE i - Len(s) \in 1 .. Len(u) /\ (s \o u)[i] = u[i - Len(s)]
      <3>1. PICK j \in 1 .. Len(u) : i - Len(s) < j /\ u[j].dst = "motor_az"
        BY <2>2 DEF Good, AzOrdered
      <3>2. Len(s) + j \in 1 .. Len(s \o u) /\ i < Len(s) + j
        BY <1>1, <3>1
      <3> QED BY <1>1, <3>1, <3>2
    <2> QED BY <1>2, <2>1, <2>2
  <1>4. NoSpeed(s \o u)
    BY <1>2 DEF Good, NoSpeed
  <1> QED BY <1>1, <1>3, <1>4 DEF Good

-----------------------------------------------------------------------------
(* The setters of ctrl.c are good lists, and each command of a network     *)
(* thread begins one.                                                      *)

Kinds == {"manual", "target", "calibrate", "stop", "other"}

\* A list of one, two or three stores is a list of stores.
LEMMA ShortLists ==
    ASSUME NEW a \in Store, NEW b \in Store, NEW c \in Store
    PROVE  <<a>> \in Seq(Store) /\ <<a, b>> \in Seq(Store) /\ <<a, b, c>> \in Seq(Store)
  OBVIOUS

\* Stores of values of the right type, and the two copies that api.c makes.
LEMMA StoreFacts ==
    /\ \A c \in Cells : \A v \in Int : v \in CellType(c) => Set(c, v) \in Store
    /\ Copy("az_tgt_pos", "az_enc_pos") \in Store
    /\ Copy("el_tgt_pos", "imu_el_pos") \in Store
  BY DEF Set, Copy, Store, Cells, Motors, States

\* The cells' types, one by one.
LEMMA CellTypes ==
    /\ \A m \in Motors : m \in Cells /\ CellType(m) = Int8
    /\ \A m \in States : m \in Cells /\ CellType(m) = {0, 1, 2}
    /\ "az_flag_calibrate" \in Cells /\ CellType("az_flag_calibrate") = {0, 1}
    /\ "az_tgt_pos" \in Cells /\ CellType("az_tgt_pos") = UInt16
    /\ "enc_az_off" \in Cells /\ CellType("enc_az_off") = UInt16
    /\ "az_tgt_spd" \in Cells /\ CellType("az_tgt_spd") = Int16
    /\ "el_tgt_spd" \in Cells /\ CellType("el_tgt_spd") = Int16
    /\ "el_tgt_pos" \in Cells /\ CellType("el_tgt_pos") = Int16
    /\ "sk_tgt_pos" \in Cells /\ CellType("sk_tgt_pos") = Int16
    /\ "imu_el_off" \in Cells /\ CellType("imu_el_off") = Int16
  BY DEF CellType, Cells, Motors, States, MotorState, MOTOR_STATE_CONST_TORQUE,
         MOTOR_STATE_CONST_SPEED, MOTOR_STATE_TARGET_POSITION

\* az_set_const_trq switches the state before it stores the torque.
LEMMA AzConstTrqGood ==
    ASSUME NEW torque \in Int8
    PROVE  Good(az_set_const_trq(torque))
  <1> DEFINE s == az_set_const_trq(torque)
  <1>1. /\ Set("az_flag_calibrate", 0) \in Store
        /\ Set("az_state", 0) \in Store
        /\ Set("motor_az", torque) \in Store
    BY StoreFacts, CellTypes, NarrowTypes DEF Motors, States
  <1>2. s \in Seq(Store) /\ Len(s) = 3
    BY <1>1, ShortLists DEF az_set_const_trq, MOTOR_STATE_CONST_TORQUE
  <1>3. /\ s[1].dst = "az_flag_calibrate"
        /\ s[2].dst = "az_state" /\ s[2].val = MOTOR_STATE_CONST_TORQUE
        /\ s[3].dst = "motor_az"
    BY DEF az_set_const_trq, Set
  <1> HIDE DEF s
  <1>4. AzOrdered(s)
    BY <1>2, <1>3 DEF AzOrdered
  <1>5. NoSpeed(s)
    BY <1>2, <1>3 DEF NoSpeed, MOTOR_STATE_CONST_TORQUE, MOTOR_STATE_CONST_SPEED
  <1> QED BY <1>2, <1>4, <1>5 DEF Good, s

\* A list that never stores to az_state is good.
LEMMA OtherListsGood ==
    ASSUME NEW s \in Seq(Store), ~Stores(s, "az_state")
    PROVE  Good(s)
  BY DEF Good, Stores, AzOrdered, NoSpeed

\* The setters that do not touch the azimuth state are good.
LEMMA OtherSettersGood ==
    /\ \A v \in Int8 : Good(el_set_const_trq(v)) /\ Good(sk_set_const_trq(v))
    /\ \A v \in Int16 : Good(sk_set_tgt_pos(v)) /\ Good(<<Set("imu_el_off", v)>>)
    /\ \A v \in Int16 : Good(el_set_tgt_pos(Set("el_tgt_pos", v)))
    /\ Good(el_set_tgt_pos(Copy("el_tgt_pos", "imu_el_pos")))
    /\ \A v \in UInt16 : Good(<<Set("enc_az_off", v)>>)
    /\ Good(az_calibrate)
  <1>1. ASSUME NEW a \in Store, a.dst # "az_state"
        PROVE  Good(<<a>>)
    <2>1. <<a>> \in Seq(Store) /\ Len(<<a>>) = 1 /\ <<a>>[1] = a
      OBVIOUS
    <2>2. ~Stores(<<a>>, "az_state")
      BY <1>1, <2>1 DEF Stores
    <2> QED BY <2>1, <2>2, OtherListsGood
  <1>2. ASSUME NEW a \in Store, NEW b \in Store, a.dst # "az_state", b.dst # "az_state"
        PROVE  Good(<<a, b>>)
    <2>1. /\ <<a, b>> \in Seq(Store) /\ Len(<<a, b>>) = 2
          /\ <<a, b>>[1] = a /\ <<a, b>>[2] = b
      OBVIOUS
    <2>2. ~Stores(<<a, b>>, "az_state")
      BY <1>2, <2>1 DEF Stores
    <2> QED BY <2>1, <2>2, OtherListsGood
  <1>3. /\ Set("el_state", 0) \in Store /\ Set("el_state", 2) \in Store
        /\ Set("sk_state", 0) \in Store /\ Set("sk_state", 2) \in Store
        /\ Set("az_flag_calibrate", 1) \in Store
    BY StoreFacts, CellTypes DEF States
  <1>4. \A c, v : Set(c, v).dst = c /\ Copy(c, v).dst = c
    BY DEF Set, Copy
  <1>5. ASSUME NEW v \in Int8
        PROVE  Good(el_set_const_trq(v)) /\ Good(sk_set_const_trq(v))
    <2>1. Set("motor_el", v) \in Store /\ Set("motor_sk", v) \in Store
      BY StoreFacts, CellTypes, NarrowTypes DEF Motors
    <2>2. Good(<<Set("motor_el", v), Set("el_state", 0)>>)
      BY <1>2, <1>3, <1>4, <2>1
    <2>3. Good(<<Set("motor_sk", v), Set("sk_state", 0)>>)
      BY <1>2, <1>3, <1>4, <2>1
    <2> QED BY <2>2, <2>3 DEF el_set_const_trq, sk_set_const_trq, MOTOR_STATE_CONST_TORQUE
  <1>6. ASSUME NEW v \in Int16
        PROVE  /\ Good(sk_set_tgt_pos(v)) /\ Good(<<Set("imu_el_off", v)>>)
               /\ Good(el_set_tgt_pos(Set("el_tgt_pos", v)))
    <2>1. /\ Set("sk_tgt_pos", v) \in Store /\ Set("el_tgt_pos", v) \in Store
          /\ Set("imu_el_off", v) \in Store
      BY StoreFacts, CellTypes, NarrowTypes
    <2>2. Good(<<Set("sk_tgt_pos", v), Set("sk_state", 2)>>)
      BY <1>2, <1>3, <1>4, <2>1
    <2>3. Good(<<Set("el_tgt_pos", v), Set("el_state", 2)>>)
      BY <1>2, <1>3, <1>4, <2>1
    <2>4. Good(<<Set("imu_el_off", v)>>)
      BY <1>1, <1>4, <2>1
    <2> QED BY <2>2, <2>3, <2>4
            DEF sk_set_tgt_pos, el_set_tgt_pos, MOTOR_STATE_TARGET_POSITION
  <1>7. Good(<<Copy("el_tgt_pos", "imu_el_pos"), Set("el_state", 2)>>)
    BY <1>2, <1>3, <1>4, StoreFacts
  <1>8. ASSUME NEW v \in UInt16 PROVE Good(<<Set("enc_az_off", v)>>)
    <2>1. Set("enc_az_off", v) \in Store
      BY StoreFacts, CellTypes, NarrowTypes
    <2> QED BY <1>1, <1>4, <2>1
  <1>9. Good(az_calibrate)
    BY <1>1, <1>3, <1>4 DEF az_calibrate
  <1>10. Good(el_set_tgt_pos(Copy("el_tgt_pos", "imu_el_pos")))
    BY <1>7 DEF el_set_tgt_pos, MOTOR_STATE_TARGET_POSITION
  <1> QED BY <1>5, <1>6, <1>8, <1>9, <1>10

\* az_set_tgt_pos is good for both callers.
LEMMA AzTgtPosGood ==
    ASSUME NEW st \in Store, st.dst = "az_tgt_pos"
    PROVE  Good(az_set_tgt_pos(st))
  <1> DEFINE s == az_set_tgt_pos(st)
  <1>1. Set("az_flag_calibrate", 0) \in Store /\ Set("az_state", 2) \in Store
    BY StoreFacts, CellTypes DEF States
  <1>2. s \in Seq(Store) /\ Len(s) = 3
    BY <1>1, ShortLists DEF az_set_tgt_pos, MOTOR_STATE_TARGET_POSITION
  <1>3. /\ s[1].dst = "az_tgt_pos"
        /\ s[2].dst = "az_flag_calibrate"
        /\ s[3].dst = "az_state" /\ s[3].val = MOTOR_STATE_TARGET_POSITION
    BY DEF az_set_tgt_pos, Set
  <1> HIDE DEF s
  <1>4. AzOrdered(s) /\ NoSpeed(s)
    BY <1>2, <1>3 DEF AzOrdered, NoSpeed, MOTOR_STATE_CONST_TORQUE,
                      MOTOR_STATE_CONST_SPEED, MOTOR_STATE_TARGET_POSITION
  <1> QED BY <1>2, <1>4 DEF Good, s

\* Every command begins a good list in a network thread.
LEMMA CommandBegins ==
    ASSUME Command
    PROVE  \E t \in {"api", "http"}, kind \in Kinds : \E stores :
               Good(stores) /\ Begin(t, stores, kind)
  <1> USE CtrlAssumption
  <1>1. Kinds = {"manual", "target", "calibrate", "stop", "other"}
    BY DEF Kinds
  <1>2. \A az \in AzArgs : Good(az_set_tgt_pos(Set("az_tgt_pos", az)))
    <2> TAKE az \in AzArgs
    <2>1. Set("az_tgt_pos", az) \in Store /\ Set("az_tgt_pos", az).dst = "az_tgt_pos"
      BY StoreFacts, CellTypes, NarrowTypes DEF Set
    <2> QED BY <2>1, AzTgtPosGood
  <1>3. CASE HttpSetTrq
    <2>1. PICK torque \in TrqArgs : \/ Begin("http", az_set_const_trq(torque), "manual")
                                    \/ Begin("http", el_set_const_trq(torque), "other")
                                    \/ Begin("http", sk_set_const_trq(torque), "other")
      BY <1>3 DEF HttpSetTrq
    <2>2. /\ Good(az_set_const_trq(torque))
          /\ Good(el_set_const_trq(torque)) /\ Good(sk_set_const_trq(torque))
      BY AzConstTrqGood, OtherSettersGood
    <2> QED BY <1>1, <2>1, <2>2
  <1>4. CASE HttpSetTar
    <2>1. CASE \E az \in AzArgs :
                  Begin("http", az_set_tgt_pos(Set("az_tgt_pos", az)), "target")
      BY <1>1, <1>2, <2>1
    <2>2. CASE \E el \in ElArgs :
                  \/ Begin("http", el_set_tgt_pos(Set("el_tgt_pos", el)), "other")
                  \/ Begin("http", sk_set_tgt_pos(el), "other")
      <3>1. PICK el \in ElArgs :
                  \/ Begin("http", el_set_tgt_pos(Set("el_tgt_pos", el)), "other")
                  \/ Begin("http", sk_set_tgt_pos(el), "other")
        BY <2>2
      <3>2. Good(el_set_tgt_pos(Set("el_tgt_pos", el))) /\ Good(sk_set_tgt_pos(el))
        BY OtherSettersGood
      <3> QED BY <1>1, <3>1, <3>2
    <2> QED BY <1>4, <2>1, <2>2 DEF HttpSetTar
  <1>5. CASE HttpSetOff
    <2>1. CASE \E off \in AzOffs : Begin("http", << Set("enc_az_off", off) >>, "other")
      <3>1. PICK off \in AzOffs : Begin("http", << Set("enc_az_off", off) >>, "other")
        BY <2>1
      <3>2. Good(<< Set("enc_az_off", off) >>)
        BY OtherSettersGood
      <3> QED BY <1>1, <3>1, <3>2
    <2>2. CASE \E off \in ElOffs : Begin("http", << Set("imu_el_off", off) >>, "other")
      <3>1. PICK off \in ElOffs : Begin("http", << Set("imu_el_off", off) >>, "other")
        BY <2>2
      <3>2. Good(<< Set("imu_el_off", off) >>)
        BY OtherSettersGood
      <3> QED BY <1>1, <3>1, <3>2
    <2> QED BY <1>5, <2>1, <2>2 DEF HttpSetOff
  <1>6. CASE HttpCalibrate
    <2>1. Good(az_calibrate)
      BY OtherSettersGood
    <2> QED BY <1>1, <1>6, <2>1 DEF HttpCalibrate
  <1>7. CASE ApiSetPos
    <2>1. PICK az \in AzArgs, el \in ElArgs :
            Begin("api", az_set_tgt_pos(Set("az_tgt_pos", az))
                         \o el_set_tgt_pos(Set("el_tgt_pos", el)), "target")
      BY <1>7 DEF ApiSetPos
    <2>2. Good(az_set_tgt_pos(Set("az_tgt_pos", az)) \o el_set_tgt_pos(Set("el_tgt_pos", el)))
      BY <1>2, OtherSettersGood, GoodConcat
    <2> QED BY <1>1, <2>1, <2>2
  <1>8. CASE ApiStop
    <2>1. Good(az_set_tgt_pos(Copy("az_tgt_pos", "az_enc_pos")))
      BY StoreFacts, AzTgtPosGood DEF Copy
    <2>2. Good(az_set_tgt_pos(Copy("az_tgt_pos", "az_enc_pos"))
               \o el_set_tgt_pos(Copy("el_tgt_pos", "imu_el_pos")))
      BY <2>1, OtherSettersGood, GoodConcat
    <2> QED BY <1>1, <1>8, <2>2 DEF ApiStop
  <1> QED BY <1>3, <1>4, <1>5, <1>6, <1>7, <1>8 DEF Command

\* The stores of the failsafe, in the order of its three calls.
FailsafeStores == az_set_const_trq(0) \o el_set_const_trq(0) \o sk_set_const_trq(0)

\* The calls of the failsafe are good.
LEMMA FailsafeStoresGood == Good(FailsafeStores)
  <1>1. 0 \in Int8
    BY NarrowTypes
  <1> QED BY <1>1, AzConstTrqGood, OtherSettersGood, GoodConcat DEF FailsafeStores

-----------------------------------------------------------------------------
(* Types, good lists, and where in its loop ctrl has no pending store.     *)

Lists == \A t \in Threads : Good(todo[t])
CtrlIdle == pc \in {"sleep", "calsleep", "el", "sk"} => todo["ctrl"] = <<>>
Base == TypeOK /\ Lists /\ CtrlIdle

\* The initial state satisfies Base.
LEMMA BaseInit == Init => Base
  <1> SUFFICES ASSUME Init PROVE Base
    OBVIOUS
  <1>1. \A c \in Cells : 0 \in CellType(c)
    BY NarrowTypes DEF CellType, MotorState, MOTOR_STATE_CONST_TORQUE
  <1>2. mem \in [Cells -> Int] /\ \A c \in Cells : mem[c] \in CellType(c)
    BY <1>1 DEF Init
  <1>3. 0 \in UInt16 /\ 0 \in Int16 /\ 0 \in Int8
    BY NarrowTypes
  <1>4. enc \in EncSample /\ imu \in ImuSample /\ asked \in [Motors -> Int8]
    BY <1>3 DEF Init, EncSample, ImuSample
  <1>5. Lists
    <2>1. <<>> \in Seq(Store) /\ ~Stores(<<>>, "az_state")
      BY DEF Stores
    <2>2. Good(<<>>)
      BY <2>1, OtherListsGood
    <2>3. \A t \in Threads : todo[t] = <<>>
      BY DEF Init
    <2> QED BY <2>2, <2>3 DEF Lists
  <1>6. todo \in [Threads -> Seq(Store)]
    BY DEF Init
  <1>7. /\ pc = "sleep" /\ old_az = Garbage /\ order = "none"
        /\ tripped = FALSE /\ stopped = FALSE
        /\ cmds \in 0 .. MaxCmds /\ todo["ctrl"] = <<>>
    BY CtrlAssumption DEF Init, Threads
  <1> QED BY <1>2, <1>4, <1>5, <1>6, <1>7 DEF Base, TypeOK, CtrlIdle

\* What a store writes has the type of the cell it writes to.
LEMMA ValueTyped ==
    ASSUME TypeOK, NEW st \in Store
    PROVE  /\ st.dst \in Cells
           /\ Value(st) \in CellType(st.dst) /\ Value(st) \in Int
           /\ st.dst \in Motors => Value(st) \in Int8
           /\ st.src # "imm" => st.dst \in {"az_tgt_pos", "el_tgt_pos"}
           /\ st.src = "imm" => Value(st) = st.val
  <1>1. enc.pos \in UInt16 /\ imu.el_pos \in Int16
    BY DEF TypeOK, EncSample, ImuSample
  <1>2. /\ st.dst \in Cells /\ st.val \in Int
        /\ \/ st.src = "imm" /\ st.val \in CellType(st.dst)
           \/ st.src = "az_enc_pos" /\ st.dst = "az_tgt_pos"
           \/ st.src = "imu_el_pos" /\ st.dst = "el_tgt_pos"
    BY DEF Store
  <1>3. Value(st) \in CellType(st.dst) /\ Value(st) \in Int
    BY <1>1, <1>2, CellTypes, NarrowTypes DEF Value
  <1> QED BY <1>2, <1>3, CellTypes DEF Value

\* A step that sets cells to values of their types keeps the memory typed.
LEMMA MemTyped ==
    ASSUME TypeOK, NEW c \in Cells, NEW v \in CellType(c), v \in Int,
           mem' = [mem EXCEPT ![c] = v]
    PROVE  mem' \in [Cells -> Int] /\ \A d \in Cells : mem'[d] \in CellType(d)
  BY DEF TypeOK

\* A thread executes a store.
LEMMA BaseExecute ==
    ASSUME Base, NEW t \in Threads, Execute(t)
    PROVE  Base'
  <1> DEFINE st == Head(todo[t])
  <1>1. Good(todo[t]) /\ todo[t] # <<>> /\ todo[t] \in Seq(Store)
    BY DEF Base, Lists, Execute, Good
  <1>2. st \in Store /\ Tail(todo[t]) \in Seq(Store) /\ Good(Tail(todo[t]))
    BY <1>1, TailFacts, GoodTail
  <1>3. /\ st.dst \in Cells /\ Value(st) \in CellType(st.dst) /\ Value(st) \in Int
        /\ st.dst \in Motors => Value(st) \in Int8
    BY <1>2, ValueTyped DEF Base
  <1>4. mem' = [mem EXCEPT ![st.dst] = Value(st)]
    BY DEF Execute
  <1>5. mem' \in [Cells -> Int] /\ \A c \in Cells : mem'[c] \in CellType(c)
    BY <1>3, <1>4, MemTyped DEF Base
  <1>6. asked' = IF st.dst \in Motors THEN [asked EXCEPT ![st.dst] = Value(st)] ELSE asked
    BY DEF Execute
  <1>7. asked' \in [Motors -> Int8]
    BY <1>3, <1>6 DEF Base, TypeOK
  <1>8. todo' = [todo EXCEPT ![t] = Tail(todo[t])]
    BY DEF Execute
  <1>9. todo' \in [Threads -> Seq(Store)] /\ Lists'
    BY <1>2, <1>8 DEF Base, TypeOK, Lists
  <1>10. UNCHANGED <<enc, imu, pc, old_az, cmds, order, tripped>> /\ stopped' \in BOOLEAN
    BY DEF Execute
  <1>11. CtrlIdle'
    BY <1>1, <1>8, <1>10 DEF Base, CtrlIdle, TypeOK, Threads
  <1> HIDE DEF st
  <1> QED BY <1>5, <1>7, <1>9, <1>10, <1>11 DEF Base, TypeOK

\* A network thread begins a command.
LEMMA BaseBegin ==
    ASSUME Base, NEW t \in {"api", "http"}, NEW stores, Good(stores),
           NEW kind \in Kinds, Begin(t, stores, kind)
    PROVE  Base'
  <1>1. /\ UNCHANGED <<mem, enc, imu, pc, old_az, asked, tripped>>
        /\ todo' = [todo EXCEPT ![t] = stores]
        /\ order' = IF kind = "other" THEN order ELSE kind
        /\ stopped' = FALSE /\ cmds < MaxCmds /\ cmds' = cmds + 1
    BY DEF Begin
  <1>2. todo' \in [Threads -> Seq(Store)] /\ Lists'
    BY <1>1 DEF Base, TypeOK, Lists, Good
  <1>3. todo'["ctrl"] = todo["ctrl"]
    BY <1>1 DEF Base, TypeOK, Threads
  <1>4. cmds' \in 0 .. MaxCmds
    BY <1>1, CtrlAssumption DEF Base, TypeOK
  <1>5. order' \in {"none", "manual", "target", "calibrate", "stop"}
    BY <1>1 DEF Base, TypeOK, Kinds
  <1> QED BY <1>1, <1>2, <1>3, <1>4, <1>5 DEF Base, TypeOK, CtrlIdle

\* A sensor thread publishes a reading.
LEMMA BaseReading ==
    ASSUME Base, EncReading \/ ImuReading
    PROVE  Base'
  <1>1. /\ UNCHANGED <<mem, pc, old_az, todo, cmds, asked, tripped>>
        /\ stopped' = FALSE /\ order' \in {order, "target"}
        /\ enc' \in EncSample /\ imu' \in ImuSample
    BY CtrlAssumption DEF Base, TypeOK, EncReading, ImuReading, Reading
  <1> QED BY <1>1 DEF Base, TypeOK, Lists, CtrlIdle

Typed(m) == m \in [Cells -> Int] /\ \A c \in Cells : m[c] \in CellType(c)

\* Replacing cells of a typed memory by values of their types.
LEMMA TypedExcept ==
    ASSUME NEW m, Typed(m), NEW c \in Cells, NEW v \in CellType(c), v \in Int
    PROVE  Typed([m EXCEPT ![c] = v])
  BY DEF Typed

\* The same for the torque a control loop computes.
LEMMA TypedTorque ==
    ASSUME NEW m, Typed(m), NEW c \in Motors, NEW v \in Int8
    PROVE  Typed([m EXCEPT ![c] = v])
  <1>1. c \in Cells /\ v \in CellType(c) /\ v \in Int
    BY CellTypes, NarrowTypes
  <1> QED BY <1>1, TypedExcept

\* The same for the speed a control loop demands.
LEMMA TypedSpeed ==
    ASSUME NEW m, Typed(m), NEW c \in {"az_tgt_spd", "el_tgt_spd"}, NEW v \in Int16
    PROVE  Typed([m EXCEPT ![c] = v])
  <1>1. c \in Cells /\ v \in CellType(c) /\ v \in Int
    BY CellTypes, NarrowTypes
  <1> QED BY <1>1, TypedExcept

\* The azimuth switch writes the demanded speed and the torque only, nothing
\* in CONST_TORQUE, and a torque of at most 25 otherwise.
LEMMA AzSwitchFacts ==
    ASSUME TypeOK
    PROVE  /\ Typed(AzSwitch)
           /\ \A c \in Cells \ {"az_tgt_spd", "motor_az"} : AzSwitch[c] = mem[c]
           /\ mem["az_state"] = MOTOR_STATE_CONST_TORQUE => AzSwitch = mem
           /\ mem["az_state"] # MOTOR_STATE_CONST_TORQUE => abs(AzSwitch["motor_az"]) <= 25
  <1>1. /\ Typed(mem) /\ mem \in [Cells -> Int] /\ enc.pos \in UInt16 /\ enc.spd \in Int16
        /\ mem["az_tgt_pos"] \in UInt16 /\ mem["az_tgt_spd"] \in Int16
        /\ mem["enc_az_off"] \in UInt16
    BY CellTypes DEF TypeOK, Typed, EncSample
  <1>2. AzPos \in UInt16
    BY <1>1, NarrowTypes, NarrowingTyped DEF AzPos
  <1>3. ASSUME NEW v \in Int8
        PROVE  /\ Typed([mem EXCEPT !["motor_az"] = v])
               /\ [mem EXCEPT !["motor_az"] = v]["motor_az"] = v
    <2>1. "motor_az" \in Motors /\ "motor_az" \in Cells
      BY CellTypes DEF Motors
    <2> QED BY <1>1, <2>1, TypedTorque
  <1>4. CASE mem["az_state"] = MOTOR_STATE_CONST_TORQUE
    BY <1>1, <1>4 DEF AzSwitch
  <1>5. CASE mem["az_state"] = MOTOR_STATE_CONST_SPEED
    <2>1. AzSwitch = [mem EXCEPT !["motor_az"] = AzTrq(mem["az_tgt_spd"], enc.spd)]
      BY <1>5 DEF AzSwitch, MOTOR_STATE_CONST_SPEED, MOTOR_STATE_CONST_TORQUE
    <2>2. /\ AzTrq(mem["az_tgt_spd"], enc.spd) \in Int8
          /\ abs(AzTrq(mem["az_tgt_spd"], enc.spd)) <= 25
      BY <1>1, AzTrqLimited
    <2> DEFINE trq == AzTrq(mem["az_tgt_spd"], enc.spd)
    <2>3. mem["az_state"] # MOTOR_STATE_CONST_TORQUE
      BY <1>5 DEF MOTOR_STATE_CONST_SPEED, MOTOR_STATE_CONST_TORQUE
    <2> HIDE DEF trq
    <2>4. Typed(AzSwitch) /\ AzSwitch["motor_az"] = trq
      BY <1>3, <2>1, <2>2 DEF trq
    <2> QED BY <1>1, <2>1, <2>2, <2>3, <2>4 DEF trq
  <1>6. CASE /\ mem["az_state"] \notin {MOTOR_STATE_CONST_TORQUE, MOTOR_STATE_CONST_SPEED}
             /\ AzMustMove(mem["az_tgt_pos"], AzPos)
    <2> DEFINE spd == AzTgtSpd(mem["az_tgt_pos"], AzPos)
               trq == AzTrq(spd, enc.spd)
    <2>1. AzSwitch = [mem EXCEPT !["az_tgt_spd"] = spd, !["motor_az"] = trq]
      BY <1>6 DEF AzSwitch
    <2>2. spd \in Int16
      BY <1>1, <1>2, <1>6, AzTgtSpdRange
    <2>3. trq \in Int8 /\ abs(trq) <= 25
      BY <1>1, <2>2, AzTrqLimited
    <2> HIDE DEF spd, trq
    <2>4. Typed([mem EXCEPT !["az_tgt_spd"] = spd])
      BY <1>1, <2>2, TypedSpeed
    <2>5. Typed([[mem EXCEPT !["az_tgt_spd"] = spd] EXCEPT !["motor_az"] = trq])
      BY <2>3, <2>4, TypedTorque DEF Motors
    <2>6. AzSwitch["motor_az"] = trq
      BY <1>1, <2>1, CellTypes DEF Motors
    <2> QED BY <1>1, <1>6, <2>1, <2>3, <2>5, <2>6
  <1>7. CASE /\ mem["az_state"] \notin {MOTOR_STATE_CONST_TORQUE, MOTOR_STATE_CONST_SPEED}
             /\ ~AzMustMove(mem["az_tgt_pos"], AzPos)
    <2>1. AzSwitch = [mem EXCEPT !["motor_az"] = AzHoldTrq(mem["motor_az"])]
      BY <1>7 DEF AzSwitch
    <2> QED BY <1>1, <1>3, <1>7, <2>1, AzHoldTrqLimited
  <1> QED BY <1>4, <1>5, <1>6, <1>7

\* The same for the elevation switch.
LEMMA ElSwitchFacts ==
    ASSUME TypeOK, NEW fresh \in ImuSample
    PROVE  /\ Typed(ElSwitch(fresh))
           /\ \A c \in Cells \ {"el_tgt_spd", "motor_el"} : ElSwitch(fresh)[c] = mem[c]
           /\ mem["el_state"] = MOTOR_STATE_CONST_TORQUE => ElSwitch(fresh) = mem
           /\ mem["el_state"] # MOTOR_STATE_CONST_TORQUE
                  => abs(ElSwitch(fresh)["motor_el"]) <= 25
  <1> DEFINE spd == IF mem["el_state"] = MOTOR_STATE_TARGET_POSITION
                    THEN ElTgtSpd(mem["el_tgt_pos"], ElPos) ELSE mem["el_tgt_spd"]
             trq == ElTrq(spd, imu.el_spd, fresh.el_spd)
  <1>1. /\ Typed(mem) /\ mem \in [Cells -> Int]
        /\ imu.el_pos \in Int16 /\ imu.el_spd \in Int16 /\ fresh.el_spd \in Int16
        /\ mem["el_tgt_pos"] \in Int16 /\ mem["el_tgt_spd"] \in Int16
        /\ mem["imu_el_off"] \in Int16
    BY CellTypes DEF TypeOK, Typed, ImuSample
  <1>2. ElPos \in Int16
    BY <1>1, NarrowTypes, NarrowingTyped DEF ElPos
  <1>3. spd \in Int16
    BY <1>1, <1>2, ElTgtSpdRange
  <1> HIDE DEF spd
  <1>4. trq \in Int8 /\ abs(trq) <= 25
    BY <1>1, <1>3, ElTrqLimited
  <1> HIDE DEF trq
  <1>5. ElSwitch(fresh) = IF mem["el_state"] = MOTOR_STATE_CONST_TORQUE THEN mem
                          ELSE [mem EXCEPT !["el_tgt_spd"] = spd, !["motor_el"] = trq]
    BY DEF ElSwitch, spd, trq
  <1>6. Typed([mem EXCEPT !["el_tgt_spd"] = spd])
    BY <1>1, <1>3, TypedSpeed
  <1>7. Typed([[mem EXCEPT !["el_tgt_spd"] = spd] EXCEPT !["motor_el"] = trq])
    BY <1>4, <1>6, TypedTorque DEF Motors
  <1>8. [mem EXCEPT !["el_tgt_spd"] = spd, !["motor_el"] = trq]["motor_el"] = trq
    BY <1>1, CellTypes DEF Motors
  <1> QED BY <1>1, <1>4, <1>5, <1>7, <1>8

\* What every block of the loop has in common.
LEMMA BlockFacts ==
    ASSUME Base, NEW from, NEW to, Block(from, to)
    PROVE  /\ pc = from /\ pc' = to /\ todo["ctrl"] = <<>>
           /\ enc' = enc /\ cmds' = cmds /\ order' = order /\ stopped' = FALSE
  BY DEF Block

\* Base after a block that changes no todo list, keeps the memory typed and
\* leaves the torques that were asked for alone.
LEMMA BaseBlock ==
    ASSUME Base, NEW from,
           NEW to \in {"sleep", "calibrate", "calsleep", "az", "el", "sk"},
           Block(from, to), Typed(mem'), imu' \in ImuSample, todo' = todo,
           asked' = asked, tripped' \in BOOLEAN,
           old_az' = Garbage \/ old_az' \in UInt16
    PROVE  Base'
  <1>1. /\ pc' = to /\ todo["ctrl"] = <<>>
        /\ enc' = enc /\ cmds' = cmds /\ order' = order /\ stopped' = FALSE
    BY BlockFacts
  <1> QED BY <1>1 DEF Base, TypeOK, Typed, Lists, CtrlIdle

\* Base after a block in which ctrl may call setters; it stays awake.
LEMMA BaseCall ==
    ASSUME Base, NEW from, NEW to \in {"calibrate", "az"}, Block(from, to),
           mem' = mem, imu' = imu, asked' = asked, tripped' \in BOOLEAN,
           old_az' = Garbage \/ old_az' \in UInt16,
           NEW stores, Good(stores),
           todo' = todo \/ todo' = [todo EXCEPT !["ctrl"] = stores]
    PROVE  Base'
  <1>1. /\ pc' = to
        /\ enc' = enc /\ cmds' = cmds /\ order' = order /\ stopped' = FALSE
    BY BlockFacts
  <1>2. todo' \in [Threads -> Seq(Store)] /\ Lists'
    BY DEF Base, TypeOK, Lists, Good
  <1>3. pc' \notin {"sleep", "calsleep", "el", "sk"}
    BY <1>1
  <1> QED BY <1>1, <1>2, <1>3 DEF Base, TypeOK, CtrlIdle

\* Every step of the control thread keeps Base.
LEMMA BaseCtrlStep ==
    ASSUME Base, CtrlStep
    PROVE  Base'
  <1>1. /\ Typed(mem) /\ imu \in ImuSample /\ tripped \in BOOLEAN
        /\ old_az = Garbage \/ old_az \in UInt16
        /\ enc.pos \in UInt16 /\ mem \in [Cells -> Int]
    BY DEF Base, TypeOK, Typed, EncSample
  <1>2. CASE Failsafe
    <2>1. /\ Block("sleep", "calibrate") /\ mem' = mem /\ imu' = imu /\ asked' = asked
          /\ old_az' = old_az /\ tripped' = FailsafeTrips(imu)
          /\ todo' = todo \/ todo' = [todo EXCEPT !["ctrl"] = FailsafeStores]
      BY <1>2 DEF Failsafe, FailsafeStores
    <2>2. tripped' \in BOOLEAN
      BY <2>1 DEF FailsafeTrips
    <2> QED BY <1>1, <2>1, <2>2, FailsafeStoresGood, BaseCall
  <1>3. CASE CalSkip
    BY <1>1, <1>3, BaseBlock DEF CalSkip
  <1>4. CASE CalStart
    <2>1. /\ Block("calibrate", "calsleep") /\ imu' = imu /\ asked' = asked
          /\ old_az' = old_az /\ tripped' = tripped /\ todo' = todo
          /\ mem' = [mem EXCEPT !["motor_az"] = 25]
      BY <1>4 DEF CalStart
    <2>2. 25 \in Int8 /\ "motor_az" \in Motors
      BY NarrowTypes DEF Motors
    <2>3. Typed([mem EXCEPT !["motor_az"] = 25])
      BY <1>1, <2>2, TypedTorque
    <2> QED BY <1>1, <2>1, <2>3, BaseBlock
  <1>5. CASE CalWake
    <2>1. /\ Block("calsleep", "az") /\ imu' = imu /\ asked' = asked
          /\ old_az' = 0 /\ tripped' = tripped /\ todo' = todo
          /\ mem' = [mem EXCEPT !["az_tgt_spd"] = 180 * 30,
                                !["az_state"] = MOTOR_STATE_CONST_SPEED]
      BY <1>5 DEF CalWake
    <2>2. 180 * 30 \in Int16 /\ 0 \in UInt16
      BY NarrowTypes
    <2>3. Typed([mem EXCEPT !["az_tgt_spd"] = 180 * 30])
      BY <1>1, <2>2, TypedSpeed
    <2>4. /\ "az_state" \in Cells /\ MOTOR_STATE_CONST_SPEED \in CellType("az_state")
          /\ MOTOR_STATE_CONST_SPEED \in Int
      BY CellTypes DEF States, MOTOR_STATE_CONST_SPEED
    <2>5. Typed([[mem EXCEPT !["az_tgt_spd"] = 180 * 30]
                     EXCEPT !["az_state"] = MOTOR_STATE_CONST_SPEED])
      BY <2>3, <2>4, TypedExcept
    <2>6. Typed(mem')
      BY <2>1, <2>5
    <2> QED BY <1>1, <2>1, <2>2, <2>6, BaseBlock
  <1>6. CASE CalWatch
    <2>1. /\ Block("calibrate", "az") /\ mem' = mem /\ imu' = imu /\ asked' = asked
          /\ old_az' = enc.pos /\ tripped' = tripped
          /\ todo' = todo \/ todo' = [todo EXCEPT !["ctrl"] = az_set_const_trq(0)]
      BY <1>6 DEF CalWatch
    <2>2. Good(az_set_const_trq(0))
      BY AzConstTrqGood, NarrowTypes
    <2> QED BY <1>1, <2>1, <2>2, BaseCall
  <1>7. CASE AzControl
    <2>1. /\ Block("az", "el") /\ imu' = imu /\ asked' = asked
          /\ old_az' = old_az /\ tripped' = tripped /\ todo' = todo /\ mem' = AzSwitch
      BY <1>7 DEF AzControl
    <2>2. Typed(mem')
      BY <2>1, AzSwitchFacts DEF Base
    <2> QED BY <1>1, <2>1, <2>2, BaseBlock
  <1>8. CASE ElControl
    <2>1. PICK fresh \in ImuSamples \cup {imu} : mem' = ElSwitch(fresh) /\ imu' = fresh
      BY <1>8 DEF ElControl
    <2>2. /\ Block("el", "sk") /\ asked' = asked
          /\ old_az' = old_az /\ tripped' = tripped /\ todo' = todo
      BY <1>8 DEF ElControl
    <2>3. fresh \in ImuSample
      BY <1>1, CtrlAssumption
    <2>4. Typed(mem')
      BY <2>1, <2>3, ElSwitchFacts DEF Base
    <2> QED BY <1>1, <2>1, <2>2, <2>3, <2>4, BaseBlock
  <1>9. CASE SkControl
    <2>1. /\ Block("sk", "sleep") /\ imu' = imu /\ asked' = asked
          /\ old_az' = old_az /\ tripped' = FALSE /\ todo' = todo
          /\ mem' = [mem EXCEPT !["sk_state"] = MOTOR_STATE_CONST_TORQUE]
      BY <1>9 DEF SkControl
    <2>2. /\ "sk_state" \in Cells /\ MOTOR_STATE_CONST_TORQUE \in CellType("sk_state")
          /\ MOTOR_STATE_CONST_TORQUE \in Int
      BY CellTypes DEF States, MOTOR_STATE_CONST_TORQUE
    <2>3. Typed(mem')
      BY <1>1, <2>1, <2>2, TypedExcept
    <2> QED BY <1>1, <2>1, <2>3, BaseBlock
  <1>10. CASE Execute("ctrl")
    BY <1>10, BaseExecute DEF Threads
  <1> QED BY <1>2, <1>3, <1>4, <1>5, <1>6, <1>7, <1>8, <1>9, <1>10 DEF CtrlStep

\* Every step keeps Base.
LEMMA BaseNext == Base /\ [Next]_vars => Base'
  <1> SUFFICES ASSUME Base, [Next]_vars PROVE Base'
    OBVIOUS
  <1>1. CASE CtrlStep
    BY <1>1, BaseCtrlStep
  <1>2. CASE Command
    BY <1>2, CommandBegins, BaseBegin
  <1>3. CASE EncReading \/ ImuReading
    BY <1>3, BaseReading
  <1>4. CASE Execute("api") \/ Execute("http")
    BY <1>4, BaseExecute DEF Threads
  <1>5. CASE UNCHANGED vars
    BY <1>5 DEF vars, hist, Base, TypeOK, Lists, CtrlIdle
  <1> QED BY <1>1, <1>2, <1>3, <1>4, <1>5 DEF Next

\* Type correctness: no conversion, control law or setter stores a value that
\* the C type of the variable could not hold.
THEOREM TypeCorrect == Spec => []TypeOK
  <1>1. Base => TypeOK
    BY DEF Base
  <1> QED BY <1>1, BaseInit, BaseNext, PTL DEF Spec

\* Base is an invariant, to be used by the other theorems.
LEMMA BaseInvariant == Spec => []Base
  BY BaseInit, BaseNext, PTL DEF Spec

-----------------------------------------------------------------------------
(* A manual azimuth torque is not overwritten by the control loop, and the *)
(* calibration never reads an uninitialised variable.                      *)

\* A pending store is a store of some thread's list.
LEMMA PendingStores ==
    ASSUME NEW cell
    PROVE  Pending(cell) <=> \E t \in Threads : Stores(todo[t], cell)
  BY DEF Pending, Stores

AzInv == AzManualHolds /\ OldAzInitialised

\* Executing a store keeps both.
LEMMA AzExecute ==
    ASSUME Base, AzInv, NEW t \in Threads, Execute(t)
    PROVE  AzInv'
  <1> DEFINE st == Head(todo[t])
  <1>1. Good(todo[t]) /\ todo[t] # <<>> /\ todo[t] \in Seq(Store)
    BY DEF Base, Lists, Execute, Good
  <1>2. /\ st \in Store
        /\ st.dst = "az_state" => st.val # MOTOR_STATE_CONST_SPEED
        /\ st.dst = "az_state" /\ st.val = MOTOR_STATE_CONST_TORQUE
               => Stores(Tail(todo[t]), "motor_az")
        /\ st.dst # "motor_az" =>
               (Stores(Tail(todo[t]), "motor_az") <=> Stores(todo[t], "motor_az"))
    BY <1>1, TailFacts, GoodTail, StoresTail
  <1>3. /\ st.dst \in Cells
        /\ st.dst = "az_state" => Value(st) = st.val
    BY <1>2, ValueTyped DEF Base
  <1>4. /\ mem' = [mem EXCEPT ![st.dst] = Value(st)]
        /\ asked' = IF st.dst \in Motors THEN [asked EXCEPT ![st.dst] = Value(st)] ELSE asked
        /\ todo' = [todo EXCEPT ![t] = Tail(todo[t])]
        /\ pc' = pc /\ old_az' = old_az
    BY DEF Execute
  <1>5. mem \in [Cells -> Int] /\ asked \in [Motors -> Int8] /\ todo \in [Threads -> Seq(Store)]
    BY DEF Base, TypeOK
  <1> HIDE DEF st
  <1>6. OldAzInitialised'
    BY <1>2, <1>3, <1>4, <1>5 DEF AzInv, OldAzInitialised
  <1>7. AzManualHolds'
    <2>1. SUFFICES ASSUME mem'["az_state"] = MOTOR_STATE_CONST_TORQUE, pc' # "calsleep",
                          ~Pending("motor_az")'
                   PROVE  mem'["motor_az"] = asked'["motor_az"]
      BY DEF AzManualHolds
    <2>2. \A u \in Threads : ~Stores(todo'[u], "motor_az")
      BY <2>1, PendingStores DEF Pending, Stores
    <2>3. ~Stores(Tail(todo[t]), "motor_az")
      BY <1>4, <1>5, <2>2
    <2>4. CASE st.dst = "motor_az"
      BY <1>3, <1>4, <1>5, <2>4 DEF Motors
    <2>5. CASE st.dst = "az_state"
      BY <1>2, <1>3, <1>4, <1>5, <2>1, <2>3, <2>5 DEF Cells
    <2>6. CASE st.dst \notin {"motor_az", "az_state"}
      <3>1. ~Pending("motor_az")
        BY <1>2, <1>4, <1>5, <2>2, <2>6, PendingStores
      <3>2. /\ mem'["az_state"] = mem["az_state"] /\ mem'["motor_az"] = mem["motor_az"]
            /\ asked'["motor_az"] = asked["motor_az"]
        BY <1>4, <1>5, <2>6
      <3> QED BY <1>4, <2>1, <3>1, <3>2 DEF AzInv, AzManualHolds
    <2> QED BY <2>4, <2>5, <2>6
  <1> QED BY <1>6, <1>7 DEF AzInv

\* A step that leaves the azimuth cells alone and at most starts a new list.
LEMMA AzFrame ==
    ASSUME Base, AzInv, pc # "calsleep" \/ pc' = "calsleep",
           mem'["az_state"] = mem["az_state"], mem'["motor_az"] = mem["motor_az"],
           asked' = asked,
           old_az' = old_az \/ old_az' # Garbage,
           NEW t \in Threads, NEW stores,
           \/ todo' = todo
           \/ todo[t] = <<>> /\ todo' = [todo EXCEPT ![t] = stores]
    PROVE  AzInv'
  <1>1. todo \in [Threads -> Seq(Store)]
    BY DEF Base, TypeOK
  <1>2. Pending("motor_az") => Pending("motor_az")'
    <2>1. SUFFICES ASSUME NEW u \in Threads, Stores(todo[u], "motor_az")
                   PROVE  Stores(todo'[u], "motor_az")
      BY PendingStores DEF Pending, Stores
    <2>2. todo[u] # <<>>
      BY <2>1 DEF Stores
    <2> QED BY <1>1, <2>1, <2>2
  <1>3. AzManualHolds'
    BY <1>2 DEF AzInv, AzManualHolds
  <1>4. OldAzInitialised'
    BY DEF AzInv, OldAzInitialised
  <1> QED BY <1>3, <1>4 DEF AzInv

\* Every step keeps the two azimuth properties.
LEMMA AzNext == Base /\ AzInv /\ [Next]_vars => AzInv'
  <1> SUFFICES ASSUME Base, AzInv, [Next]_vars PROVE AzInv'
    OBVIOUS
  <1>1. /\ "ctrl" \in Threads /\ "api" \in Threads /\ "http" \in Threads
        /\ "az_state" \in Cells /\ "motor_az" \in Cells /\ mem \in [Cells -> Int]
        /\ enc.pos \in UInt16 /\ todo \in [Threads -> Seq(Store)]
    BY CellTypes DEF Threads, Motors, States, Base, TypeOK, EncSample
  <1>2. CASE Execute("ctrl") \/ Execute("api") \/ Execute("http")
    BY <1>1, <1>2, AzExecute
  <1>3. CASE Command
    <2>1. PICK t \in {"api", "http"}, kind \in Kinds : \E stores :
              Good(stores) /\ Begin(t, stores, kind)
      BY <1>3, CommandBegins
    <2>2. PICK stores : Begin(t, stores, kind)
      BY <2>1
    <2>3. /\ mem' = mem /\ pc' = pc /\ asked' = asked /\ old_az' = old_az
          /\ todo[t] = <<>> /\ todo' = [todo EXCEPT ![t] = stores] /\ t \in Threads
      BY <1>1, <2>2 DEF Begin
    <2> QED BY <2>3, AzFrame
  <1>4. CASE EncReading \/ ImuReading
    BY <1>1, <1>4, AzFrame DEF EncReading, ImuReading, Reading
  <1>5. CASE Failsafe
    <2>1. /\ pc = "sleep" /\ mem' = mem /\ asked' = asked /\ old_az' = old_az
          /\ todo["ctrl"] = <<>>
          /\ todo' = todo \/ todo' = [todo EXCEPT !["ctrl"] = FailsafeStores]
      BY <1>5 DEF Failsafe, Block, FailsafeStores
    <2> QED BY <1>1, <2>1, AzFrame
  <1>6. CASE CalSkip
    BY <1>1, <1>6, AzFrame DEF CalSkip, Block
  <1>7. CASE CalStart
    <2>1. /\ pc' = "calsleep" /\ mem'["az_state"] = mem["az_state"]
          /\ old_az' = old_az
      BY <1>1, <1>7 DEF CalStart, Block
    <2> QED BY <2>1 DEF AzInv, AzManualHolds, OldAzInitialised
  <1>8. CASE CalWake
    <2>1. mem'["az_state"] = MOTOR_STATE_CONST_SPEED /\ old_az' # Garbage
      BY <1>1, <1>8 DEF CalWake, Garbage
    <2> QED BY <2>1 DEF AzInv, AzManualHolds, OldAzInitialised,
                        MOTOR_STATE_CONST_SPEED, MOTOR_STATE_CONST_TORQUE
  <1>9. CASE CalWatch
    <2>1. /\ pc = "calibrate" /\ mem' = mem /\ asked' = asked /\ old_az' # Garbage
          /\ todo["ctrl"] = <<>>
          /\ todo' = todo \/ todo' = [todo EXCEPT !["ctrl"] = az_set_const_trq(0)]
      BY <1>1, <1>9, NarrowTypes DEF CalWatch, Block, Garbage
    <2> QED BY <1>1, <2>1, AzFrame
  <1>10. CASE AzControl
    <2>1. /\ pc = "az" /\ mem' = AzSwitch /\ asked' = asked /\ old_az' = old_az
          /\ todo' = todo
      BY <1>10 DEF AzControl, Block
    <2>2. /\ mem'["az_state"] = mem["az_state"]
          /\ mem["az_state"] = MOTOR_STATE_CONST_TORQUE => mem' = mem
      BY <1>1, <2>1, AzSwitchFacts DEF Base
    <2>3. CASE mem["az_state"] = MOTOR_STATE_CONST_TORQUE
      BY <1>1, <2>1, <2>2, <2>3, AzFrame
    <2>4. CASE mem["az_state"] # MOTOR_STATE_CONST_TORQUE
      BY <2>1, <2>2, <2>4 DEF AzInv, AzManualHolds, OldAzInitialised
    <2> QED BY <2>3, <2>4
  <1>11. CASE ElControl
    <2>1. PICK fresh \in ImuSamples \cup {imu} : mem' = ElSwitch(fresh)
      BY <1>11 DEF ElControl
    <2>2. fresh \in ImuSample
      BY CtrlAssumption DEF Base, TypeOK
    <2>3. mem'["az_state"] = mem["az_state"] /\ mem'["motor_az"] = mem["motor_az"]
      BY <1>1, <2>1, <2>2, ElSwitchFacts DEF Base
    <2>4. pc = "el" /\ asked' = asked /\ old_az' = old_az /\ todo' = todo
      BY <1>11 DEF ElControl, Block
    <2> QED BY <1>1, <2>3, <2>4, AzFrame
  <1>12. CASE SkControl
    <2>1. /\ pc = "sk" /\ asked' = asked /\ old_az' = old_az /\ todo' = todo
          /\ mem' = [mem EXCEPT !["sk_state"] = MOTOR_STATE_CONST_TORQUE]
      BY <1>12 DEF SkControl, Block
    <2> QED BY <1>1, <2>1, AzFrame
  <1>13. CASE UNCHANGED vars
    BY <1>1, <1>13, AzFrame DEF vars, hist
  <1> QED BY <1>2, <1>3, <1>4, <1>5, <1>6, <1>7, <1>8, <1>9, <1>10, <1>11, <1>12, <1>13
          DEF Next, CtrlStep

\* Initially both hold.
LEMMA AzInit == Init => AzInv
  BY DEF Init, AzInv, AzManualHolds, OldAzInitialised, Cells, Motors, States,
         MOTOR_STATE_CONST_SPEED

\* For all arguments and readings: an azimuth torque set by hand is never
\* replaced by the control loop that preempts az_set_const_trq.
THEOREM AzManualTorqueHolds == Spec => []AzManualHolds
  <1>1. AzInv => AzManualHolds
    BY DEF AzInv
  <1> QED BY <1>1, AzInit, AzNext, BaseInvariant, PTL DEF Spec

\* For all arguments and readings: ctrl.c:142 never reads an old_az that was
\* not assigned before.
THEOREM OldAzIsInitialised == Spec => []OldAzInitialised
  <1>1. AzInv => OldAzInitialised
    BY DEF AzInv
  <1> QED BY <1>1, AzInit, AzNext, BaseInvariant, PTL DEF Spec

-----------------------------------------------------------------------------
(* The failsafe.  While it executes, a cell that has to be 0 is 0 already  *)
(* or has a pending store, and all pending stores of ctrl store 0.         *)

SafeCells == Motors \cup States \cup {"az_flag_calibrate"}

AllZero(s) == \A i \in 1 .. Len(s) : s[i].src = "imm" /\ s[i].val = 0

FailsafeInv ==
    tripped => /\ pc \in {"calibrate", "az", "el", "sk"}
               /\ AllZero(todo["ctrl"])
               /\ \A c \in SafeCells : mem[c] = 0 \/ Stores(todo["ctrl"], c)

\* A concatenation of lists of known lengths.
LEMMA ConcatFacts ==
    ASSUME NEW u \in Seq(Store), NEW v \in Seq(Store), NEW w, w = u \o v
    PROVE  /\ w \in Seq(Store) /\ Len(w) = Len(u) + Len(v)
           /\ \A i \in 1 .. Len(u) + Len(v) :
                  w[i] = IF i <= Len(u) THEN u[i] ELSE v[i - Len(u)]
  BY ConcatProperties

\* The failsafe's three calls store 0 to every safe cell and nothing else.
LEMMA FailsafeStoresZero ==
    AllZero(FailsafeStores) /\ \A c \in SafeCells : Stores(FailsafeStores, c)
  <1> DEFINE a == az_set_const_trq(0)
             e == el_set_const_trq(0)
             k == sk_set_const_trq(0)
  <1>1. /\ Len(a) = 3 /\ Len(e) = 2 /\ Len(k) = 2
        /\ a \in Seq(Store) /\ e \in Seq(Store) /\ k \in Seq(Store)
    <2>1. 0 \in Int8
      BY NarrowTypes
    <2>2. Good(a) /\ Good(e) /\ Good(k)
      BY <2>1, AzConstTrqGood, OtherSettersGood
    <2>3. a \in Seq(Store) /\ e \in Seq(Store) /\ k \in Seq(Store)
      BY <2>2 DEF Good
    <2>4. Len(a) = 3 /\ Len(e) = 2 /\ Len(k) = 2
      BY DEF az_set_const_trq, el_set_const_trq, sk_set_const_trq
    <2> QED BY <2>3, <2>4
  <1>2. /\ a[1].dst = "az_flag_calibrate" /\ a[2].dst = "az_state" /\ a[3].dst = "motor_az"
        /\ e[1].dst = "motor_el" /\ e[2].dst = "el_state"
        /\ k[1].dst = "motor_sk" /\ k[2].dst = "sk_state"
    BY DEF az_set_const_trq, el_set_const_trq, sk_set_const_trq, Set
  <1>3. /\ \A i \in 1 .. 3 : a[i].src = "imm" /\ a[i].val = 0
        /\ \A i \in 1 .. 2 : e[i].src = "imm" /\ e[i].val = 0
        /\ \A i \in 1 .. 2 : k[i].src = "imm" /\ k[i].val = 0
    BY DEF az_set_const_trq, el_set_const_trq, sk_set_const_trq, Set,
           MOTOR_STATE_CONST_TORQUE
  <1> HIDE DEF a, e, k
  <1> DEFINE ae == a \o e
             s == ae \o k
  <1>4. ae = a \o e /\ s = ae \o k
    OBVIOUS
  <1> HIDE DEF ae, s
  <1>5. /\ ae \in Seq(Store) /\ Len(ae) = Len(a) + Len(e)
        /\ \A i \in 1 .. Len(a) + Len(e) :
               ae[i] = IF i <= Len(a) THEN a[i] ELSE e[i - Len(a)]
    <2>1. a \in Seq(Store) /\ e \in Seq(Store) /\ ae = a \o e
      BY <1>1, <1>4
    <2> QED BY <2>1, ConcatFacts
  <1>6. /\ Len(s) = Len(ae) + Len(k)
        /\ \A i \in 1 .. Len(ae) + Len(k) :
               s[i] = IF i <= Len(ae) THEN ae[i] ELSE k[i - Len(ae)]
    <2>1. ae \in Seq(Store) /\ k \in Seq(Store) /\ s = ae \o k
      BY <1>1, <1>4, <1>5
    <2> QED BY <2>1, ConcatFacts
  <1>7. /\ Len(s) = 7 /\ s[1] = a[1] /\ s[2] = a[2] /\ s[3] = a[3]
         /\ s[4] = e[1] /\ s[5] = e[2] /\ s[6] = k[1] /\ s[7] = k[2]
    BY <1>1, <1>5, <1>6
  <1>8. AllZero(s)
    BY <1>3, <1>7 DEF AllZero
  <1>9. \A c \in SafeCells : Stores(s, c)
    BY <1>2, <1>7 DEF SafeCells, Motors, States, Stores
  <1> QED BY <1>8, <1>9 DEF FailsafeStores, s, ae, a, e, k

\* Every step keeps the invariant of the failsafe.
LEMMA FailsafeNext == Base /\ FailsafeInv /\ [Next]_vars => FailsafeInv'
  <1> SUFFICES ASSUME Base, FailsafeInv, [Next]_vars PROVE FailsafeInv'
    OBVIOUS
  <1>1. /\ "ctrl" \in Threads /\ SafeCells \subseteq Cells /\ mem \in [Cells -> Int]
        /\ todo \in [Threads -> Seq(Store)]
    BY DEF Threads, SafeCells, Cells, Base, TypeOK
  <1>2. ASSUME ~tripped' PROVE FailsafeInv'
    BY <1>2 DEF FailsafeInv
  <1>3. ASSUME tripped, pc' \in {"calibrate", "az", "el", "sk"},
               todo' = todo, \A c \in SafeCells : mem'[c] = mem[c]
        PROVE  FailsafeInv'
    BY <1>3 DEF FailsafeInv
  <1>4. ASSUME tripped, todo["ctrl"] = <<>>, NEW c \in SafeCells
        PROVE  mem[c] = 0
    BY <1>4 DEF FailsafeInv, Stores
  <1>5. CASE Execute("api") \/ Execute("http") \/ Command
    <2>1. pc \in Asleep /\ tripped' = tripped
      BY <1>5, CommandBegins DEF Execute, Begin, CanRun
    <2>2. ~tripped
      BY <2>1 DEF FailsafeInv, Asleep
    <2> QED BY <1>2, <2>1, <2>2
  <1>6. CASE Execute("ctrl")
    <2> DEFINE st == Head(todo["ctrl"])
    <2>1. /\ todo["ctrl"] # <<>> /\ tripped' = tripped /\ pc' = pc
          /\ mem' = [mem EXCEPT ![st.dst] = Value(st)]
          /\ todo' = [todo EXCEPT !["ctrl"] = Tail(@)]
      BY <1>6 DEF Execute
    <2>2. /\ Len(todo["ctrl"]) \in Nat /\ Len(todo["ctrl"]) >= 1
          /\ st = todo["ctrl"][1] /\ st.dst \in Cells
          /\ Len(Tail(todo["ctrl"])) = Len(todo["ctrl"]) - 1
          /\ \A i \in 1 .. Len(Tail(todo["ctrl"])) :
                 Tail(todo["ctrl"])[i] = todo["ctrl"][i + 1]
      BY <1>1, <2>1, TailFacts DEF Store
    <2>3. CASE tripped
      <3>1. Value(st) = 0 /\ AllZero(Tail(todo["ctrl"]))
        BY <2>2, <2>3 DEF FailsafeInv, AllZero, Value
      <3>2. ASSUME NEW c \in SafeCells
            PROVE  mem'[c] = 0 \/ Stores(Tail(todo["ctrl"]), c)
        <4>1. CASE c = st.dst
          BY <1>1, <2>1, <2>2, <3>1, <4>1
        <4>2. CASE c # st.dst
          <5>1. mem'[c] = mem[c]
            BY <1>1, <2>1, <4>2
          <5>2. Stores(Tail(todo["ctrl"]), c) <=> Stores(todo["ctrl"], c)
            BY <1>1, <2>1, <4>2, StoresTail
          <5> QED BY <2>3, <5>1, <5>2 DEF FailsafeInv
        <4> QED BY <4>1, <4>2
      <3>3. todo'["ctrl"] = Tail(todo["ctrl"])
        BY <1>1, <2>1
      <3> QED BY <2>1, <2>3, <3>1, <3>2, <3>3 DEF FailsafeInv
    <2> QED BY <1>2, <2>1, <2>3
  <1>7. CASE Failsafe
    <2>1. CASE tripped'
      <3>1. pc' = "calibrate" /\ todo' = [todo EXCEPT !["ctrl"] = FailsafeStores]
        BY <1>7, <2>1 DEF Failsafe, Block, FailsafeStores
      <3>2. todo'["ctrl"] = FailsafeStores
        BY <1>1, <3>1
      <3> QED BY <3>1, <3>2, FailsafeStoresZero DEF FailsafeInv
    <2> QED BY <1>2, <2>1
  <1>8. CASE EncReading \/ ImuReading \/ CalSkip \/ UNCHANGED vars
    <2>1. /\ tripped' = tripped /\ mem' = mem /\ todo' = todo
          /\ pc' = pc \/ pc' = "az"
      BY <1>8 DEF EncReading, ImuReading, Reading, CalSkip, Block, vars, hist
    <2>2. tripped => pc \in {"calibrate", "az", "el", "sk"}
      BY DEF FailsafeInv
    <2> QED BY <1>2, <1>3, <2>1, <2>2
  <1>9. CASE CalStart \/ CalWake \/ CalWatch
    <2>1. /\ tripped' = tripped /\ todo["ctrl"] = <<>>
          /\ mem["az_flag_calibrate"] = 1 \/ pc = "calsleep"
      BY <1>9 DEF CalStart, CalWake, CalWatch, Block
    <2>2. ~tripped
      BY <1>4, <2>1 DEF FailsafeInv, SafeCells
    <2> QED BY <1>2, <2>1, <2>2
  <1>10. CASE AzControl
    <2>1. /\ pc' = "el" /\ tripped' = tripped /\ mem' = AzSwitch /\ todo' = todo
          /\ todo["ctrl"] = <<>>
      BY <1>10 DEF AzControl, Block
    <2>2. tripped => mem["az_state"] = MOTOR_STATE_CONST_TORQUE
      BY <1>4, <2>1 DEF SafeCells, States, MOTOR_STATE_CONST_TORQUE
    <2>3. tripped => mem' = mem
      BY <2>1, <2>2, AzSwitchFacts DEF Base
    <2> QED BY <1>2, <1>3, <2>1, <2>3
  <1>11. CASE ElControl
    <2>1. PICK fresh \in ImuSamples \cup {imu} : mem' = ElSwitch(fresh)
      BY <1>11 DEF ElControl
    <2>2. fresh \in ImuSample
      BY CtrlAssumption DEF Base, TypeOK
    <2>3. pc' = "sk" /\ tripped' = tripped /\ todo' = todo /\ todo["ctrl"] = <<>>
      BY <1>11 DEF ElControl, Block
    <2>4. tripped => mem["el_state"] = MOTOR_STATE_CONST_TORQUE
      BY <1>4, <2>3 DEF SafeCells, States, MOTOR_STATE_CONST_TORQUE
    <2>5. tripped => mem' = mem
      BY <2>1, <2>2, <2>4, ElSwitchFacts DEF Base
    <2> QED BY <1>2, <1>3, <2>3, <2>5
  <1>12. CASE SkControl
    BY <1>2, <1>12 DEF SkControl
  <1> QED BY <1>5, <1>6, <1>7, <1>8, <1>9, <1>10, <1>11, <1>12 DEF Next, CtrlStep

\* For all arguments and readings: after the failsafe of ctrl.c:118-126 the
\* rest of the iteration leaves all motors without torque.
THEOREM FailsafeIsSafe == Spec => []FailsafeHolds
  <1>1. Init => FailsafeInv
    BY DEF Init, FailsafeInv
  <1>2. FailsafeInv => FailsafeHolds
    BY DEF FailsafeInv, FailsafeHolds, SafeCells, Stores, MOTOR_STATE_CONST_TORQUE
  <1> QED BY <1>1, <1>2, FailsafeNext, BaseInvariant, PTL DEF Spec

-----------------------------------------------------------------------------
(* A stopped antenna.  Whatever ctrl stores through a setter is 0, in every *)
(* iteration: it calls the setters only to stop.                           *)

CtrlZero == AllZero(todo["ctrl"])

\* Stopping the azimuth motor stores only 0.
LEMMA AzStopZero == AllZero(az_set_const_trq(0))
  <1> DEFINE a == az_set_const_trq(0)
  <1>1. Len(a) = 3 /\ \A i \in 1 .. 3 : a[i].src = "imm" /\ a[i].val = 0
    BY DEF az_set_const_trq, Set, MOTOR_STATE_CONST_TORQUE
  <1> QED BY <1>1 DEF AllZero

\* The store that ctrl executes next stores 0, and zeros remain.
LEMMA ZeroTail ==
    ASSUME NEW s \in Seq(Store), s # <<>>, AllZero(s)
    PROVE  Head(s) \in Store /\ Value(Head(s)) = 0 /\ AllZero(Tail(s))
  <1>1. /\ Len(s) \in Nat /\ Len(s) >= 1
        /\ Head(s) = s[1] /\ Head(s) \in Store
        /\ Len(Tail(s)) = Len(s) - 1
        /\ \A i \in 1 .. Len(Tail(s)) : Tail(s)[i] = s[i + 1]
    BY TailFacts
  <1>2. Value(Head(s)) = 0
    BY <1>1 DEF AllZero, Value
  <1>3. AllZero(Tail(s))
    BY <1>1 DEF AllZero
  <1> QED BY <1>1, <1>2, <1>3

\* Every step keeps it.
LEMMA ZeroNext == Base /\ CtrlZero /\ [Next]_vars => CtrlZero'
  <1> SUFFICES ASSUME Base, CtrlZero, [Next]_vars PROVE CtrlZero'
    OBVIOUS
  <1>1. "ctrl" \in Threads /\ todo \in [Threads -> Seq(Store)]
    BY DEF Threads, Base, TypeOK
  <1>2. ASSUME todo'["ctrl"] = todo["ctrl"] PROVE CtrlZero'
    BY <1>2 DEF CtrlZero
  <1>3. CASE Execute("api") \/ Execute("http") \/ Command
    <2>1. PICK t \in {"api", "http"} : \E s : todo' = [todo EXCEPT ![t] = s]
      BY <1>3, CommandBegins DEF Execute, Begin
    <2> QED BY <1>1, <1>2, <2>1
  <1>4. CASE Execute("ctrl")
    <2>1. todo["ctrl"] # <<>> /\ todo' = [todo EXCEPT !["ctrl"] = Tail(@)]
      BY <1>4 DEF Execute
    <2>2. todo'["ctrl"] = Tail(todo["ctrl"])
      BY <1>1, <2>1
    <2> QED BY <1>1, <2>1, <2>2, ZeroTail DEF CtrlZero
  <1>5. CASE Failsafe
    <2>1. todo' = todo \/ todo' = [todo EXCEPT !["ctrl"] = FailsafeStores]
      BY <1>5 DEF Failsafe, FailsafeStores
    <2>2. todo'["ctrl"] = todo["ctrl"] \/ todo'["ctrl"] = FailsafeStores
      BY <1>1, <2>1
    <2> QED BY <1>2, <2>2, FailsafeStoresZero DEF CtrlZero
  <1>6. CASE CalWatch
    <2>1. todo' = todo \/ todo' = [todo EXCEPT !["ctrl"] = az_set_const_trq(0)]
      BY <1>6 DEF CalWatch
    <2>2. todo'["ctrl"] = todo["ctrl"] \/ todo'["ctrl"] = az_set_const_trq(0)
      BY <1>1, <2>1
    <2> QED BY <1>2, <2>2, AzStopZero DEF CtrlZero
  <1>7. CASE \/ EncReading \/ ImuReading \/ UNCHANGED vars \/ CalSkip \/ CalStart
             \/ CalWake \/ AzControl \/ ElControl \/ SkControl
    <2>1. todo' = todo
      BY <1>7 DEF EncReading, ImuReading, Reading, vars, hist, CalSkip, CalStart,
                  CalWake, AzControl, ElControl, SkControl
    <2> QED BY <1>2, <2>1
  <1> QED BY <1>3, <1>4, <1>5, <1>6, <1>7 DEF Next, CtrlStep

\* A step that is no command leaves a stopped antenna stopped.
LEMMA StoppedStep ==
    ASSUME Base, CtrlZero, [Next]_vars, Stopped, cmds' = cmds
    PROVE  Stopped'
  <1>1. /\ Threads = {"ctrl", "api", "http"} /\ todo \in [Threads -> Seq(Store)]
        /\ SafeCells \subseteq Cells /\ mem \in [Cells -> Int] /\ cmds \in Nat
    BY CtrlAssumption DEF Threads, SafeCells, Cells, Base, TypeOK
  <1>2. /\ pc # "calsleep" /\ todo["api"] = <<>> /\ todo["http"] = <<>>
        /\ mem["az_flag_calibrate"] = 0
        /\ mem["az_state"] = MOTOR_STATE_CONST_TORQUE
        /\ mem["el_state"] = MOTOR_STATE_CONST_TORQUE
    BY DEF Stopped, States
  <1>3. \A c \in SafeCells : mem[c] = 0
    BY DEF Stopped, SafeCells, MOTOR_STATE_CONST_TORQUE
  <1>4. ASSUME pc' # "calsleep", todo'["api"] = <<>>, todo'["http"] = <<>>,
               \A c \in SafeCells : mem'[c] = 0
        PROVE  Stopped'
    BY <1>4 DEF Stopped, SafeCells, MOTOR_STATE_CONST_TORQUE
  <1>5. ASSUME pc' # "calsleep", mem' = mem,
               todo' = todo \/ \E s : todo' = [todo EXCEPT !["ctrl"] = s]
        PROVE  Stopped'
    <2>1. todo'["api"] = todo["api"] /\ todo'["http"] = todo["http"]
      BY <1>1, <1>5
    <2> QED BY <1>2, <1>3, <1>4, <1>5, <2>1
  <1>6. ~Command /\ ~Execute("api") /\ ~Execute("http")
    <2>1. ASSUME Command PROVE FALSE
      <3>1. \E t \in {"api", "http"}, kind \in Kinds : \E stores : Begin(t, stores, kind)
        BY <2>1, CommandBegins
      <3>2. cmds' = cmds + 1
        BY <3>1 DEF Begin
      <3> QED BY <1>1, <3>2
    <2> QED BY <1>2, <2>1 DEF Execute
  <1>7. CASE Execute("ctrl")
    <2> DEFINE st == Head(todo["ctrl"])
    <2>1. /\ todo["ctrl"] # <<>> /\ pc' = pc
          /\ mem' = [mem EXCEPT ![st.dst] = Value(st)]
          /\ todo' = [todo EXCEPT !["ctrl"] = Tail(@)]
      BY <1>7 DEF Execute
    <2>2. Value(st) = 0
      BY <1>1, <2>1, ZeroTail DEF CtrlZero
    <2>3. \A c \in SafeCells : mem'[c] = 0
      BY <1>1, <1>3, <2>1, <2>2
    <2>4. todo'["api"] = todo["api"] /\ todo'["http"] = todo["http"]
      BY <1>1, <2>1
    <2> QED BY <1>2, <1>4, <2>1, <2>3, <2>4
  <1>8. CASE Failsafe \/ CalSkip \/ EncReading \/ ImuReading \/ UNCHANGED vars
    <2>1. /\ mem' = mem /\ pc' \in {pc, "calibrate", "az"}
          /\ todo' = todo \/ \E s : todo' = [todo EXCEPT !["ctrl"] = s]
      BY <1>8 DEF Failsafe, CalSkip, Block, EncReading, ImuReading, Reading, vars, hist
    <2> QED BY <1>2, <1>5, <2>1
  <1>9. ~CalStart /\ ~CalWake /\ ~CalWatch
    BY <1>2 DEF CalStart, CalWake, CalWatch, Block
  <1>10. CASE AzControl
    <2>1. pc' = "el" /\ mem' = AzSwitch /\ todo' = todo
      BY <1>10 DEF AzControl, Block
    <2>2. mem' = mem
      BY <1>2, <2>1, AzSwitchFacts DEF Base
    <2> QED BY <1>5, <2>1, <2>2
  <1>11. CASE ElControl
    <2>1. PICK fresh \in ImuSamples \cup {imu} : mem' = ElSwitch(fresh)
      BY <1>11 DEF ElControl
    <2>2. fresh \in ImuSample
      BY CtrlAssumption DEF Base, TypeOK
    <2>3. pc' = "sk" /\ todo' = todo
      BY <1>11 DEF ElControl, Block
    <2>4. mem' = mem
      BY <1>2, <2>1, <2>2, ElSwitchFacts DEF Base
    <2> QED BY <1>5, <2>3, <2>4
  <1>12. CASE SkControl
    <2>1. /\ pc' = "sleep" /\ todo' = todo
          /\ mem' = [mem EXCEPT !["sk_state"] = MOTOR_STATE_CONST_TORQUE]
      BY <1>12 DEF SkControl, Block
    <2>2. \A c \in SafeCells : mem'[c] = 0
      BY <1>1, <1>3, <2>1 DEF MOTOR_STATE_CONST_TORQUE
    <2> QED BY <1>2, <1>4, <2>1, <2>2
  <1> QED BY <1>6, <1>7, <1>8, <1>9, <1>10, <1>11, <1>12 DEF Next, CtrlStep

\* For all arguments and readings: once everything is stopped, for example by
\* the failsafe of ctrl.c:118-126, the loop starts no motor by itself.
THEOREM StoppedAntennaStays == Spec => StoppedStays
  <1>1. Init => CtrlZero
    BY DEF Init, CtrlZero, AllZero, Threads
  <1>2. Base /\ CtrlZero /\ [Next]_vars => [Stopped /\ cmds' = cmds => Stopped']_vars
    BY StoppedStep
  <1> QED BY <1>1, <1>2, ZeroNext, BaseInvariant, PTL DEF Spec, StoppedStays

-----------------------------------------------------------------------------
(* The limit of the closed loops.                                          *)

\* Every step keeps the limit of 25: between AzControl and the end of the
\* iteration no other thread of Ctrl can run.
LEMMA TrackingNext == Base /\ TrackingTorqueLimited /\ [Next]_vars => TrackingTorqueLimited'
  <1> SUFFICES ASSUME Base, TrackingTorqueLimited, [Next]_vars
               PROVE  TrackingTorqueLimited'
    OBVIOUS
  <1>1. /\ {"az_state", "el_state", "motor_az", "motor_el"} \subseteq Cells
        /\ mem \in [Cells -> Int] /\ "ctrl" \in Threads
    BY DEF Cells, Motors, States, Threads, Base, TypeOK
  <1>2. ASSUME pc' \notin {"el", "sk"} PROVE TrackingTorqueLimited'
    BY <1>2 DEF TrackingTorqueLimited
  <1>3. CASE Execute("api") \/ Execute("http") \/ Command
    <2>1. pc \in Asleep /\ pc' = pc
      BY <1>3, CommandBegins DEF Execute, Begin, CanRun
    <2> QED BY <1>2, <2>1 DEF Asleep
  <1>4. CASE Execute("ctrl")
    <2>1. pc' = pc /\ todo["ctrl"] # <<>>
      BY <1>4 DEF Execute
    <2> QED BY <1>2, <2>1 DEF Base, CtrlIdle
  <1>5. CASE EncReading \/ ImuReading \/ UNCHANGED vars
    BY <1>5 DEF EncReading, ImuReading, Reading, vars, hist, TrackingTorqueLimited
  <1>6. CASE Failsafe \/ CalSkip \/ CalStart \/ CalWake \/ CalWatch \/ SkControl
    <2>1. pc' \notin {"el", "sk"}
      BY <1>6 DEF Failsafe, CalSkip, CalStart, CalWake, CalWatch, SkControl, Block
    <2> QED BY <1>2, <2>1
  <1>7. CASE AzControl
    <2>1. pc' = "el" /\ mem' = AzSwitch
      BY <1>7 DEF AzControl, Block
    <2>2. mem'["az_state"] # MOTOR_STATE_CONST_TORQUE => abs(mem'["motor_az"]) <= 25
      BY <1>1, <2>1, AzSwitchFacts DEF Base
    <2> QED BY <2>1, <2>2 DEF TrackingTorqueLimited
  <1>8. CASE ElControl
    <2>1. PICK fresh \in ImuSamples \cup {imu} : mem' = ElSwitch(fresh)
      BY <1>8 DEF ElControl
    <2>2. fresh \in ImuSample
      BY CtrlAssumption DEF Base, TypeOK
    <2>3. pc = "el" /\ pc' = "sk"
      BY <1>8 DEF ElControl, Block
    <2>4. /\ mem'["az_state"] = mem["az_state"] /\ mem'["motor_az"] = mem["motor_az"]
          /\ mem'["el_state"] # MOTOR_STATE_CONST_TORQUE => abs(mem'["motor_el"]) <= 25
      BY <1>1, <2>1, <2>2, ElSwitchFacts DEF Base
    <2> QED BY <2>3, <2>4 DEF TrackingTorqueLimited
  <1> QED BY <1>3, <1>4, <1>5, <1>6, <1>7, <1>8 DEF Next, CtrlStep

\* For all arguments and readings: az_set and el_set torques of the closed
\* loops (ctrl.c:184-188 and 224-228) stay within 25, whatever came before.
THEOREM TrackingIsLimited == Spec => []TrackingTorqueLimited
  <1>1. Init => TrackingTorqueLimited
    BY DEF Init, TrackingTorqueLimited
  <1> QED BY <1>1, TrackingNext, BaseInvariant, PTL DEF Spec
=============================================================================
