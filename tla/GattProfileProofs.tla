------------------------- MODULE GattProfileProofs -------------------------
(***************************************************************************)
(* Proofs about the inventory of GattProfile, for every database, every    *)
(* limit and any number of errors of the Bluetooth stack, and about the    *)
(* plans that are made of the services found.                              *)
(***************************************************************************)
EXTENDS GattProfile, SequenceLemmas, FiniteSetTheorems

-----------------------------------------------------------------------------
(* The inductive invariant: what is found so far, at each of the three     *)
(* levels, truncates what the peer has there; it is all of it unless       *)
(* something was marked or could not be counted; a mark has a cause.       *)

Finished == {"INVENTORIED", "NO_HID"}

InventoryType ==
  /\ pc \in Inventorying \cup Ends \cup {"INVENTORIED", "BUILDING_PROFILE", "REGISTERING"}
  /\ database \in Databases
  /\ services_ \in Seq(GattServices) /\ Len(services_) <= MaxServices
  /\ service \in GattServices
  /\ characteristic \in Characteristics \cup {NoCharacteristic}
  /\ included_service_total \in 0 .. MaxIncludedServices
  /\ characteristic_total \in 0 .. MaxCharacteristics
  /\ descriptor_total \in 0 .. MaxDescriptors
  /\ errors \in Nat /\ uncounted \in BOOLEAN /\ operations_failed_ \in Nat

ServicesTruncate ==
  /\ Len(services_) <= Len(database)
  /\ \A i \in DOMAIN services_ : Truncates(services_[i], database[i])

ServiceTruncates ==
  pc \in Inventorying \ {"SERVICES"} =>
    /\ Len(services_) < Len(database) /\ Len(services_) < MaxServices
    /\ Truncates(service, AskedService)
    /\ pc = "INCLUDES" => service.included = 0 /\ service.characteristics = <<>>

AskedCharacteristicTruncates ==
  pc = "DESCRIPTORS" =>
    /\ Len(service.characteristics) < Len(AskedService.characteristics)
    /\ CharacteristicTruncates(characteristic, AskedCharacteristic)

\* Nothing is missing but a number of included services that could not be had.
Whole(found, there) ==
  /\ found.characteristics = there.characteristics
  /\ ~uncounted => found.included = there.included

\* Nothing was left out so far that is not accounted for.
NothingLeftOut ==
  operations_failed_ = 0 =>
    /\ \A i \in DOMAIN services_ : Whole(services_[i], database[i])
    /\ pc \in {"CHARACTERISTICS", "DESCRIPTORS"} =>
         /\ ~uncounted => service.included = AskedService.included
         /\ \A j \in DOMAIN service.characteristics :
              service.characteristics[j] = AskedService.characteristics[j]
    /\ pc \notin Inventorying \cup {"FAILED"} => Len(services_) = Len(database)

MarksHaveACause ==
  pc \in Inventorying \cup Finished /\ operations_failed_ > 0 => errors > 0 \/ LimitReached

InventoryInv ==
  /\ InventoryType /\ ServicesTruncate /\ ServiceTruncates /\ AskedCharacteristicTruncates
  /\ NothingLeftOut /\ MarksHaveACause

-----------------------------------------------------------------------------
(* What inventory asks for. *)

LEMMA AskedServiceType ==
  ASSUME InventoryType, Len(services_) < Len(database)
  PROVE  /\ AskedService \in GattServices
         /\ AskedService.characteristics \in Seq(Characteristics)
         /\ AskedService.included \in Nat
<1>1. database \in Seq(GattServices) /\ Len(services_) + 1 \in 1 .. Len(database)
  BY DatabaseAssumption, LenProperties DEF InventoryType
<1>2. AskedService \in GattServices
  BY <1>1, ElementOfSeq DEF AskedService
<1> QED
  BY <1>2 DEF GattServices

LEMMA ServiceTyped ==
  ASSUME InventoryType
  PROVE  service.characteristics \in Seq(Characteristics) /\ service.included \in Nat
BY DEF InventoryType, GattServices

LEMMA AskedCharacteristicType ==
  ASSUME InventoryType, Len(services_) < Len(database),
         Len(service.characteristics) < Len(AskedService.characteristics)
  PROVE  /\ AskedCharacteristic \in Characteristics
         /\ AskedCharacteristic.descriptors \in Seq(Descriptors)
<1>1. Len(service.characteristics) + 1 \in 1 .. Len(AskedService.characteristics)
  BY AskedServiceType, ServiceTyped, LenProperties
<1>2. AskedCharacteristic \in Characteristics
  BY <1>1, AskedServiceType, ElementOfSeq DEF AskedCharacteristic
<1> QED
  BY <1>2 DEF Characteristics

\* A characteristic that truncates another without lacking a descriptor is that one.
LEMMA WholeCharacteristic ==
  ASSUME NEW c \in Characteristics, NEW d \in Characteristics,
         CharacteristicTruncates(c, d), Len(c.descriptors) = Len(d.descriptors)
  PROVE  c = d
<1>1. c.descriptors \in Seq(Descriptors) /\ d.descriptors \in Seq(Descriptors)
  BY DEF Characteristics
<1>2. c.descriptors = d.descriptors
  BY <1>1, SeqEqual, LenProperties DEF CharacteristicTruncates
<1> QED
  BY <1>2 DEF CharacteristicTruncates, Characteristics

-----------------------------------------------------------------------------
(* The invariant holds at first, and every step keeps it. *)

LEMMA InventoryInit == Init => InventoryInv
<1> SUFFICES ASSUME Init PROVE InventoryInv
  OBVIOUS
<1>1. services_ \in Seq(GattServices) /\ Len(services_) = 0 /\ service \in GattServices
  BY EmptySeq DEF Init, NoService, GattServices, ServiceUuids, StandardReads
<1>2. database \in Seq(GattServices) /\ Len(database) \in Nat
  BY DatabaseAssumption, LenProperties DEF Init
<1>3. InventoryType
  <2>1. /\ Len(services_) <= MaxServices /\ included_service_total \in 0 .. MaxIncludedServices
        /\ characteristic_total \in 0 .. MaxCharacteristics
        /\ descriptor_total \in 0 .. MaxDescriptors
        /\ errors \in Nat /\ operations_failed_ \in Nat
    BY <1>1, LimitAssumption DEF Init
  <2>2. uncounted \in BOOLEAN /\ characteristic \in Characteristics \cup {NoCharacteristic}
    BY DEF Init
  <2> QED
    BY <1>1, <2>1, <2>2 DEF Init, InventoryType, Inventorying
<1>4. ServicesTruncate
  BY <1>1, <1>2 DEF Init, ServicesTruncate
<1>5. ServiceTruncates /\ AskedCharacteristicTruncates /\ MarksHaveACause
  BY DEF Init, ServiceTruncates, AskedCharacteristicTruncates, MarksHaveACause
<1>6. NothingLeftOut
  BY <1>1, LenProperties DEF Init, NothingLeftOut, Inventorying
<1> QED
  BY <1>3, <1>4, <1>5, <1>6 DEF InventoryInv

LEMMA GetServiceKeeps ==
  ASSUME InventoryInv, GetService
  PROVE  InventoryInv'
<1> USE DEF InventoryInv
<1>1. /\ pc = "SERVICES" /\ pc' = "INCLUDES"
      /\ Len(services_) < Len(database) /\ Len(services_) < MaxServices
      /\ service' = [AskedService EXCEPT !.included = 0, !.characteristics = <<>>]
      /\ UNCHANGED <<database, services_, characteristic, included_service_total,
                     characteristic_total, descriptor_total, operations_failed_, errors, uncounted>>
  BY DEF GetService, inputs, answers
<1>2. AskedService \in GattServices /\ AskedService' = AskedService
  BY <1>1, AskedServiceType DEF AskedService
<1>3. /\ service' \in GattServices /\ service'.uuid = AskedService.uuid
      /\ service'.included = 0 /\ service'.characteristics = <<>>
  BY <1>1, <1>2, EmptySeq DEF GattServices
<1>4. InventoryType'
  BY <1>1, <1>3 DEF InventoryType, Inventorying
<1>5. ServicesTruncate'
  BY <1>1 DEF ServicesTruncate
<1>6. Truncates(service', AskedService)
  BY <1>1, <1>2, <1>3, AskedServiceType, LenProperties DEF Truncates
<1>7. ServiceTruncates' /\ AskedCharacteristicTruncates'
  BY <1>1, <1>2, <1>3, <1>6 DEF ServiceTruncates, AskedCharacteristicTruncates
<1>8. NothingLeftOut'
  BY <1>1 DEF NothingLeftOut, Whole, Inventorying
<1>9. MarksHaveACause'
  BY <1>1 DEF MarksHaveACause, LimitReached, Finished, Inventorying
<1> QED
  BY <1>4, <1>5, <1>7, <1>8, <1>9

\* A given up inventory only has to stay truncated.
LEMMA ServiceErrorKeeps ==
  ASSUME InventoryInv, ServiceError
  PROVE  InventoryInv'
<1>1. /\ pc' = "FAILED" /\ errors' = errors + 1 /\ operations_failed_' = operations_failed_ + 1
      /\ UNCHANGED <<database, services_, service, characteristic, included_service_total,
                     characteristic_total, descriptor_total, uncounted>>
  BY DEF ServiceError, Error, MarkDegraded, inputs, inventory
<1>2. InventoryType'
  BY <1>1 DEF InventoryInv, InventoryType, Inventorying, Finished, Ends
<1>3. ServicesTruncate' /\ ServiceTruncates' /\ AskedCharacteristicTruncates'
  BY <1>1 DEF InventoryInv, ServicesTruncate, ServiceTruncates, AskedCharacteristicTruncates, Inventorying
<1>4. operations_failed_' # 0
  BY <1>1 DEF InventoryInv, InventoryType
<1>5. NothingLeftOut' /\ MarksHaveACause'
  BY <1>1, <1>4 DEF NothingLeftOut, MarksHaveACause, Inventorying, Finished
<1> QED
  BY <1>2, <1>3, <1>5 DEF InventoryInv

LEMMA EndInventoryKeeps ==
  ASSUME InventoryInv, EndInventory
  PROVE  InventoryInv'
<1> USE DEF InventoryInv
<1> DEFINE full == IF AtLimit(Len(services_), MaxServices) THEN 1 ELSE 0
           none == IF services_ = <<>> THEN 1 ELSE 0
<1>1. /\ pc = "SERVICES" /\ pc' \in {"FAILED", "NO_HID", "INVENTORIED"}
      /\ pc' # "FAILED" => services_ # <<>>
      /\ Len(services_) = Len(database) \/ Len(services_) >= MaxServices
      /\ operations_failed_' = operations_failed_ + (full + none)
      /\ UNCHANGED <<database, services_, service, characteristic, included_service_total,
                     characteristic_total, descriptor_total, errors, uncounted>>
  BY DEF EndInventory, MarkDegraded, inputs, inventory, answers
<1>2. full \in Nat /\ none \in Nat
  OBVIOUS
<1> HIDE DEF none
<1>3. operations_failed_ \in Nat /\ operations_failed_' \in Nat
  <2>1. operations_failed_ \in Nat
    BY <1>1 DEF InventoryType, Inventorying
  <2> QED
    BY <2>1, <1>1, <1>2
<1>4. InventoryType'
  BY <1>1, <1>3 DEF InventoryType, Inventorying, Finished, Ends
<1>5. ServicesTruncate' /\ ServiceTruncates' /\ AskedCharacteristicTruncates'
  BY <1>1 DEF ServicesTruncate, ServiceTruncates, AskedCharacteristicTruncates, Inventorying
<1>6. Len(services_) \in Nat /\ Len(services_) <= MaxServices /\ MaxServices \in Nat
  BY LenProperties, LimitAssumption DEF InventoryType
<1>7. NothingLeftOut'
  <2> SUFFICES ASSUME operations_failed_' = 0
               PROVE  /\ \A i \in DOMAIN services_ : Whole(services_[i], database[i])
                      /\ Len(services_) = Len(database)
    BY <1>1 DEF NothingLeftOut, Whole
  <2>1. operations_failed_ = 0 /\ full = 0
    BY <1>1, <1>2, <1>3
  <2>2. ~AtLimit(Len(services_), MaxServices)
    BY <2>1
  <2> QED
    BY <1>1, <1>6, <2>1, <2>2 DEF NothingLeftOut, AtLimit
<1>8. MarksHaveACause'
  <2> SUFFICES ASSUME pc' \in Finished, operations_failed_' > 0
               PROVE  errors > 0 \/ LimitReached
    BY <1>1 DEF MarksHaveACause, LimitReached, Inventorying, Finished
  <2>1. none = 0
    BY <1>1 DEF Finished, none
  <2>2. CASE full = 0
    BY <2>1, <2>2, <1>1, <1>3 DEF MarksHaveACause, Inventorying
  <2>3. CASE full = 1
    BY <2>3, <1>6 DEF AtLimit, LimitReached
  <2> QED
    BY <2>2, <2>3
<1> QED
  BY <1>4, <1>5, <1>7, <1>8

\* An uncounted service is excused by uncounted; its characteristics are asked for as ever.
LEMMA CountErrorKeeps ==
  ASSUME InventoryInv, CountError
  PROVE  InventoryInv'
<1>1. /\ pc = "INCLUDES" /\ pc' = "CHARACTERISTICS" /\ uncounted' = TRUE /\ errors' = errors + 1
      /\ UNCHANGED <<database, services_, service, characteristic, included_service_total,
                     characteristic_total, descriptor_total, operations_failed_>>
  BY DEF CountError, Error, inputs, inventory
<1>2. InventoryType'
  BY <1>1 DEF InventoryInv, InventoryType, Inventorying, Finished
<1>3. ServicesTruncate'
  BY <1>1 DEF InventoryInv, ServicesTruncate
<1>4. ServiceTruncates' /\ AskedCharacteristicTruncates'
  BY <1>1 DEF InventoryInv, ServiceTruncates, AskedCharacteristicTruncates, Inventorying, AskedService
<1>5. NothingLeftOut'
  <2>1. service.characteristics = <<>>
    BY <1>1 DEF InventoryInv, ServiceTruncates, Inventorying
  <2> QED
    BY <1>1, <2>1, LenProperties, EmptySeq
       DEF InventoryInv, NothingLeftOut, Whole, Inventorying, AskedService
<1>6. MarksHaveACause'
  <2>1. errors' > 0
    BY <1>1 DEF InventoryInv, InventoryType
  <2> QED
    BY <2>1 DEF MarksHaveACause
<1> QED
  BY <1>2, <1>3, <1>4, <1>5, <1>6 DEF InventoryInv

\* What KeptIncludes returns fits the array, and falls short only if that is full.
LEMMA KeptIncludesBounds ==
  ASSUME InventoryType, NEW count \in Nat
  PROVE  /\ KeptIncludes(count) \in 0 .. count
         /\ included_service_total + KeptIncludes(count) \in 0 .. MaxIncludedServices
         /\ KeptIncludes(count) < count =>
              included_service_total + KeptIncludes(count) = MaxIncludedServices
BY LimitAssumption DEF InventoryType, KeptIncludes

LEMMA GetIncludesKeeps ==
  ASSUME InventoryInv, GetIncludes
  PROVE  InventoryInv'
<1> USE DEF InventoryInv
<1> DEFINE count == AskedService.included
           kept  == KeptIncludes(count)
           over  == IF kept < count THEN 1 ELSE 0
<1>1. /\ pc = "INCLUDES" /\ pc' = "CHARACTERISTICS"
      /\ Len(services_) < Len(database) /\ Len(services_) < MaxServices
      /\ Truncates(service, AskedService)
      /\ service.included = 0 /\ service.characteristics = <<>>
      /\ UNCHANGED <<database, services_, characteristic, characteristic_total, descriptor_total,
                     uncounted>>
  BY DEF GetIncludes, ServiceTruncates, Inventorying, inputs
<1>2. /\ count \in Nat /\ kept \in 0 .. count
      /\ included_service_total + kept \in 0 .. MaxIncludedServices
      /\ kept < count => included_service_total + kept = MaxIncludedServices
      /\ AskedService' = AskedService
  BY <1>1, AskedServiceType, KeptIncludesBounds DEF AskedService
<1>3. operations_failed_ \in Nat /\ errors \in Nat /\ over \in {0, 1}
  <2>1. operations_failed_ \in Nat /\ errors \in Nat
    BY <1>1 DEF InventoryType, Inventorying
  <2> QED
    BY <2>1
<1>4. \/ /\ service' = [service EXCEPT !.included = kept]
         /\ included_service_total' = included_service_total + kept
         /\ operations_failed_' = operations_failed_ + over
         /\ UNCHANGED errors
      \/ /\ errors' = errors + 1 /\ operations_failed_' = operations_failed_ + (over + 1)
         /\ UNCHANGED <<service, included_service_total>>
  BY DEF GetIncludes, MarkDegraded, Error
<1> HIDE DEF count, kept, over
<1>5. ServicesTruncate' /\ AskedCharacteristicTruncates'
  BY <1>1 DEF ServicesTruncate, AskedCharacteristicTruncates
<1>6. CASE /\ service' = [service EXCEPT !.included = kept]
           /\ included_service_total' = included_service_total + kept
           /\ operations_failed_' = operations_failed_ + over
           /\ UNCHANGED errors
  <2>1. /\ service' \in GattServices /\ service'.uuid = service.uuid
        /\ service'.included = kept /\ service'.characteristics = <<>>
    <3>1. service \in GattServices /\ kept \in Nat
      BY <1>2 DEF InventoryType
    <3> QED
      BY <1>1, <1>6, <3>1 DEF GattServices
  <2>2. operations_failed_' \in Nat /\ included_service_total' \in 0 .. MaxIncludedServices
    BY <1>2, <1>3, <1>6
  <2>3. InventoryType'
    BY <1>1, <1>6, <2>1, <2>2 DEF InventoryType, Inventorying
  <2>4. ServiceTruncates'
    BY <1>1, <1>2, <2>1 DEF ServiceTruncates, Truncates, count
  <2>5. NothingLeftOut'
    <3> SUFFICES ASSUME operations_failed_' = 0
                 PROVE  /\ \A i \in DOMAIN services_ : Whole(services_[i], database[i])
                        /\ kept = count
      BY <1>1, <1>2, <2>1 DEF NothingLeftOut, Whole, Inventorying, count
    <3>1. operations_failed_ = 0 /\ over = 0
      BY <1>3, <1>6
    <3>2. kept = count
      BY <3>1, <1>2 DEF over
    <3> QED
      BY <1>1, <3>1, <3>2 DEF NothingLeftOut
  <2>6. MarksHaveACause'
    <3> SUFFICES ASSUME operations_failed_' > 0 PROVE errors' > 0 \/ LimitReached'
      BY DEF MarksHaveACause
    <3>1. CASE over = 0
      <4>1. errors > 0 \/ LimitReached
        BY <3>1, <1>1, <1>3, <1>6 DEF MarksHaveACause, Inventorying
      <4>2. kept = 0 \/ included_service_total # MaxIncludedServices
        BY <1>2, LimitAssumption DEF InventoryType
      <4> QED
        BY <4>1, <4>2, <1>1, <1>2, <1>6 DEF LimitReached, InventoryType
    <3>2. CASE over # 0
      <4>1. included_service_total' = MaxIncludedServices
        BY <3>2, <1>2, <1>6 DEF over
      <4> QED
        BY <4>1 DEF LimitReached
    <3> QED
      BY <3>1, <3>2
  <2> QED
    BY <1>5, <2>3, <2>4, <2>5, <2>6
<1>7. CASE /\ errors' = errors + 1 /\ operations_failed_' = operations_failed_ + (over + 1)
           /\ UNCHANGED <<service, included_service_total>>
  <2>1. operations_failed_' \in Nat /\ operations_failed_' > 0 /\ errors' \in Nat /\ errors' > 0
    BY <1>3, <1>7
  <2>2. InventoryType'
    BY <1>1, <1>7, <2>1 DEF InventoryType, Inventorying
  <2>3. ServiceTruncates'
    BY <1>1, <1>2, <1>7 DEF ServiceTruncates
  <2>4. NothingLeftOut' /\ MarksHaveACause'
    BY <2>1 DEF NothingLeftOut, MarksHaveACause
  <2> QED
    BY <1>5, <2>2, <2>3, <2>4
<1> QED
  BY <1>4, <1>6, <1>7

LEMMA GetCharacteristicKeeps ==
  ASSUME InventoryInv, GetCharacteristic
  PROVE  InventoryInv'
<1> USE DEF InventoryInv
<1>1. /\ pc = "CHARACTERISTICS" /\ pc' = "DESCRIPTORS"
      /\ Len(services_) < Len(database) /\ Len(services_) < MaxServices
      /\ characteristic_total < MaxCharacteristics
      /\ characteristic_total' = characteristic_total + 1
      /\ Len(service.characteristics) < Len(AskedService.characteristics)
      /\ characteristic' = [AskedCharacteristic EXCEPT !.descriptors = <<>>]
      /\ UNCHANGED <<database, services_, service, included_service_total, descriptor_total,
                     operations_failed_, errors, uncounted>>
  BY DEF GetCharacteristic, ServiceTruncates, Inventorying, inputs, answers
<1>2. /\ AskedCharacteristic \in Characteristics /\ AskedCharacteristic.descriptors \in Seq(Descriptors)
      /\ AskedService' = AskedService /\ AskedCharacteristic' = AskedCharacteristic
  BY <1>1, AskedCharacteristicType DEF AskedService, AskedCharacteristic
<1>3. characteristic' \in Characteristics /\ characteristic'.descriptors = <<>>
  BY <1>1, <1>2, EmptySeq DEF Characteristics
<1>4. characteristic_total' \in 0 .. MaxCharacteristics
  BY <1>1, LimitAssumption DEF InventoryType
<1>5. InventoryType'
  BY <1>1, <1>3, <1>4 DEF InventoryType, Inventorying
<1>6. ServicesTruncate' /\ ServiceTruncates'
  BY <1>1, <1>2 DEF ServicesTruncate, ServiceTruncates, Inventorying
<1>7. CharacteristicTruncates(characteristic', AskedCharacteristic)
  BY <1>1, <1>2, <1>3, LenProperties DEF CharacteristicTruncates
<1>8. AskedCharacteristicTruncates'
  BY <1>1, <1>2, <1>7 DEF AskedCharacteristicTruncates
<1>9. NothingLeftOut'
  BY <1>1, <1>2 DEF NothingLeftOut, Whole, Inventorying
<1>10. MarksHaveACause'
  BY <1>1, LimitAssumption DEF MarksHaveACause, LimitReached, InventoryType, Inventorying
<1> QED
  BY <1>5, <1>6, <1>8, <1>9, <1>10

\* The characteristic whose descriptors are asked for is one of the peer's.
LEMMA CharacteristicTyped ==
  ASSUME InventoryInv, pc = "DESCRIPTORS"
  PROVE  /\ Len(services_) < Len(database) /\ Len(services_) < MaxServices
         /\ Len(service.characteristics) < Len(AskedService.characteristics)
         /\ AskedCharacteristic \in Characteristics
         /\ characteristic \in Characteristics
         /\ CharacteristicTruncates(characteristic, AskedCharacteristic)
<1> USE DEF InventoryInv
<1>1. /\ Len(services_) < Len(database) /\ Len(services_) < MaxServices
      /\ Len(service.characteristics) < Len(AskedService.characteristics)
      /\ CharacteristicTruncates(characteristic, AskedCharacteristic)
  BY DEF ServiceTruncates, AskedCharacteristicTruncates, Inventorying
<1>2. AskedCharacteristic \in Characteristics
  BY <1>1, AskedCharacteristicType
<1>3. characteristic.handle \in Handles
  BY <1>1, <1>2 DEF CharacteristicTruncates, Characteristics
<1>4. characteristic # NoCharacteristic
  <2>1. NoCharacteristic.handle = NoHandle
    BY DEF NoCharacteristic
  <2>2. NoHandle \notin Handles
    BY DatabaseAssumption
  <2> QED
    BY <2>1, <2>2, <1>3
<1> QED
  BY <1>1, <1>2, <1>4 DEF InventoryType

LEMMA GetDescriptorKeeps ==
  ASSUME InventoryInv, GetDescriptor
  PROVE  InventoryInv'
<1> DEFINE there == AskedCharacteristic
           n     == Len(characteristic.descriptors)
<1>1. /\ pc = "DESCRIPTORS" /\ pc' = pc
      /\ descriptor_total < MaxDescriptors /\ descriptor_total' = descriptor_total + 1
      /\ n < Len(there.descriptors)
      /\ characteristic' =
           [characteristic EXCEPT !.descriptors = Append(@, there.descriptors[n + 1])]
      /\ UNCHANGED <<database, services_, service, included_service_total, characteristic_total,
                     operations_failed_, errors, uncounted>>
  BY DEF GetDescriptor, AskedDescriptor, inputs, answers
<1>2. /\ there \in Characteristics /\ characteristic \in Characteristics
      /\ CharacteristicTruncates(characteristic, there)
      /\ AskedService' = AskedService /\ AskedCharacteristic' = there
  BY <1>1, CharacteristicTyped DEF AskedService, AskedCharacteristic
<1> HIDE DEF there
<1>3. there.descriptors \in Seq(Descriptors) /\ characteristic.descriptors \in Seq(Descriptors)
  BY <1>2 DEF Characteristics
<1>4. there.descriptors[n + 1] \in Descriptors
  BY <1>1, <1>3, LenProperties, ElementOfSeq
<1>5. /\ characteristic'.descriptors = Append(characteristic.descriptors, there.descriptors[n + 1])
      /\ characteristic'.descriptors \in Seq(Descriptors)
      /\ Len(characteristic'.descriptors) = n + 1
      /\ characteristic' = [characteristic EXCEPT !.descriptors = characteristic'.descriptors]
  BY <1>1, <1>2, <1>3, <1>4, AppendProperties DEF Characteristics
<1>6. \A k \in 1 .. n + 1 : characteristic'.descriptors[k] = there.descriptors[k]
  <2>1. \A k \in 1 .. n : characteristic.descriptors[k] = there.descriptors[k]
    BY <1>2, <1>3, LenProperties DEF CharacteristicTruncates
  <2> QED
    BY <2>1, <1>3, <1>4, <1>5, AppendProperties, LenProperties
<1>7. characteristic' \in Characteristics
  BY <1>2, <1>5 DEF Characteristics
<1>8. CharacteristicTruncates(characteristic', there)
  <2>1. characteristic' = [there EXCEPT !.descriptors = characteristic'.descriptors]
    BY <1>2, <1>5 DEF CharacteristicTruncates, Characteristics
  <2>2. DOMAIN characteristic'.descriptors = 1 .. n + 1 /\ n + 1 <= Len(there.descriptors)
    BY <1>1, <1>3, <1>5, LenProperties
  <2> QED
    BY <2>1, <2>2, <1>5, <1>6 DEF CharacteristicTruncates
<1>9. descriptor_total' \in 0 .. MaxDescriptors
  BY <1>1, LimitAssumption DEF InventoryInv, InventoryType
<1>10. InventoryType'
  BY <1>1, <1>7, <1>9 DEF InventoryInv, InventoryType, Inventorying
<1>11. ServicesTruncate' /\ ServiceTruncates'
  BY <1>1, <1>2 DEF InventoryInv, ServicesTruncate, ServiceTruncates
<1>12. AskedCharacteristicTruncates'
  BY <1>1, <1>2, <1>8 DEF InventoryInv, AskedCharacteristicTruncates, there
<1>13. NothingLeftOut'
  BY <1>1, <1>2 DEF InventoryInv, NothingLeftOut, Whole
<1>14. MarksHaveACause'
  BY <1>1, LimitAssumption
     DEF InventoryInv, MarksHaveACause, LimitReached, InventoryType, Inventorying
<1> QED
  BY <1>10, <1>11, <1>12, <1>13, <1>14 DEF InventoryInv

\* How a list ends: what is missing of it is marked, and the mark has a cause.
LEMMA EndCharacteristicKeeps ==
  ASSUME InventoryInv, EndCharacteristic
  PROVE  InventoryInv'
<1> DEFINE there == AskedCharacteristic
           cs    == service.characteristics
           full  == IF AtLimit(descriptor_total, MaxDescriptors) THEN 1 ELSE 0
<1>1. /\ pc = "DESCRIPTORS" /\ pc' = "CHARACTERISTICS"
      /\ service' = [service EXCEPT !.characteristics = Append(@, characteristic)]
      /\ UNCHANGED <<database, services_, characteristic, included_service_total,
                     characteristic_total, descriptor_total, uncounted>>
  BY DEF EndCharacteristic, inputs
<1>2. /\ Len(services_) < Len(database) /\ Len(services_) < MaxServices
      /\ Len(cs) < Len(AskedService.characteristics)
      /\ there \in Characteristics /\ characteristic \in Characteristics
      /\ CharacteristicTruncates(characteristic, there)
      /\ AskedService' = AskedService
  BY <1>1, CharacteristicTyped DEF AskedService
<1>3. /\ operations_failed_ \in Nat /\ errors \in Nat
      /\ descriptor_total \in Nat /\ MaxDescriptors \in Nat /\ descriptor_total <= MaxDescriptors
  <2>1. operations_failed_ \in Nat /\ errors \in Nat
    BY <1>1 DEF InventoryInv, InventoryType, Inventorying
  <2> QED
    BY <2>1, LimitAssumption DEF InventoryInv, InventoryType
<1>4. \/ /\ operations_failed_' = operations_failed_ + full /\ errors' = errors
         /\ descriptor_total >= MaxDescriptors
              \/ Len(characteristic.descriptors) = Len(there.descriptors)
      \/ operations_failed_' = operations_failed_ + 1 /\ errors' = errors + 1
  BY DEF EndCharacteristic, MarkDegraded, Error
<1>5. operations_failed_' \in Nat /\ errors' \in Nat
  BY <1>3, <1>4
<1>6. /\ cs \in Seq(Characteristics) /\ AskedService.characteristics \in Seq(Characteristics)
      /\ AskedService \in GattServices
  BY <1>2, ServiceTyped, AskedServiceType DEF InventoryInv
<1>7. /\ service' \in GattServices
      /\ service'.uuid = service.uuid /\ service'.included = service.included
      /\ service'.characteristics = Append(cs, characteristic)
      /\ service'.characteristics \in Seq(Characteristics)
      /\ Len(service'.characteristics) = Len(cs) + 1
      /\ DOMAIN service'.characteristics = 1 .. Len(cs) + 1
      /\ \A j \in 1 .. Len(cs) : service'.characteristics[j] = cs[j]
      /\ service'.characteristics[Len(cs) + 1] = characteristic
  <2>1. service \in GattServices
    BY DEF InventoryInv, InventoryType
  <2>2. Append(cs, characteristic) \in Seq(Characteristics)
    BY <1>2, <1>6, AppendProperties
  <2>3. /\ service' \in GattServices
        /\ service'.uuid = service.uuid /\ service'.included = service.included
        /\ service'.characteristics = Append(cs, characteristic)
    BY <1>1, <2>1, <2>2 DEF GattServices
  <2> QED
    BY <2>2, <2>3, <1>2, <1>6, AppendProperties, LenProperties
<1>8. InventoryType'
  BY <1>1, <1>5, <1>7 DEF InventoryInv, InventoryType, Inventorying
<1>9. ServicesTruncate' /\ AskedCharacteristicTruncates'
  BY <1>1 DEF InventoryInv, ServicesTruncate, AskedCharacteristicTruncates
<1>10. Truncates(service', AskedService)
  <2>1. Truncates(service, AskedService)
    BY <1>1 DEF InventoryInv, ServiceTruncates, Inventorying
  <2>2. \A j \in 1 .. Len(cs) + 1 :
          CharacteristicTruncates(service'.characteristics[j], AskedService.characteristics[j])
    <3>1. \A j \in 1 .. Len(cs) : CharacteristicTruncates(cs[j], AskedService.characteristics[j])
      BY <2>1, <1>6, LenProperties DEF Truncates
    <3>2. CharacteristicTruncates(characteristic, AskedService.characteristics[Len(cs) + 1])
      BY <1>2 DEF AskedCharacteristic
    <3>3. \A j \in 1 .. Len(cs) + 1 : j \in 1 .. Len(cs) \/ j = Len(cs) + 1
      BY <1>6, LenProperties
    <3> QED
      BY <3>1, <3>2, <3>3, <1>7
  <2>3. Len(service'.characteristics) <= Len(AskedService.characteristics)
    BY <1>2, <1>6, <1>7, LenProperties
  <2> QED
    BY <2>1, <2>2, <2>3, <1>7 DEF Truncates
<1>11. ServiceTruncates'
  BY <1>1, <1>2, <1>10 DEF ServiceTruncates
<1>12. NothingLeftOut'
  <2> SUFFICES ASSUME operations_failed_' = 0
               PROVE  /\ \A i \in DOMAIN services_ : Whole(services_[i], database[i])
                      /\ ~uncounted => service'.included = AskedService.included
                      /\ \A j \in 1 .. Len(cs) + 1 :
                           service'.characteristics[j] = AskedService.characteristics[j]
    BY <1>1, <1>2, <1>7 DEF NothingLeftOut, Whole, Inventorying
  <2>1. /\ operations_failed_ = 0 /\ full = 0
        /\ descriptor_total >= MaxDescriptors
              \/ Len(characteristic.descriptors) = Len(there.descriptors)
    BY <1>3, <1>4
  <2>2. ~AtLimit(descriptor_total, MaxDescriptors)
    BY <2>1
  <2>3. Len(characteristic.descriptors) = Len(there.descriptors)
    BY <2>1, <2>2, <1>3 DEF AtLimit
  <2>4. characteristic = AskedService.characteristics[Len(cs) + 1]
    BY <2>3, <1>2, WholeCharacteristic DEF AskedCharacteristic
  <2>5. /\ \A i \in DOMAIN services_ : Whole(services_[i], database[i])
        /\ ~uncounted => service.included = AskedService.included
        /\ \A j \in DOMAIN cs : cs[j] = AskedService.characteristics[j]
    BY <1>1, <2>1 DEF InventoryInv, NothingLeftOut
  <2>6. DOMAIN cs = 1 .. Len(cs) /\ \A j \in 1 .. Len(cs) + 1 : j \in 1 .. Len(cs) \/ j = Len(cs) + 1
    BY <1>6, LenProperties
  <2> QED
    BY <2>4, <2>5, <2>6, <1>7
<1>13. MarksHaveACause'
  <2> SUFFICES ASSUME operations_failed_' > 0 PROVE errors' > 0 \/ LimitReached'
    BY DEF MarksHaveACause
  <2>1. CASE errors' = errors + 1
    BY <2>1, <1>3
  <2>2. CASE errors' = errors /\ full = 1
    <3>1. AtLimit(descriptor_total, MaxDescriptors)
      BY <2>2
    <3> QED
      BY <3>1, <1>1, <1>3 DEF AtLimit, LimitReached
  <2>3. CASE errors' = errors /\ full = 0 /\ operations_failed_' = operations_failed_
    <3>1. errors > 0 \/ LimitReached
      BY <2>3, <1>1 DEF InventoryInv, MarksHaveACause, Inventorying
    <3> QED
      BY <3>1, <2>3, <1>1 DEF LimitReached
  <2>4. full \in {0, 1}
    OBVIOUS
  <2> QED
    BY <2>1, <2>2, <2>3, <2>4, <1>3, <1>4
<1> QED
  BY <1>8, <1>9, <1>11, <1>12, <1>13 DEF InventoryInv

LEMMA EndServiceKeeps ==
  ASSUME InventoryInv, EndService
  PROVE  InventoryInv'
<1> DEFINE there == AskedService
           n     == Len(services_)
           full  == IF AtLimit(characteristic_total, MaxCharacteristics) THEN 1 ELSE 0
<1>1. /\ pc = "CHARACTERISTICS" /\ pc' = "SERVICES"
      /\ services_' = Append(services_, service)
      /\ UNCHANGED <<database, service, characteristic, included_service_total,
                     characteristic_total, descriptor_total, uncounted>>
  BY DEF EndService, inputs
<1>2. n < Len(database) /\ n < MaxServices /\ Truncates(service, there)
  BY <1>1 DEF InventoryInv, ServiceTruncates, Inventorying
<1>3. /\ operations_failed_ \in Nat /\ errors \in Nat
      /\ characteristic_total \in Nat /\ MaxCharacteristics \in Nat
      /\ characteristic_total <= MaxCharacteristics
  <2>1. operations_failed_ \in Nat /\ errors \in Nat
    BY <1>1 DEF InventoryInv, InventoryType, Inventorying
  <2> QED
    BY <2>1, LimitAssumption DEF InventoryInv, InventoryType
<1>4. \/ /\ operations_failed_' = operations_failed_ + full /\ errors' = errors
         /\ characteristic_total >= MaxCharacteristics
              \/ Len(service.characteristics) = Len(there.characteristics)
      \/ operations_failed_' = operations_failed_ + 1 /\ errors' = errors + 1
  BY DEF EndService, MarkDegraded, Error
<1>5. operations_failed_' \in Nat /\ errors' \in Nat
  BY <1>3, <1>4
<1>6. /\ services_ \in Seq(GattServices) /\ service \in GattServices
      /\ database \in Seq(GattServices) /\ there \in GattServices
  BY <1>2, AskedServiceType, DatabaseAssumption DEF InventoryInv, InventoryType
<1>7. n \in Nat /\ DOMAIN services_ = 1 .. n /\ MaxServices \in Nat /\ Len(database) \in Nat
  BY <1>6, LenProperties, LimitAssumption
<1>8. /\ services_' \in Seq(GattServices)
      /\ Len(services_') = n + 1 /\ DOMAIN services_' = 1 .. n + 1
      /\ \A i \in 1 .. n : services_'[i] = services_[i]
      /\ services_'[n + 1] = service
  BY <1>1, <1>6, <1>7, AppendProperties, LenProperties
<1>9. \A i \in 1 .. n + 1 : i \in 1 .. n \/ i = n + 1
  BY <1>7
<1>10. Len(services_') <= MaxServices /\ Len(services_') <= Len(database)
  BY <1>2, <1>7, <1>8
<1>11. InventoryType'
  BY <1>1, <1>5, <1>8, <1>10 DEF InventoryInv, InventoryType, Inventorying
<1>12. ServicesTruncate'
  <2>1. \A i \in 1 .. n : Truncates(services_[i], database[i])
    BY <1>7 DEF InventoryInv, ServicesTruncate
  <2>2. Truncates(service, database[n + 1])
    BY <1>2 DEF AskedService
  <2> QED
    BY <2>1, <2>2, <1>1, <1>8, <1>9, <1>10 DEF ServicesTruncate
<1>13. ServiceTruncates' /\ AskedCharacteristicTruncates'
  BY <1>1 DEF ServiceTruncates, AskedCharacteristicTruncates
<1>14. NothingLeftOut'
  <2> SUFFICES ASSUME operations_failed_' = 0
               PROVE  \A i \in 1 .. n + 1 : Whole(services_'[i], database[i])
    BY <1>1, <1>8 DEF NothingLeftOut, Whole, Inventorying
  <2>1. /\ operations_failed_ = 0 /\ full = 0
        /\ characteristic_total >= MaxCharacteristics
              \/ Len(service.characteristics) = Len(there.characteristics)
    BY <1>3, <1>4
  <2>2. ~AtLimit(characteristic_total, MaxCharacteristics)
    BY <2>1
  <2>3. Len(service.characteristics) = Len(there.characteristics)
    BY <2>1, <2>2, <1>3 DEF AtLimit
  <2>4. /\ \A i \in 1 .. n : Whole(services_[i], database[i])
        /\ ~uncounted => service.included = there.included
        /\ \A j \in DOMAIN service.characteristics :
             service.characteristics[j] = there.characteristics[j]
    BY <1>1, <1>7, <2>1 DEF InventoryInv, NothingLeftOut
  <2>5. service.characteristics = there.characteristics
    BY <2>3, <2>4, <1>6, SeqEqual, LenProperties DEF GattServices
  <2>6. Whole(service, database[n + 1])
    BY <2>4, <2>5 DEF Whole, AskedService
  <2> QED
    BY <2>4, <2>6, <1>8, <1>9
<1>15. ~(n = MaxServices)
  <2>1. \A m, k \in Nat : m < k => ~(m = k)
    OBVIOUS
  <2> QED
    BY <2>1, <1>2, <1>7
<1>16. MarksHaveACause'
  <2> SUFFICES ASSUME operations_failed_' > 0 PROVE errors' > 0 \/ LimitReached'
    BY DEF MarksHaveACause
  <2>1. CASE errors' = errors + 1
    BY <2>1, <1>3
  <2>2. CASE errors' = errors /\ full = 1
    <3>1. AtLimit(characteristic_total, MaxCharacteristics)
      BY <2>2
    <3> QED
      BY <3>1, <1>1, <1>3 DEF AtLimit, LimitReached
  <2>3. CASE errors' = errors /\ full = 0 /\ operations_failed_' = operations_failed_
    <3>1. errors > 0 \/ LimitReached
      BY <2>3, <1>1 DEF InventoryInv, MarksHaveACause, Inventorying
    <3>2. ~(Len(services_) = MaxServices)
      BY <1>15
    <3>3. CASE errors > 0
      BY <3>3, <2>3
    <3>4. CASE LimitReached
      BY <3>4, <3>2, <1>1 DEF LimitReached
    <3> QED
      BY <3>1, <3>3, <3>4
  <2>4. full \in {0, 1}
    OBVIOUS
  <2> QED
    BY <2>1, <2>2, <2>3, <2>4, <1>3, <1>4
<1> QED
  BY <1>11, <1>12, <1>13, <1>14, <1>16 DEF InventoryInv

-----------------------------------------------------------------------------
(* What the planning functions call for, service by service and              *)
(* characteristic by characteristic.                                         *)

LEMMA FoundTypes ==
  ASSUME InventoryType, NEW i \in DOMAIN services_
  PROVE  /\ i \in 1 .. Len(services_) /\ i \in Nat /\ i - 1 \in Services /\ i - 1 \in Nat
         /\ services_[i] \in GattServices /\ services_[i].uuid \in ServiceUuids
         /\ services_[i].characteristics \in Seq(Characteristics)
<1>1. /\ services_ \in Seq(GattServices) /\ Len(services_) <= MaxServices /\ MaxServices \in Nat
      /\ 0 .. MaxServices - 1 \subseteq Services
  BY DatabaseAssumption, LimitAssumption DEF InventoryType
<1>2. i \in 1 .. Len(services_) /\ Len(services_) \in Nat
  BY <1>1, LenProperties
<1>3. services_[i] \in GattServices
  BY <1>1, <1>2, ElementOfSeq
<1>4. i - 1 \in 0 .. MaxServices - 1
  BY <1>1, <1>2
<1> QED
  BY <1>1, <1>2, <1>3, <1>4 DEF GattServices

LEMMA DescriptorsTyped ==
  ASSUME NEW c \in Characteristics
  PROVE  /\ c.descriptors \in Seq(Descriptors) /\ c.handle \in Handles
         /\ c.uuid \in CharacteristicUuids
         /\ \A d \in Range(c.descriptors) : d \in Descriptors
<1>1. c.descriptors \in Seq(Descriptors) /\ c.handle \in Handles /\ c.uuid \in CharacteristicUuids
  BY DEF Characteristics
<1>2. \A d \in Range(c.descriptors) : d \in Descriptors
  BY <1>1, ElementOfSeq, LenProperties DEF Range
<1> QED
  BY <1>1, <1>2

LEMMA OfUuidIs ==
  ASSUME NEW S, NEW list \in Seq(S), NEW uuids
  PROVE  /\ OfUuid(list, uuids) \in Seq(S)
         /\ \A a : a \in Range(OfUuid(list, uuids)) <=> a \in Range(list) /\ a.uuid \in uuids
         /\ \A key : AllDifferent(list, key) => AllDifferent(OfUuid(list, uuids), key)
<1> DEFINE lists == [k \in DOMAIN list |-> IF list[k].uuid \in uuids THEN <<list[k]>> ELSE <<>>]
<1>1. DOMAIN list = 1 .. Len(list) /\ Len(list) \in Nat /\ \A k \in DOMAIN list : list[k] \in S
  BY LenProperties
<1>2. \A k \in DOMAIN list : lists[k] \in Seq(S)
  BY <1>1, SingleSeq
<1>3. lists \in Seq(Seq(S)) /\ DOMAIN lists = DOMAIN list
  BY <1>1, <1>2
<1>4. ASSUME NEW k \in DOMAIN list
      PROVE  /\ list[k].uuid \in uuids =>
                  DOMAIN lists[k] = {1} /\ lists[k][1] = list[k] /\ Range(lists[k]) = {list[k]}
             /\ list[k].uuid \notin uuids => DOMAIN lists[k] = {} /\ Range(lists[k]) = {}
  BY <1>1, SingleSeq
<1>5. OfUuid(list, uuids) = FlattenSeq(lists)
  BY DEF OfUuid
<1> HIDE DEF lists
<1>6. FlattenSeq(lists) \in Seq(S) /\ Range(FlattenSeq(lists)) = UNION {Range(lists[k]) : k \in DOMAIN lists}
  BY <1>3, FlattenSeqType, FlattenRange
<1>7. ASSUME NEW a PROVE a \in Range(FlattenSeq(lists)) <=> a \in Range(list) /\ a.uuid \in uuids
  <2>1. a \in Range(FlattenSeq(lists)) <=> \E k \in DOMAIN list : a \in Range(lists[k])
    BY <1>3, <1>6
  <2>2. \A k \in DOMAIN list : a \in Range(lists[k]) <=> a = list[k] /\ list[k].uuid \in uuids
    BY <1>4
  <2> QED
    BY <2>1, <2>2 DEF Range
<1>8. ASSUME NEW key, AllDifferent(list, key)
      PROVE  AllDifferent(FlattenSeq(lists), key)
  <2>1. AllDifferentIn(lists, key)
    <3> SUFFICES ASSUME NEW i \in DOMAIN list, NEW j \in DOMAIN list,
                        NEW a \in DOMAIN lists[i], NEW b \in DOMAIN lists[j],
                        key[lists[i][a]] = key[lists[j][b]]
                 PROVE  i = j /\ a = b
      BY <1>3 DEF AllDifferentIn
    <3>1. a = 1 /\ b = 1 /\ lists[i][a] = list[i] /\ lists[j][b] = list[j]
      BY <1>4
    <3> QED
      BY <3>1, <1>8 DEF AllDifferent
  <2> QED
    BY <2>1, <1>3, FlattenDistinct
<1> QED
  BY <1>5, <1>6, <1>7, <1>8

HandleOfDescriptor == [d \in Descriptors |-> d.handle]
HandleOfRead == [r \in ReadOperations |-> r.handle]
HandleOfSubscription == [s \in Subscriptions |-> s.characteristic_handle]

\* A characteristic's attributes have different handles.
HandlesWithin(c) ==
  /\ \A d \in Range(c.descriptors) : d.handle # c.handle
  /\ AllDifferent(c.descriptors, HandleOfDescriptor)

\* The read of the characteristic itself, and those of its descriptors.
ReadsOwn(c, i) ==
  "READ" \in c.properties /\ (Purpose(i, c) # "GENERIC_FORENSIC" \/ discovery_mode_ = "FORENSIC")

ReadsDescriptor(d) == d.uuid \in (IF discovery_mode_ = "FORENSIC" THEN DescriptorUuids ELSE StandardDescriptors)

OwnRead(i, c) == ReadOperation(i, c, c.handle, Purpose(i, c))
DescriptorRead(i, c, d) == ReadOperation(i, c, d.handle, DescriptorPurpose(d))

LEMMA PurposesTyped ==
  ASSUME InventoryType, NEW i \in DOMAIN services_, NEW c \in Characteristics
  PROVE  /\ Purpose(i, c) \in Purposes
         /\ Purpose(i, c) = "BATTERY_LEVEL" => services_[i].uuid = "BATTERY"
         /\ \A d \in Descriptors : DescriptorPurpose(d) \in Purposes \ {"BATTERY_LEVEL", "HID_REPORT_MAP"}
<1>1. services_[i].uuid \in {"GAP", "GATT", "DIS", "BATTERY", "HID", "VENDOR"}
  BY FoundTypes DEF ServiceUuids, StandardReads
<1>2. NamedPurpose(c.uuid) \in Purposes
  BY DEF NamedPurpose, Purposes
<1>3. NamedPurpose(c.uuid) = "BATTERY_LEVEL" => c.uuid = "BATTERY_LEVEL"
  BY DEF NamedPurpose
<1>4. c.uuid = "BATTERY_LEVEL" /\ c.uuid \in StandardReads[services_[i].uuid] => services_[i].uuid = "BATTERY"
  BY <1>1 DEF StandardReads
<1>5. Purpose(i, c) \in Purposes
  BY <1>2 DEF Purpose, Purposes
<1>6. Purpose(i, c) = "BATTERY_LEVEL" => services_[i].uuid = "BATTERY"
  BY <1>3, <1>4 DEF Purpose
<1>7. \A d \in Descriptors : DescriptorPurpose(d) \in Purposes \ {"BATTERY_LEVEL", "HID_REPORT_MAP"}
  BY DEF DescriptorPurpose, Purposes, CheckedPurposes
<1> QED
  BY <1>5, <1>6, <1>7

LEMMA ReadOperationTyped ==
  ASSUME InventoryType, NEW i \in DOMAIN services_, NEW c \in Characteristics,
         NEW handle \in Handles, NEW purpose \in Purposes
  PROVE  /\ ReadOperation(i, c, handle, purpose) \in ReadOperations
         /\ ReadOperation(i, c, handle, purpose).handle = handle
         /\ ReadOperation(i, c, handle, purpose).characteristic_handle = c.handle
         /\ ReadOperation(i, c, handle, purpose).service_instance = i - 1
         /\ ReadOperation(i, c, handle, purpose).purpose = purpose
         /\ ReadOperation(i, c, handle, purpose).required = (purpose = "HID_REPORT_MAP")
BY FoundTypes, DescriptorsTyped DEF ReadOperation, ReadOperations

LEMMA WantedReadsIs ==
  ASSUME InventoryType, NEW i \in DOMAIN services_, NEW c \in Characteristics
  PROVE  /\ WantedReads(i, c) \in Seq(ReadOperations)
         /\ \A r : r \in Range(WantedReads(i, c)) <=>
              \/ ReadsOwn(c, i) /\ r = OwnRead(i, c)
              \/ \E d \in Range(c.descriptors) : ReadsDescriptor(d) /\ r = DescriptorRead(i, c, d)
         /\ HandlesWithin(c) => AllDifferent(WantedReads(i, c), HandleOfRead)
<1> DEFINE uuids == IF discovery_mode_ = "FORENSIC" THEN DescriptorUuids ELSE StandardDescriptors
           ds    == OfUuid(c.descriptors, uuids)
           own   == IF ReadsOwn(c, i) THEN <<OwnRead(i, c)>> ELSE <<>>
           rest  == [k \in DOMAIN ds |-> DescriptorRead(i, c, ds[k])]
<1>1. WantedReads(i, c) = own \o rest
  BY DEF WantedReads, ReadsOwn, OwnRead, DescriptorRead
<1>2. /\ ds \in Seq(Descriptors)
      /\ \A d : d \in Range(ds) <=> d \in Range(c.descriptors) /\ ReadsDescriptor(d)
      /\ AllDifferent(c.descriptors, HandleOfDescriptor) => AllDifferent(ds, HandleOfDescriptor)
  BY DescriptorsTyped, OfUuidIs DEF ReadsDescriptor
<1> HIDE DEF ds
<1>3. DOMAIN ds = 1 .. Len(ds) /\ Len(ds) \in Nat /\ \A k \in DOMAIN ds : ds[k] \in Descriptors /\ ds[k] \in Range(ds)
  BY <1>2, LenProperties DEF Range
<1>4. ASSUME NEW d \in Descriptors
      PROVE  DescriptorRead(i, c, d) \in ReadOperations /\ DescriptorRead(i, c, d).handle = d.handle
  <2>1. d.handle \in Handles
    BY DEF Descriptors
  <2> QED
    BY <2>1, ReadOperationTyped, PurposesTyped DEF DescriptorRead
<1>5. OwnRead(i, c) \in ReadOperations /\ OwnRead(i, c).handle = c.handle
  <2>1. Purpose(i, c) \in Purposes
    BY PurposesTyped
  <2> QED
    BY <2>1, ReadOperationTyped, DescriptorsTyped DEF OwnRead
<1>6. rest \in Seq(ReadOperations) /\ Len(rest) = Len(ds) /\ DOMAIN rest = DOMAIN ds
  BY <1>3, <1>4
<1>7. \A k \in DOMAIN ds : rest[k] = DescriptorRead(i, c, ds[k])
  OBVIOUS
<1> HIDE DEF rest
<1>8. /\ own \in Seq(ReadOperations)
      /\ ReadsOwn(c, i) => DOMAIN own = {1} /\ own[1] = OwnRead(i, c) /\ Range(own) = {OwnRead(i, c)}
      /\ ~ReadsOwn(c, i) => DOMAIN own = {} /\ Range(own) = {}
  BY <1>5, SingleSeq
<1> HIDE DEF own
<1>9. own \o rest \in Seq(ReadOperations) /\ Range(own \o rest) = Range(own) \cup Range(rest)
  BY <1>6, <1>8, ConcatProperties, RangeConcatenation
<1>10. ASSUME NEW r
       PROVE  r \in Range(own \o rest) <=>
                \/ ReadsOwn(c, i) /\ r = OwnRead(i, c)
                \/ \E d \in Range(c.descriptors) : ReadsDescriptor(d) /\ r = DescriptorRead(i, c, d)
  <2>1. r \in Range(rest) <=> \E k \in DOMAIN ds : r = DescriptorRead(i, c, ds[k])
    BY <1>6, <1>7 DEF Range
  <2>2. r \in Range(rest) <=> \E d \in Range(ds) : r = DescriptorRead(i, c, d)
    BY <2>1 DEF Range
  <2>3. r \in Range(own) <=> ReadsOwn(c, i) /\ r = OwnRead(i, c)
    BY <1>8
  <2> QED
    BY <1>2, <1>9, <2>2, <2>3
<1>11. ASSUME HandlesWithin(c) PROVE AllDifferent(own \o rest, HandleOfRead)
  <2>1. AllDifferent(ds, HandleOfDescriptor) /\ \A k \in DOMAIN ds : ds[k].handle # c.handle
    BY <1>2, <1>3, <1>11 DEF HandlesWithin
  <2> DEFINE l == Len(own)
  <2>2. /\ DOMAIN own = 1 .. l /\ l \in Nat
        /\ DOMAIN (own \o rest) = 1 .. l + Len(ds)
        /\ \A x \in 1 .. l : (own \o rest)[x] = own[x]
        /\ \A x \in 1 .. l + Len(ds) : x > l => x - l \in 1 .. Len(ds) /\ (own \o rest)[x] = rest[x - l]
    <3>1. PICK s, t : s = own /\ t = rest
      OBVIOUS
    <3>2. s \in Seq(ReadOperations) /\ t \in Seq(ReadOperations)
      BY <3>1, <1>6, <1>8
    <3>3. /\ DOMAIN s = 1 .. Len(s) /\ Len(s) \in Nat
          /\ DOMAIN (s \o t) = 1 .. Len(s) + Len(t)
          /\ \A x \in 1 .. Len(s) : (s \o t)[x] = s[x]
          /\ \A x \in 1 .. Len(s) + Len(t) : x > Len(s) => x - Len(s) \in 1 .. Len(t) /\ (s \o t)[x] = t[x - Len(s)]
      BY <3>2, ConcatIs
    <3> QED
      BY <3>1, <3>3, <1>6
  <2> HIDE DEF l
  <2>3. \A x \in 1 .. l : x = 1 /\ (own \o rest)[x] = OwnRead(i, c)
    BY <2>2, <1>8
  <2>4. \A x \in 1 .. l : HandleOfRead[(own \o rest)[x]] = c.handle
    BY <2>3, <1>5 DEF HandleOfRead
  <2>5. ASSUME NEW x \in 1 .. l + Len(ds), x > l
        PROVE  /\ x - l \in DOMAIN ds
               /\ HandleOfRead[(own \o rest)[x]] = HandleOfDescriptor[ds[x - l]]
               /\ HandleOfRead[(own \o rest)[x]] # c.handle
    <3>1. x - l \in DOMAIN ds /\ (own \o rest)[x] = DescriptorRead(i, c, ds[x - l])
      BY <2>2, <2>5, <1>3, <1>7
    <3>2. ds[x - l] \in Descriptors /\ ds[x - l].handle # c.handle
      BY <3>1, <2>1, <1>3
    <3> QED
      BY <3>1, <3>2, <1>4 DEF HandleOfRead, HandleOfDescriptor
  <2> SUFFICES ASSUME NEW x \in 1 .. l + Len(ds), NEW y \in 1 .. l + Len(ds),
                      HandleOfRead[(own \o rest)[x]] = HandleOfRead[(own \o rest)[y]]
               PROVE  x = y
    BY <2>2 DEF AllDifferent
  <2>6. l + Len(ds) \in Nat /\ (x <= l => x \in 1 .. l) /\ (y <= l => y \in 1 .. l)
    BY <2>2, <1>3
  <2>7. CASE x <= l /\ y <= l
    BY <2>3, <2>6, <2>7
  <2>8. CASE x <= l /\ y > l
    BY <2>4, <2>5, <2>6, <2>8
  <2>9. CASE x > l /\ y <= l
    BY <2>4, <2>5, <2>6, <2>9
  <2>10. CASE x > l /\ y > l
    <3>1. x - l = y - l
      BY <2>1, <2>5, <2>10 DEF AllDifferent
    <3> QED
      BY <3>1, <2>2, <2>6
  <2> QED
    BY <2>2, <2>7, <2>8, <2>9, <2>10, <2>6
<1> QED
  BY <1>1, <1>9, <1>10, <1>11

\* The handle of an attribute that was found: the characteristic's own at 0.
FoundHandle(i, j, k) ==
  LET c == services_[i].characteristics[j]
  IN  IF k = 0 THEN c.handle ELSE c.descriptors[k].handle

LEMMA FoundCharacteristic ==
  ASSUME InventoryType, ServicesTruncate, NEW i \in DOMAIN services_,
         NEW j \in DOMAIN services_[i].characteristics
  PROVE  /\ i \in DOMAIN database /\ j \in DOMAIN database[i].characteristics
         /\ services_[i].characteristics[j] \in Characteristics
         /\ database[i].characteristics[j] \in Characteristics
         /\ CharacteristicTruncates(services_[i].characteristics[j], database[i].characteristics[j])
         /\ database[i].uuid = services_[i].uuid
<1>1. database \in Seq(GattServices) /\ services_ \in Seq(GattServices)
  BY DatabaseAssumption DEF InventoryType
<1>2. i \in DOMAIN database /\ database[i] \in GattServices
  BY <1>1, LenProperties, ElementOfSeq DEF ServicesTruncate
<1>3. /\ services_[i].characteristics \in Seq(Characteristics)
      /\ database[i].characteristics \in Seq(Characteristics)
  BY <1>2, FoundTypes DEF GattServices
<1>4. Truncates(services_[i], database[i])
  BY DEF ServicesTruncate
<1>5. j \in DOMAIN database[i].characteristics
  BY <1>3, <1>4, LenProperties DEF Truncates
<1>6. services_[i].characteristics[j] \in Characteristics /\ database[i].characteristics[j] \in Characteristics
  BY <1>3, <1>5, LenProperties, ElementOfSeq
<1> QED
  BY <1>2, <1>4, <1>5, <1>6 DEF Truncates

LEMMA HandlesTell ==
  ASSUME InventoryType, ServicesTruncate, HandlesDiffer,
         NEW i \in DOMAIN services_, NEW j \in DOMAIN services_[i].characteristics,
         NEW k \in 0 .. Len(services_[i].characteristics[j].descriptors),
         NEW l \in DOMAIN services_, NEW m \in DOMAIN services_[l].characteristics,
         NEW n \in 0 .. Len(services_[l].characteristics[m].descriptors),
         FoundHandle(i, j, k) = FoundHandle(l, m, n)
  PROVE  i = l /\ j = m /\ k = n
<1>1. ASSUME NEW p \in DOMAIN services_, NEW q \in DOMAIN services_[p].characteristics,
             NEW t \in 0 .. Len(services_[p].characteristics[q].descriptors)
      PROVE  <<p, q, t>> \in Positions /\ HandleAt(<<p, q, t>>) = FoundHandle(p, q, t)
  <2> DEFINE c     == services_[p].characteristics[q]
             there == database[p].characteristics[q]
  <2>1. /\ p \in DOMAIN database /\ q \in DOMAIN database[p].characteristics
        /\ c \in Characteristics /\ CharacteristicTruncates(c, there)
    BY FoundCharacteristic
  <2>2. c.descriptors \in Seq(Descriptors)
    BY <2>1, DescriptorsTyped
  <2>3. c.handle = there.handle /\ Len(c.descriptors) <= Len(there.descriptors)
    <3>1. c = [there EXCEPT !.descriptors = c.descriptors]
      BY <2>1 DEF CharacteristicTruncates
    <3>2. there \in Characteristics
      BY FoundCharacteristic
    <3>3. c.handle = there.handle
      BY <3>1, <3>2 DEF Characteristics
    <3> QED
      BY <3>3, <2>1 DEF CharacteristicTruncates
  <2>4. t # 0 => c.descriptors[t] = there.descriptors[t]
    BY <2>1, <2>2, LenProperties DEF CharacteristicTruncates
  <2>5. t \in 0 .. Len(there.descriptors)
    <3>1. there.descriptors \in Seq(Descriptors)
      BY FoundCharacteristic, DescriptorsTyped
    <3> QED
      BY <2>2, <2>3, <3>1, LenProperties
  <2>6. <<p, q, t>> \in Positions
    BY <2>1, <2>5 DEF Positions
  <2>7. HandleAt(<<p, q, t>>) = FoundHandle(p, q, t)
    BY <2>3, <2>4 DEF HandleAt, FoundHandle
  <2> QED
    BY <2>6, <2>7
<1>2. <<i, j, k>> = <<l, m, n>>
  BY <1>1 DEF HandlesDiffer
<1> QED
  BY <1>2

LEMMA FoundHandlesWithin ==
  ASSUME InventoryType, ServicesTruncate, HandlesDiffer, NEW i \in DOMAIN services_,
         NEW j \in DOMAIN services_[i].characteristics
  PROVE  HandlesWithin(services_[i].characteristics[j])
<1> DEFINE c == services_[i].characteristics[j]
<1>1. c \in Characteristics /\ c.descriptors \in Seq(Descriptors)
  BY FoundCharacteristic, DescriptorsTyped
<1>2. DOMAIN c.descriptors = 1 .. Len(c.descriptors) /\ Len(c.descriptors) \in Nat
      /\ \A k \in DOMAIN c.descriptors : c.descriptors[k] \in Descriptors
  BY <1>1, LenProperties
<1>3. FoundHandle(i, j, 0) = c.handle /\ \A k \in DOMAIN c.descriptors : FoundHandle(i, j, k) = c.descriptors[k].handle
  BY <1>2 DEF FoundHandle
<1>4. 0 \in 0 .. Len(c.descriptors) /\ \A k \in DOMAIN c.descriptors : k \in 0 .. Len(c.descriptors) /\ k # 0
  BY <1>2
<1>5. ASSUME NEW k \in DOMAIN c.descriptors PROVE c.descriptors[k].handle # c.handle
  BY <1>3, <1>4, HandlesTell
<1>6. ASSUME NEW k \in DOMAIN c.descriptors, NEW m \in DOMAIN c.descriptors,
             c.descriptors[k].handle = c.descriptors[m].handle
      PROVE  k = m
  BY <1>3, <1>4, <1>6, HandlesTell
<1> QED
  BY <1>2, <1>5, <1>6 DEF HandlesWithin, Range, AllDifferent, HandleOfDescriptor

\* The subscription of a characteristic, if it is subscribed to.
Notifies(c) == c.properties \cap {"NOTIFY", "INDICATE"} # {}

Subscribes(i, c) ==
  Notifies(c) /\ (SubscriptionKind(i, c) # "FORENSIC" \/ discovery_mode_ = "FORENSIC")

Subscription(i, c) ==
  [characteristic_handle |-> c.handle, cccd_handle |-> Cccd(c), service_instance |-> i - 1,
   kind |-> SubscriptionKind(i, c), required |-> SubscriptionKind(i, c) = "HID"]

LEMMA CccdTyped ==
  ASSUME NEW c \in Characteristics
  PROVE  Cccd(c) \in Handles \cup {NoHandle}
<1> DEFINE cccds == OfUuid(c.descriptors, {"CCCD"})
<1>1. cccds \in Seq(Descriptors)
  BY DescriptorsTyped, OfUuidIs
<1>2. Cccd(c) = IF cccds = <<>> THEN NoHandle ELSE Head(cccds).handle
  BY DEF Cccd
<1> HIDE DEF cccds
<1>3. cccds # <<>> => Head(cccds) \in Descriptors
  BY <1>1, HeadTailProperties
<1>4. cccds # <<>> => Head(cccds).handle \in Handles
  BY <1>3 DEF Descriptors
<1> QED
  BY <1>2, <1>4

LEMMA SubscriptionTyped ==
  ASSUME InventoryType, NEW i \in DOMAIN services_, NEW c \in Characteristics
  PROVE  /\ Subscription(i, c) \in Subscriptions
         /\ Subscription(i, c).characteristic_handle = c.handle
         /\ Subscription(i, c).service_instance = i - 1
         /\ Subscription(i, c).kind = SubscriptionKind(i, c)
         /\ Subscription(i, c).required <=> Subscription(i, c).kind = "HID"
<1>1. SubscriptionKind(i, c) \in {"HID", "BATTERY", "SERVICE_CHANGED", "FORENSIC"}
  BY DEF SubscriptionKind
<1>2. Cccd(c) \in Handles \cup {NoHandle} /\ c.handle \in Handles /\ i - 1 \in Services
  BY CccdTyped, FoundTypes, DescriptorsTyped
<1> QED
  BY <1>1, <1>2 DEF Subscription, Subscriptions

LEMMA WantedSubscriptionsIs ==
  ASSUME InventoryType, NEW i \in DOMAIN services_, NEW c \in Characteristics
  PROVE  /\ WantedSubscriptions(i, c) \in Seq(Subscriptions)
         /\ DOMAIN WantedSubscriptions(i, c) \subseteq {1}
         /\ \A s : s \in Range(WantedSubscriptions(i, c)) <=> Subscribes(i, c) /\ s = Subscription(i, c)
<1>1. WantedSubscriptions(i, c) = IF Subscribes(i, c) THEN <<Subscription(i, c)>> ELSE <<>>
  BY DEF WantedSubscriptions, Subscribes, Notifies, Subscription
<1>2. Subscription(i, c) \in Subscriptions
  BY SubscriptionTyped
<1>3. PICK s : s = Subscription(i, c)
  OBVIOUS
<1>4. /\ <<s>> \in Seq(Subscriptions) /\ DOMAIN <<s>> = {1} /\ Range(<<s>>) = {s}
      /\ <<>> \in Seq(Subscriptions) /\ DOMAIN <<>> = {} /\ Range(<<>>) = {}
  BY <1>2, <1>3, SingleSeq
<1>5. CASE Subscribes(i, c)
  BY <1>1, <1>3, <1>4, <1>5
<1>6. CASE ~Subscribes(i, c)
  BY <1>1, <1>4, <1>6
<1> QED
  BY <1>5, <1>6

\* The plans' operations by service and characteristic.
ReadTable ==
  [i \in DOMAIN services_ |->
     [j \in DOMAIN services_[i].characteristics |-> WantedReads(i, services_[i].characteristics[j])]]

SubscriptionTable ==
  [i \in DOMAIN services_ |->
     [j \in DOMAIN services_[i].characteristics |->
        WantedSubscriptions(i, services_[i].characteristics[j])]]

Reads == OfServices(WantedReads)
SubscriptionsOf(i) == OfService(i, WantedSubscriptions)
AllSubscriptions == OfServices(WantedSubscriptions)

LEMMA TablesFlatten ==
  /\ Reads = FlattenTable(ReadTable)
  /\ AllSubscriptions = FlattenTable(SubscriptionTable)
  /\ \A i \in DOMAIN services_ : SubscriptionsOf(i) = FlattenSeq(SubscriptionTable[i])
<1>1. Reads = FlattenTable(ReadTable)
  BY DEF Reads, OfServices, OfService, FlattenTable, ReadTable
<1>2. AllSubscriptions = FlattenTable(SubscriptionTable)
  BY DEF AllSubscriptions, OfServices, OfService, FlattenTable, SubscriptionTable
<1>3. \A i \in DOMAIN services_ : SubscriptionsOf(i) = FlattenSeq(SubscriptionTable[i])
  BY DEF SubscriptionsOf, OfService, SubscriptionTable
<1> QED
  BY <1>1, <1>2, <1>3

LEMMA TablesTyped ==
  ASSUME InventoryType
  PROVE  /\ ReadTable \in Seq(Seq(Seq(ReadOperations)))
         /\ SubscriptionTable \in Seq(Seq(Seq(Subscriptions)))
         /\ DOMAIN ReadTable = DOMAIN services_ /\ DOMAIN SubscriptionTable = DOMAIN services_
         /\ \A i \in DOMAIN services_ :
              /\ DOMAIN ReadTable[i] = DOMAIN services_[i].characteristics
              /\ DOMAIN SubscriptionTable[i] = DOMAIN services_[i].characteristics
              /\ \A j \in DOMAIN services_[i].characteristics :
                   /\ services_[i].characteristics[j] \in Characteristics
                   /\ ReadTable[i][j] = WantedReads(i, services_[i].characteristics[j])
                   /\ SubscriptionTable[i][j] = WantedSubscriptions(i, services_[i].characteristics[j])
<1>1. DOMAIN services_ = 1 .. Len(services_) /\ Len(services_) \in Nat
  BY LenProperties DEF InventoryType
<1>2. /\ DOMAIN ReadTable = DOMAIN services_ /\ DOMAIN SubscriptionTable = DOMAIN services_
      /\ \A i \in DOMAIN services_ :
           /\ ReadTable[i] = [j \in DOMAIN services_[i].characteristics |->
                                WantedReads(i, services_[i].characteristics[j])]
           /\ SubscriptionTable[i] = [j \in DOMAIN services_[i].characteristics |->
                                        WantedSubscriptions(i, services_[i].characteristics[j])]
  BY DEF ReadTable, SubscriptionTable
<1>3. ASSUME NEW i \in DOMAIN services_
      PROVE  /\ DOMAIN services_[i].characteristics = 1 .. Len(services_[i].characteristics)
             /\ Len(services_[i].characteristics) \in Nat
             /\ \A j \in DOMAIN services_[i].characteristics : services_[i].characteristics[j] \in Characteristics
  BY FoundTypes, LenProperties, ElementOfSeq
<1>4. ASSUME NEW i \in DOMAIN services_
      PROVE  ReadTable[i] \in Seq(Seq(ReadOperations)) /\ SubscriptionTable[i] \in Seq(Seq(Subscriptions))
  <2>1. \A j \in DOMAIN services_[i].characteristics :
          /\ WantedReads(i, services_[i].characteristics[j]) \in Seq(ReadOperations)
          /\ WantedSubscriptions(i, services_[i].characteristics[j]) \in Seq(Subscriptions)
    BY <1>3, WantedReadsIs, WantedSubscriptionsIs
  <2> DEFINE n == Len(services_[i].characteristics)
             reads == [j \in 1 .. n |-> WantedReads(i, services_[i].characteristics[j])]
             subscriptions == [j \in 1 .. n |-> WantedSubscriptions(i, services_[i].characteristics[j])]
  <2>2. ReadTable[i] = reads /\ SubscriptionTable[i] = subscriptions
    BY <1>2, <1>3
  <2>3. n \in Nat /\ \A j \in 1 .. n : reads[j] \in Seq(ReadOperations) /\ subscriptions[j] \in Seq(Subscriptions)
    BY <2>1, <1>3
  <2>4. reads \in Seq(Seq(ReadOperations)) /\ subscriptions \in Seq(Seq(Subscriptions))
    <3> HIDE DEF n
    <3>1. \A j \in 1 .. n : /\ WantedReads(i, services_[i].characteristics[j]) \in Seq(ReadOperations)
                            /\ WantedSubscriptions(i, services_[i].characteristics[j]) \in Seq(Subscriptions)
      BY <2>3
    <3> QED
      BY <2>3, <3>1
  <2> QED
    BY <2>2, <2>4
<1>5. ReadTable \in Seq(Seq(Seq(ReadOperations)))
  <2>1. ReadTable = [i \in 1 .. Len(services_) |-> ReadTable[i]]
    BY <1>1, <1>2 DEF ReadTable
  <2> QED
    BY <2>1, <1>1, <1>4
<1>6. SubscriptionTable \in Seq(Seq(Seq(Subscriptions)))
  <2>1. SubscriptionTable = [i \in 1 .. Len(services_) |-> SubscriptionTable[i]]
    BY <1>1, <1>2 DEF SubscriptionTable
  <2> QED
    BY <2>1, <1>1, <1>4
<1> QED
  BY <1>2, <1>3, <1>5, <1>6

\* The plans' operations, as sets.
LEMMA ReadsAre ==
  ASSUME InventoryType
  PROVE  /\ Reads \in Seq(ReadOperations)
         /\ \A r : r \in Range(Reads) <=>
              \E i \in DOMAIN services_ : \E j \in DOMAIN services_[i].characteristics :
                r \in Range(WantedReads(i, services_[i].characteristics[j]))
<1>1. /\ FlattenTable(ReadTable) \in Seq(ReadOperations)
      /\ \A r : r \in Range(FlattenTable(ReadTable)) <=>
           \E i \in DOMAIN ReadTable : \E j \in DOMAIN ReadTable[i] : r \in Range(ReadTable[i][j])
  BY TablesTyped, FlattenTableIs
<1>2. Reads = FlattenTable(ReadTable)
  BY TablesFlatten
<1>3. ASSUME NEW r
      PROVE  r \in Range(Reads) <=>
               \E i \in DOMAIN services_ : \E j \in DOMAIN services_[i].characteristics :
                 r \in Range(WantedReads(i, services_[i].characteristics[j]))
  <2>1. r \in Range(Reads) <=>
          \E i \in DOMAIN services_ : \E j \in DOMAIN ReadTable[i] : r \in Range(ReadTable[i][j])
    BY <1>1, <1>2, TablesTyped
  <2>2. ASSUME NEW i \in DOMAIN services_
        PROVE  (\E j \in DOMAIN ReadTable[i] : r \in Range(ReadTable[i][j])) <=>
                 \E j \in DOMAIN services_[i].characteristics :
                   r \in Range(WantedReads(i, services_[i].characteristics[j]))
    BY TablesTyped
  <2> QED
    BY <2>1, <2>2
<1> QED
  BY <1>1, <1>2, <1>3

LEMMA SubscriptionsAre ==
  ASSUME InventoryType
  PROVE  /\ AllSubscriptions \in Seq(Subscriptions)
         /\ \A s : s \in Range(AllSubscriptions) <=>
              \E i \in DOMAIN services_ : \E j \in DOMAIN services_[i].characteristics :
                LET c == services_[i].characteristics[j]
                IN  Subscribes(i, c) /\ s = Subscription(i, c)
<1>1. /\ FlattenTable(SubscriptionTable) \in Seq(Subscriptions)
      /\ \A r : r \in Range(FlattenTable(SubscriptionTable)) <=>
           \E i \in DOMAIN SubscriptionTable : \E j \in DOMAIN SubscriptionTable[i] :
             r \in Range(SubscriptionTable[i][j])
  BY TablesTyped, FlattenTableIs
<1>2. AllSubscriptions = FlattenTable(SubscriptionTable)
  BY TablesFlatten
<1>3. ASSUME NEW s
      PROVE  s \in Range(AllSubscriptions) <=>
               \E i \in DOMAIN services_ : \E j \in DOMAIN services_[i].characteristics :
                 s \in Range(WantedSubscriptions(i, services_[i].characteristics[j]))
  <2>1. s \in Range(AllSubscriptions) <=>
          \E i \in DOMAIN services_ : \E j \in DOMAIN SubscriptionTable[i] :
            s \in Range(SubscriptionTable[i][j])
    BY <1>1, <1>2, TablesTyped
  <2>2. ASSUME NEW i \in DOMAIN services_
        PROVE  (\E j \in DOMAIN SubscriptionTable[i] : s \in Range(SubscriptionTable[i][j])) <=>
                 \E j \in DOMAIN services_[i].characteristics :
                   s \in Range(WantedSubscriptions(i, services_[i].characteristics[j]))
    BY TablesTyped
  <2> QED
    BY <2>1, <2>2
<1>4. ASSUME NEW s, NEW i \in DOMAIN services_, NEW j \in DOMAIN services_[i].characteristics
      PROVE  s \in Range(WantedSubscriptions(i, services_[i].characteristics[j])) <=>
               /\ Subscribes(i, services_[i].characteristics[j])
               /\ s = Subscription(i, services_[i].characteristics[j])
  BY TablesTyped, WantedSubscriptionsIs
<1>5. ASSUME NEW s
      PROVE  s \in Range(AllSubscriptions) <=>
               \E i \in DOMAIN services_ : \E j \in DOMAIN services_[i].characteristics :
                 LET c == services_[i].characteristics[j]
                 IN  Subscribes(i, c) /\ s = Subscription(i, c)
  <2>1. \A i \in DOMAIN services_ : \A j \in DOMAIN services_[i].characteristics :
          s \in Range(WantedSubscriptions(i, services_[i].characteristics[j])) <=>
               /\ Subscribes(i, services_[i].characteristics[j])
               /\ s = Subscription(i, services_[i].characteristics[j])
    BY <1>4
  <2> QED
    BY <1>3, <2>1
<1> QED
  BY <1>1, <1>2, <1>5

\* A read is of an attribute of the characteristic that called for it.
LEMMA ReadOfAttribute ==
  ASSUME InventoryType, NEW i \in DOMAIN services_, NEW j \in DOMAIN services_[i].characteristics,
         NEW r \in Range(WantedReads(i, services_[i].characteristics[j]))
  PROVE  /\ r \in ReadOperations /\ r.service_instance = i - 1
         /\ r.characteristic_handle = FoundHandle(i, j, 0)
         /\ \E n \in 0 .. Len(services_[i].characteristics[j].descriptors) : r.handle = FoundHandle(i, j, n)
         /\ r.purpose = "BATTERY_LEVEL" => services_[i].uuid = "BATTERY"
<1> DEFINE c == services_[i].characteristics[j]
<1>1. c \in Characteristics
  BY TablesTyped
<1>2. /\ c.descriptors \in Seq(Descriptors) /\ DOMAIN c.descriptors = 1 .. Len(c.descriptors)
      /\ Len(c.descriptors) \in Nat /\ c.handle \in Handles
  BY <1>1, DescriptorsTyped, LenProperties
<1>3. FoundHandle(i, j, 0) = c.handle /\ \A k \in DOMAIN c.descriptors : FoundHandle(i, j, k) = c.descriptors[k].handle
  BY <1>2 DEF FoundHandle
<1> HIDE DEF c
<1>4. \/ r = OwnRead(i, c)
      \/ \E d \in Range(c.descriptors) : r = DescriptorRead(i, c, d)
  BY <1>1, WantedReadsIs DEF c
<1>5. CASE r = OwnRead(i, c)
  <2>1. Purpose(i, c) \in Purposes /\ (Purpose(i, c) = "BATTERY_LEVEL" => services_[i].uuid = "BATTERY")
    BY <1>1, PurposesTyped
  <2>2. /\ r \in ReadOperations /\ r.service_instance = i - 1 /\ r.characteristic_handle = c.handle
        /\ r.handle = c.handle /\ r.purpose = Purpose(i, c)
    BY <1>1, <1>2, <1>5, <2>1, ReadOperationTyped DEF OwnRead
  <2>3. 0 \in 0 .. Len(c.descriptors)
    BY <1>2
  <2> QED
    BY <1>3, <2>1, <2>2, <2>3 DEF c
<1>6. CASE \E d \in Range(c.descriptors) : r = DescriptorRead(i, c, d)
  <2>1. PICK k \in DOMAIN c.descriptors : r = DescriptorRead(i, c, c.descriptors[k])
    BY <1>6 DEF Range
  <2> DEFINE d == c.descriptors[k]
  <2>2. d \in Descriptors
    BY <1>2
  <2>3. d.handle \in Handles /\ DescriptorPurpose(d) \in Purposes /\ DescriptorPurpose(d) # "BATTERY_LEVEL"
    BY <1>1, <2>2, PurposesTyped DEF Descriptors
  <2>4. /\ r \in ReadOperations /\ r.service_instance = i - 1 /\ r.characteristic_handle = c.handle
        /\ r.handle = d.handle /\ r.purpose = DescriptorPurpose(d)
    <3> HIDE DEF d
    <3> QED
      BY <1>1, <2>1, <2>3, ReadOperationTyped DEF DescriptorRead, d
  <2>5. k \in 0 .. Len(c.descriptors) /\ FoundHandle(i, j, k) = d.handle
    BY <1>2, <1>3
  <2> QED
    BY <1>3, <2>3, <2>4, <2>5 DEF c
<1> QED
  BY <1>4, <1>5, <1>6

\* No two operations of a plan are of the same handle, if the peer's handles differ.
LEMMA ReadsDiffer ==
  ASSUME InventoryType, ServicesTruncate, HandlesDiffer
  PROVE  AllDifferent(Reads, HandleOfRead)
<1>1. AllDifferentInTable(ReadTable, HandleOfRead)
  <2> SUFFICES ASSUME NEW i \in DOMAIN ReadTable, NEW k \in DOMAIN ReadTable,
                      NEW j \in DOMAIN ReadTable[i], NEW l \in DOMAIN ReadTable[k],
                      NEW a \in DOMAIN ReadTable[i][j], NEW b \in DOMAIN ReadTable[k][l],
                      HandleOfRead[ReadTable[i][j][a]] = HandleOfRead[ReadTable[k][l][b]]
               PROVE  i = k /\ j = l /\ a = b
    BY DEF AllDifferentInTable
  <2>0. /\ i \in DOMAIN services_ /\ k \in DOMAIN services_
        /\ j \in DOMAIN services_[i].characteristics /\ l \in DOMAIN services_[k].characteristics
    BY TablesTyped
  <2> DEFINE r == ReadTable[i][j][a]
             q == ReadTable[k][l][b]
  <2>1. /\ r \in Range(WantedReads(i, services_[i].characteristics[j]))
        /\ q \in Range(WantedReads(k, services_[k].characteristics[l]))
    BY <2>0, TablesTyped DEF Range
  <2>2. PICK m \in 0 .. Len(services_[i].characteristics[j].descriptors) :
          r \in ReadOperations /\ r.handle = FoundHandle(i, j, m)
    BY <2>0, <2>1, ReadOfAttribute
  <2>3. PICK n \in 0 .. Len(services_[k].characteristics[l].descriptors) :
          q \in ReadOperations /\ q.handle = FoundHandle(k, l, n)
    BY <2>0, <2>1, ReadOfAttribute
  <2>4. FoundHandle(i, j, m) = FoundHandle(k, l, n)
    BY <2>2, <2>3 DEF HandleOfRead
  <2>5. i = k /\ j = l
    BY <2>0, <2>4, HandlesTell
  <2>6. AllDifferent(ReadTable[i][j], HandleOfRead)
    BY <2>0, TablesTyped, WantedReadsIs, FoundHandlesWithin
  <2> QED
    BY <2>5, <2>6 DEF AllDifferent
<1> QED
  BY <1>1, TablesFlatten, TablesTyped, FlattenTableDistinct

LEMMA SubscriptionsDiffer ==
  ASSUME InventoryType, ServicesTruncate, HandlesDiffer
  PROVE  AllDifferent(AllSubscriptions, HandleOfSubscription)
<1>1. AllDifferentInTable(SubscriptionTable, HandleOfSubscription)
  <2> SUFFICES ASSUME NEW i \in DOMAIN SubscriptionTable, NEW k \in DOMAIN SubscriptionTable,
                      NEW j \in DOMAIN SubscriptionTable[i], NEW l \in DOMAIN SubscriptionTable[k],
                      NEW a \in DOMAIN SubscriptionTable[i][j], NEW b \in DOMAIN SubscriptionTable[k][l],
                      HandleOfSubscription[SubscriptionTable[i][j][a]] =
                        HandleOfSubscription[SubscriptionTable[k][l][b]]
               PROVE  i = k /\ j = l /\ a = b
    BY DEF AllDifferentInTable
  <2>0. /\ i \in DOMAIN services_ /\ k \in DOMAIN services_
        /\ j \in DOMAIN services_[i].characteristics /\ l \in DOMAIN services_[k].characteristics
    BY TablesTyped
  <2>1. ASSUME NEW p \in DOMAIN services_, NEW q \in DOMAIN services_[p].characteristics,
               NEW t \in DOMAIN SubscriptionTable[p][q]
        PROVE  t = 1 /\ HandleOfSubscription[SubscriptionTable[p][q][t]] = FoundHandle(p, q, 0)
    <3> DEFINE c == services_[p].characteristics[q]
               s == SubscriptionTable[p][q][t]
    <3>1. c \in Characteristics /\ SubscriptionTable[p][q] = WantedSubscriptions(p, c)
      BY TablesTyped
    <3>2. t = 1 /\ s \in Range(WantedSubscriptions(p, c))
      BY <3>1, WantedSubscriptionsIs DEF Range
    <3>3. s = Subscription(p, c)
      BY <3>1, <3>2, WantedSubscriptionsIs
    <3>4. s \in Subscriptions /\ s.characteristic_handle = c.handle
      BY <3>1, <3>3, SubscriptionTyped
    <3> QED
      BY <3>2, <3>4 DEF HandleOfSubscription, FoundHandle
  <2>2. /\ 0 \in 0 .. Len(services_[i].characteristics[j].descriptors)
        /\ 0 \in 0 .. Len(services_[k].characteristics[l].descriptors)
    <3>1. ASSUME NEW p \in DOMAIN services_, NEW q \in DOMAIN services_[p].characteristics
          PROVE  Len(services_[p].characteristics[q].descriptors) \in Nat
      BY TablesTyped, DescriptorsTyped, LenProperties
    <3> QED
      BY <2>0, <3>1
  <2>3. FoundHandle(i, j, 0) = FoundHandle(k, l, 0)
    BY <2>0, <2>1
  <2> QED
    BY <2>0, <2>1, <2>2, <2>3, HandlesTell
<1> QED
  BY <1>1, TablesFlatten, TablesTyped, FlattenTableDistinct

\* The plan of the reads, one read after the other.
ReadPlans == [queue : Seq(ReadOperations), refused : Nat]

IsReadPlan(g, reads, n) ==
  g = [k \in 0 .. n |-> IF k = 0 THEN NothingPlanned ELSE AddRead(g[k - 1], reads[k])]

LEMMA AddReadIs ==
  ASSUME NEW plan \in ReadPlans, NEW read \in ReadOperations
  PROVE  LET full    == Len(plan.queue) >= MaxReads
             planned == \E y \in DOMAIN plan.queue : plan.queue[y].handle = read.handle
         IN  /\ AddRead(plan, read) \in ReadPlans
             /\ planned => AddRead(plan, read) = plan
             /\ ~planned /\ full => /\ AddRead(plan, read).queue = plan.queue
                                    /\ AddRead(plan, read).refused = plan.refused + 1
             /\ ~planned /\ ~full => /\ AddRead(plan, read).queue = Append(plan.queue, read)
                                     /\ AddRead(plan, read).refused = plan.refused
<1> DEFINE planned == \E y \in DOMAIN plan.queue : plan.queue[y].handle = read.handle
<1>1. plan.queue \in Seq(ReadOperations) /\ plan.refused \in Nat
  BY DEF ReadPlans
<1>2. planned <=> read.handle \in {r.handle : r \in ToSet(plan.queue)}
  BY DEF ToSet
<1> HIDE DEF planned
<1>3. AddRead(plan, read) = IF planned THEN plan
                            ELSE IF Len(plan.queue) >= MaxReads THEN [plan EXCEPT !.refused = @ + 1]
                            ELSE [plan EXCEPT !.queue = Append(@, read)]
  BY <1>2 DEF AddRead
<1>4. Append(plan.queue, read) \in Seq(ReadOperations)
  BY <1>1, AppendProperties
<1>5. CASE planned
  BY <1>3, <1>5 DEF planned
<1>6. CASE ~planned /\ Len(plan.queue) >= MaxReads
  <2>1. AddRead(plan, read) = [plan EXCEPT !.refused = plan.refused + 1]
    BY <1>3, <1>6
  <2>2. plan.refused + 1 \in Nat
    BY <1>1
  <2> QED
    BY <1>6, <2>1, <2>2 DEF ReadPlans, planned
<1>7. CASE ~planned /\ ~(Len(plan.queue) >= MaxReads)
  <2>1. AddRead(plan, read) = [plan EXCEPT !.queue = Append(plan.queue, read)]
    BY <1>3, <1>7
  <2> QED
    BY <1>4, <1>7, <2>1 DEF ReadPlans, planned
<1> QED
  BY <1>5, <1>6, <1>7 DEF planned

LEMMA ReadPlanExists ==
  ASSUME NEW reads \in Seq(ReadOperations)
  PROVE  \E g : IsReadPlan(g, reads, Len(reads))
<1> DEFINE n == Len(reads)
           step == [k \in 1 .. n |-> [plan \in ReadPlans |-> AddRead(plan, reads[k])]]
<1>1. n \in Nat /\ \A k \in 1 .. n : reads[k] \in ReadOperations
  BY LenProperties
<1>2. NothingPlanned \in ReadPlans
  <2>1. <<>> \in Seq(ReadOperations)
    BY EmptySeq
  <2> QED
    BY <2>1 DEF NothingPlanned, ReadPlans
<1>3. step \in [1 .. n -> [ReadPlans -> ReadPlans]]
  <2>1. \A k \in 1 .. n : \A plan \in ReadPlans : AddRead(plan, reads[k]) \in ReadPlans
    BY <1>1, AddReadIs
  <2> HIDE DEF n
  <2> QED
    BY <2>1
<1>4. \A k \in 1 .. n : \A plan \in ReadPlans : step[k][plan] = AddRead(plan, reads[k])
  OBVIOUS
<1> HIDE DEF n, step
<1>5. PICK h \in [0 .. n -> ReadPlans] : h[0] = NothingPlanned /\ \A k \in 1 .. n : h[k] = step[k][h[k - 1]]
  <2>1. ASSUME NEW base \in ReadPlans, NEW last \in Nat, NEW by \in [1 .. last -> [ReadPlans -> ReadPlans]]
        PROVE  \E h \in [0 .. last -> ReadPlans] :
                 h[0] = base /\ \A k \in 1 .. last : h[k] = by[k][h[k - 1]]
    BY RecursionExists
  <2> QED
    BY <2>1, <1>1, <1>2, <1>3
<1>6. ASSUME NEW k \in 0 .. n
      PROVE  h[k] = IF k = 0 THEN NothingPlanned ELSE AddRead(h[k - 1], reads[k])
  <2>1. k # 0 => k \in 1 .. n /\ k - 1 \in 0 .. n
    BY <1>1
  <2> QED
    BY <2>1, <1>4, <1>5
<1>7. h = [k \in 0 .. n |-> IF k = 0 THEN NothingPlanned ELSE AddRead(h[k - 1], reads[k])]
  BY <1>5, <1>6
<1> QED
  BY <1>7 DEF IsReadPlan, n

LEMMA ReadPlanIs ==
  ASSUME InventoryType
  PROVE  \E g : IsReadPlan(g, Reads, Len(Reads)) /\ ReadPlan = g[Len(Reads)]
<1> DEFINE g == CHOOSE f : f = [k \in 0 .. Len(Reads) |->
                                 IF k = 0 THEN NothingPlanned ELSE AddRead(f[k - 1], Reads[k])]
<1>1. IsReadPlan(g, Reads, Len(Reads))
  BY ReadsAre, ReadPlanExists DEF IsReadPlan
<1>2. ReadPlan = g[Len(Reads)]
  BY DEF ReadPlan, Reads
<1> QED
  BY <1>1, <1>2

\* The reads planned fit the queue, none twice, and none is missing unless refused.
LEMMA ReadPlanSound ==
  ASSUME InventoryType
  PROVE  /\ ReadPlan \in ReadPlans /\ Len(ReadPlan.queue) <= MaxReads
         /\ \A x, y \in DOMAIN ReadPlan.queue : ReadPlan.queue[x].handle = ReadPlan.queue[y].handle => x = y
         /\ ReadPlan.refused = 0 =>
              \A r \in Range(Reads) : \E y \in DOMAIN ReadPlan.queue : ReadPlan.queue[y].handle = r.handle
<1> DEFINE n == Len(Reads)
<1>1. /\ Reads \in Seq(ReadOperations) /\ n \in Nat /\ DOMAIN Reads = 1 .. n
      /\ \A k \in 1 .. n : Reads[k] \in ReadOperations
  BY ReadsAre, LenProperties
<1>2. PICK g : IsReadPlan(g, Reads, n) /\ ReadPlan = g[n]
  BY ReadPlanIs
<1> HIDE DEF n
<1> DEFINE Planned(k, h) == \E y \in DOMAIN g[k].queue : g[k].queue[y].handle = h
           Fits(k)    == g[k] \in ReadPlans /\ Len(g[k].queue) <= MaxReads
           Once(k)    == \A x, y \in DOMAIN g[k].queue : g[k].queue[x].handle = g[k].queue[y].handle => x = y
           Misses(k)  == g[k].refused = 0 => \A x \in 1 .. k : Planned(k, Reads[x].handle)
           T          == {k \in Nat : k <= n => Fits(k) /\ Once(k) /\ Misses(k)}
<1>3. 0 \in T
  <2>1. g[0] = NothingPlanned
    BY <1>1, <1>2 DEF IsReadPlan
  <2>2. g[0].queue = <<>> /\ g[0].refused = 0
    BY <2>1 DEF NothingPlanned
  <2>3. g[0].queue \in Seq(ReadOperations) /\ Len(g[0].queue) = 0 /\ DOMAIN g[0].queue = {}
    BY <2>2, EmptySeq
  <2>4. Fits(0)
    BY <2>1, <2>2, <2>3, LimitAssumption DEF NothingPlanned, ReadPlans
  <2>5. Once(0) /\ Misses(0)
    BY <2>3
  <2> QED
    BY <2>4, <2>5
<1>4. ASSUME NEW k \in Nat, k \in T PROVE k + 1 \in T
  <2> SUFFICES ASSUME k + 1 <= n PROVE Fits(k + 1) /\ Once(k + 1) /\ Misses(k + 1)
    OBVIOUS
  <2> DEFINE read == Reads[k + 1]
  <2>1. k + 1 \in 1 .. n /\ k + 1 \in 0 .. n /\ k + 1 # 0 /\ (k + 1) - 1 = k /\ k <= n
    BY <1>1
  <2>2. Fits(k) /\ Once(k) /\ Misses(k)
    BY <1>4, <2>1
  <2>3. g[k + 1] = AddRead(g[k], read)
    BY <1>2, <2>1 DEF IsReadPlan
  <2>4. read \in ReadOperations
    BY <1>1, <2>1
  <2> HIDE DEF read
  <2>5. PICK q, w : q = g[k].queue /\ w = g[k + 1].queue
    OBVIOUS
  <2>6. /\ g[k + 1] \in ReadPlans /\ q \in Seq(ReadOperations) /\ w \in Seq(ReadOperations)
        /\ g[k].refused \in Nat /\ g[k + 1].refused \in Nat /\ Len(q) \in Nat /\ MaxReads \in Nat
        /\ DOMAIN q = 1 .. Len(q)
    <3>1. g[k + 1] \in ReadPlans
      BY <2>2, <2>3, <2>4, AddReadIs
    <3>2. q \in Seq(ReadOperations) /\ w \in Seq(ReadOperations)
      BY <2>2, <2>5, <3>1 DEF ReadPlans
    <3> QED
      BY <2>2, <3>1, <3>2, LenProperties, LimitAssumption DEF ReadPlans
  <2>7. \A x \in 1 .. k + 1 : x \in 1 .. k \/ x = k + 1
    OBVIOUS
  <2>8. CASE Planned(k, read.handle)
    <3>1. g[k + 1] = g[k]
      BY <2>2, <2>3, <2>4, <2>8, AddReadIs
    <3>2. Planned(k + 1, read.handle)
      BY <2>8, <3>1
    <3> QED
      BY <2>2, <2>7, <3>1, <3>2 DEF read
  <2>9. CASE ~Planned(k, read.handle) /\ Len(q) >= MaxReads
    <3>1. w = q /\ g[k + 1].refused = g[k].refused + 1
      BY <2>2, <2>3, <2>4, <2>5, <2>9, AddReadIs
    <3>2. g[k + 1].refused # 0
      BY <2>6, <3>1
    <3> QED
      BY <2>2, <2>5, <2>6, <3>1, <3>2
  <2>10. CASE ~Planned(k, read.handle) /\ ~(Len(q) >= MaxReads)
    <3>1. w = Append(q, read) /\ g[k + 1].refused = g[k].refused
      BY <2>2, <2>3, <2>4, <2>5, <2>10, AddReadIs
    <3>2. /\ Len(w) = Len(q) + 1 /\ DOMAIN w = 1 .. Len(q) + 1
          /\ \A x \in 1 .. Len(q) : w[x] = q[x]
          /\ w[Len(q) + 1] = read
      BY <2>4, <2>6, <3>1, AppendProperties, LenProperties
    <3>3. \A x \in 1 .. Len(q) + 1 : x \in 1 .. Len(q) \/ x = Len(q) + 1
      BY <2>6
    <3>4. Fits(k + 1)
      BY <2>5, <2>6, <2>10, <3>2
    <3>5. \A x \in 1 .. Len(q) : q[x].handle # read.handle
      BY <2>5, <2>6, <2>10
    <3>6. \A x, y \in 1 .. Len(q) : q[x].handle = q[y].handle => x = y
      BY <2>2, <2>5, <2>6
    <3>7. Once(k + 1)
      <4> SUFFICES ASSUME NEW x \in 1 .. Len(q) + 1, NEW y \in 1 .. Len(q) + 1, w[x].handle = w[y].handle
                   PROVE  x = y
        BY <2>5, <3>2
      <4>1. CASE x \in 1 .. Len(q) /\ y \in 1 .. Len(q)
        BY <4>1, <3>2, <3>6
      <4>2. CASE x = Len(q) + 1 /\ y \in 1 .. Len(q)
        BY <4>2, <3>2, <3>5
      <4>3. CASE x \in 1 .. Len(q) /\ y = Len(q) + 1
        BY <4>3, <3>2, <3>5
      <4> QED
        BY <4>1, <4>2, <4>3, <3>3
    <3>8. Misses(k + 1)
      <4> SUFFICES ASSUME g[k + 1].refused = 0, NEW x \in 1 .. k + 1
                   PROVE  \E y \in DOMAIN w : w[y].handle = Reads[x].handle
        BY <2>5
      <4>1. CASE x \in 1 .. k
        <5>1. PICK y \in 1 .. Len(q) : q[y].handle = Reads[x].handle
          BY <2>2, <2>5, <2>6, <3>1, <4>1
        <5>2. y \in DOMAIN w /\ w[y] = q[y]
          BY <2>6, <3>2, <3>3
        <5> QED
          BY <5>1, <5>2
      <4>2. CASE x = k + 1
        <5>1. Len(q) + 1 \in DOMAIN w
          BY <2>6, <3>2
        <5> QED
          BY <5>1, <4>2, <3>2 DEF read
      <4> QED
        BY <4>1, <4>2, <2>7
    <3> QED
      BY <3>4, <3>7, <3>8
  <2> QED
    BY <2>8, <2>9, <2>10
<1>5. n \in T
  <2> HIDE DEF T
  <2> QED
    BY <1>1, <1>3, <1>4, Induction
<1>6. Fits(n) /\ Once(n) /\ Misses(n)
  <2>1. n <= n
    BY <1>1
  <2> HIDE DEF Fits, Once, Misses
  <2> QED
    BY <1>5, <2>1
<1>7. \A r \in Range(Reads) : \E x \in 1 .. n : r = Reads[x]
  BY <1>1 DEF Range
<1> QED
  BY <1>2, <1>6, <1>7

\* If the handles differ, the reads planned are the first of those called for.
LEMMA ReadPlanCut ==
  ASSUME InventoryType, ServicesTruncate, HandlesDiffer
  PROVE  /\ Min2(MaxReads, Len(Reads)) \in 0 .. Len(Reads)
         /\ ReadPlan.queue = SubSeq(Reads, 1, Min2(MaxReads, Len(Reads)))
         /\ ReadPlan.refused = Len(Reads) - Min2(MaxReads, Len(Reads))
<1> DEFINE n == Len(Reads)
<1>1. /\ Reads \in Seq(ReadOperations) /\ n \in Nat /\ DOMAIN Reads = 1 .. n
      /\ \A k \in 1 .. n : Reads[k] \in ReadOperations
  BY ReadsAre, LenProperties
<1>2. PICK g : IsReadPlan(g, Reads, n) /\ ReadPlan = g[n]
  BY ReadPlanIs
<1>3. \A x, y \in 1 .. n : Reads[x].handle = Reads[y].handle => x = y
  BY <1>1, ReadsDiffer DEF AllDifferent, HandleOfRead
<1>4. MaxReads \in Nat
  BY LimitAssumption
<1> HIDE DEF n
<1> DEFINE Cut(k) == /\ g[k] \in ReadPlans
                     /\ Len(g[k].queue) = (IF k <= MaxReads THEN k ELSE MaxReads)
                     /\ g[k].refused = k - (IF k <= MaxReads THEN k ELSE MaxReads)
                     /\ \A x \in DOMAIN g[k].queue : x <= k /\ g[k].queue[x] = Reads[x]
           T      == {k \in Nat : k <= n => Cut(k)}
<1>5. 0 \in T
  <2>1. g[0] = NothingPlanned
    BY <1>1, <1>2 DEF IsReadPlan
  <2>2. g[0].queue = <<>> /\ g[0].refused = 0
    BY <2>1 DEF NothingPlanned
  <2>3. g[0].queue \in Seq(ReadOperations) /\ Len(g[0].queue) = 0 /\ DOMAIN g[0].queue = {}
    BY <2>2, EmptySeq
  <2>4. g[0] \in ReadPlans
    BY <2>1, <2>2, <2>3 DEF NothingPlanned, ReadPlans
  <2> QED
    BY <2>2, <2>3, <2>4, <1>4
<1>6. ASSUME NEW k \in Nat, k \in T PROVE k + 1 \in T
  <2> SUFFICES ASSUME k + 1 <= n PROVE Cut(k + 1)
    OBVIOUS
  <2> DEFINE read == Reads[k + 1]
  <2>1. k + 1 \in 1 .. n /\ k + 1 \in 0 .. n /\ k + 1 # 0 /\ (k + 1) - 1 = k /\ k <= n
    BY <1>1
  <2>2. Cut(k)
    BY <1>6, <2>1
  <2>3. g[k + 1] = AddRead(g[k], read)
    BY <1>2, <2>1 DEF IsReadPlan
  <2>4. read \in ReadOperations
    BY <1>1, <2>1
  <2> HIDE DEF read
  <2>5. PICK q, w : q = g[k].queue /\ w = g[k + 1].queue
    OBVIOUS
  <2>6. /\ g[k + 1] \in ReadPlans /\ q \in Seq(ReadOperations) /\ DOMAIN q = 1 .. Len(q) /\ Len(q) \in Nat
    <3>1. g[k + 1] \in ReadPlans
      BY <2>2, <2>3, <2>4, AddReadIs
    <3>2. q \in Seq(ReadOperations)
      BY <2>2, <2>5 DEF ReadPlans
    <3> QED
      BY <3>1, <3>2, LenProperties
  <2>7. ~\E y \in DOMAIN q : q[y].handle = read.handle
    <3> SUFFICES ASSUME NEW y \in DOMAIN q, q[y].handle = read.handle PROVE FALSE
      OBVIOUS
    <3>1. y <= k /\ q[y] = Reads[y]
      BY <2>2, <2>5
    <3>2. y \in 1 .. n /\ y # k + 1
      BY <2>1, <2>6, <3>1, <1>1
    <3> QED
      BY <1>3, <2>1, <3>1, <3>2 DEF read
  <2>8. CASE Len(q) >= MaxReads
    <3>1. w = q /\ g[k + 1].refused = g[k].refused + 1
      BY <2>2, <2>3, <2>4, <2>5, <2>7, <2>8, AddReadIs
    <3>2. k >= MaxReads /\ (k <= MaxReads => k = MaxReads)
      BY <2>2, <2>5, <2>8, <1>4
    <3>3. Len(q) = MaxReads /\ g[k].refused = k - MaxReads
      BY <2>2, <2>5, <3>2
    <3>4. ~(k + 1 <= MaxReads) /\ (k - MaxReads) + 1 = (k + 1) - MaxReads
      BY <3>2, <1>4
    <3>5. \A x \in DOMAIN w : x <= k + 1 /\ w[x] = Reads[x]
      <4>1. \A x \in 1 .. Len(q) : x <= k => x <= k + 1
        BY <2>6
      <4> QED
        BY <2>2, <2>5, <2>6, <3>1, <4>1
    <3> QED
      BY <2>5, <2>6, <3>1, <3>3, <3>4, <3>5
  <2>9. CASE ~(Len(q) >= MaxReads)
    <3>1. w = Append(q, read) /\ g[k + 1].refused = g[k].refused
      BY <2>2, <2>3, <2>4, <2>5, <2>7, <2>9, AddReadIs
    <3>2. /\ Len(w) = Len(q) + 1 /\ DOMAIN w = 1 .. Len(q) + 1
          /\ \A x \in 1 .. Len(q) : w[x] = q[x]
          /\ w[Len(q) + 1] = read
      BY <2>4, <2>6, <3>1, AppendProperties, LenProperties
    <3>3. k < MaxReads /\ k <= MaxReads /\ k + 1 <= MaxReads /\ Len(q) = k /\ g[k].refused = k - k
      BY <2>2, <2>5, <2>6, <2>9, <1>4
    <3>4. g[k + 1].refused = (k + 1) - (k + 1)
      BY <3>1, <3>3
    <3>5. \A x \in DOMAIN w : x <= k + 1 /\ w[x] = Reads[x]
      <4>1. \A x \in 1 .. k + 1 : x <= k + 1 /\ (x \in 1 .. k \/ x = k + 1)
        OBVIOUS
      <4> QED
        BY <2>2, <2>5, <2>6, <3>2, <3>3, <4>1 DEF read
    <3> QED
      BY <2>5, <2>6, <3>2, <3>3, <3>4, <3>5
  <2> QED
    BY <2>8, <2>9
<1>7. n \in T
  <2> HIDE DEF T
  <2> QED
    BY <1>1, <1>5, <1>6, Induction
<1>8. Cut(n)
  <2>1. n <= n
    BY <1>1
  <2> HIDE DEF Cut
  <2> QED
    BY <1>7, <2>1
<1> DEFINE m == Min2(MaxReads, n)
<1>9. m = (IF n <= MaxReads THEN n ELSE MaxReads) /\ m \in 0 .. n
  BY <1>1, <1>4 DEF Min2
<1> HIDE DEF m
<1>10. ReadPlan.queue \in Seq(ReadOperations) /\ Len(ReadPlan.queue) = m /\ ReadPlan.refused = n - m
  BY <1>2, <1>8, <1>9 DEF ReadPlans
<1>11. \A x \in 1 .. m : ReadPlan.queue[x] = Reads[x]
  <2>1. DOMAIN ReadPlan.queue = 1 .. m
    BY <1>10, LenProperties
  <2> QED
    BY <1>2, <1>8, <2>1
<1>12. ReadPlan.queue = SubSeq(Reads, 1, m)
  BY <1>1, <1>9, <1>10, <1>11, FirstOf DEF n
<1> QED
  BY <1>9, <1>10, <1>12 DEF n, m

\* The plan of the subscriptions, one service after the other.
SubscriptionPlans ==
  {plan \in [queue : Seq(Subscriptions), refused : Nat] : Len(plan.queue) <= MaxSubscriptions}

IsSubscriptionPlan(g, n) ==
  g = [i \in 0 .. n |-> IF i = 0 THEN NothingPlanned ELSE AddSubscriptions(g[i - 1], i)]

LEMMA SubscriptionsOfIs ==
  ASSUME InventoryType, NEW i \in DOMAIN services_
  PROVE  /\ SubscriptionsOf(i) \in Seq(Subscriptions)
         /\ \A x \in DOMAIN SubscriptionsOf(i) : SubscriptionsOf(i)[x].service_instance = i - 1
<1>1. SubscriptionsOf(i) = FlattenSeq(SubscriptionTable[i])
  BY TablesFlatten
<1>2. /\ SubscriptionTable[i] \in Seq(Seq(Subscriptions))
      /\ DOMAIN SubscriptionTable[i] = DOMAIN services_[i].characteristics
  BY TablesTyped, LenProperties, ElementOfSeq
<1>3. FlattenSeq(SubscriptionTable[i]) \in Seq(Subscriptions)
  BY <1>2, FlattenSeqType
<1>4. ASSUME NEW s \in Range(FlattenSeq(SubscriptionTable[i]))
      PROVE  s.service_instance = i - 1
  <2>1. PICK j \in DOMAIN services_[i].characteristics : s \in Range(SubscriptionTable[i][j])
    BY <1>2, FlattenRange
  <2>2. s = Subscription(i, services_[i].characteristics[j])
    BY <2>1, TablesTyped, WantedSubscriptionsIs
  <2> QED
    BY <2>2, TablesTyped, SubscriptionTyped
<1>5. \A x \in DOMAIN FlattenSeq(SubscriptionTable[i]) :
        FlattenSeq(SubscriptionTable[i])[x] \in Range(FlattenSeq(SubscriptionTable[i]))
  BY DEF Range
<1> QED
  BY <1>1, <1>3, <1>4, <1>5

LEMMA AddSubscriptionsIs ==
  ASSUME InventoryType, NEW i \in DOMAIN services_, NEW plan \in SubscriptionPlans
  PROVE  \E room \in Nat :
           /\ room = Min2(Len(SubscriptionsOf(i)), MaxSubscriptions - Len(plan.queue))
           /\ room <= Len(SubscriptionsOf(i)) /\ room <= MaxSubscriptions - Len(plan.queue)
           /\ AddSubscriptions(plan, i) \in SubscriptionPlans
           /\ Len(AddSubscriptions(plan, i).queue) = Len(plan.queue) + room
           /\ DOMAIN plan.queue = 1 .. Len(plan.queue)
           /\ DOMAIN AddSubscriptions(plan, i).queue = 1 .. Len(plan.queue) + room
           /\ \A x \in 1 .. Len(plan.queue) : AddSubscriptions(plan, i).queue[x] = plan.queue[x]
           /\ \A x \in 1 .. Len(plan.queue) + room :
                x > Len(plan.queue) =>
                  /\ x - Len(plan.queue) \in 1 .. Len(SubscriptionsOf(i))
                  /\ AddSubscriptions(plan, i).queue[x] = SubscriptionsOf(i)[x - Len(plan.queue)]
           /\ AddSubscriptions(plan, i).refused =
                plan.refused + (IF room < Len(SubscriptionsOf(i)) THEN 1 ELSE 0)
<1>1. PICK w : w = SubscriptionsOf(i)
  OBVIOUS
<1>2. w \in Seq(Subscriptions) /\ Len(w) \in Nat /\ DOMAIN w = 1 .. Len(w) /\ \A x \in 1 .. Len(w) : w[x] \in Subscriptions
  BY <1>1, SubscriptionsOfIs, LenProperties, ElementOfSeq
<1>3. PICK q : q = plan.queue
  OBVIOUS
<1>4. /\ q \in Seq(Subscriptions) /\ Len(q) \in Nat /\ Len(q) <= MaxSubscriptions
      /\ plan.refused \in Nat /\ MaxSubscriptions \in Nat /\ DOMAIN q = 1 .. Len(q)
  BY <1>3, LimitAssumption, LenProperties DEF SubscriptionPlans
<1> DEFINE room == Min2(Len(w), MaxSubscriptions - Len(q))
           add  == IF room < Len(w) THEN 1 ELSE 0
           cut  == SubSeq(w, 1, room)
<1>5. AddSubscriptions(plan, i) = [queue |-> q \o cut, refused |-> plan.refused + add]
  BY <1>1, <1>3 DEF AddSubscriptions, SubscriptionsOf
<1>6. room \in Nat /\ room <= Len(w) /\ room <= MaxSubscriptions - Len(q) /\ Len(q) + room <= MaxSubscriptions
  BY <1>2, <1>4 DEF Min2
<1>7. add \in Nat
  OBVIOUS
<1> HIDE DEF room, add
<1>8. cut \in Seq(Subscriptions) /\ Len(cut) = room /\ \A x \in 1 .. room : cut[x] = w[x]
  <2>1. 1 \in Int /\ room \in Int /\ \A x \in 1 .. room : w[x] \in Subscriptions
    BY <1>2, <1>6
  <2>2. /\ cut \in Seq(Subscriptions)
        /\ Len(cut) = (IF 1 <= room THEN room - 1 + 1 ELSE 0)
        /\ \A x \in 1 .. room - 1 + 1 : cut[x] = w[1 + x - 1]
    BY <2>1, SubSeqProperties
  <2>3. /\ (IF 1 <= room THEN room - 1 + 1 ELSE 0) = room /\ room - 1 + 1 = room
        /\ \A x \in 1 .. room : 1 + x - 1 = x
    BY <1>6
  <2> HIDE DEF cut
  <2> QED
    BY <2>2, <2>3
<1> HIDE DEF cut
<1>9. /\ q \o cut \in Seq(Subscriptions) /\ Len(q \o cut) = Len(q) + room
      /\ DOMAIN (q \o cut) = 1 .. Len(q) + room
      /\ \A x \in 1 .. Len(q) : (q \o cut)[x] = q[x]
      /\ \A x \in 1 .. Len(q) + room :
           x > Len(q) => x - Len(q) \in 1 .. room /\ (q \o cut)[x] = cut[x - Len(q)]
  <2>1. PICK t : t = cut
    OBVIOUS
  <2>2. t \in Seq(Subscriptions) /\ Len(t) = room
    BY <2>1, <1>8
  <2>3. ASSUME NEW S, NEW a \in Seq(S), NEW b \in Seq(S)
        PROVE  /\ a \o b \in Seq(S) /\ DOMAIN b = 1 .. Len(b)
               /\ Len(a \o b) = Len(a) + Len(b) /\ DOMAIN (a \o b) = 1 .. Len(a) + Len(b)
               /\ \A x \in 1 .. Len(a) : (a \o b)[x] = a[x]
               /\ \A x \in 1 .. Len(a) + Len(b) :
                    x > Len(a) => x - Len(a) \in 1 .. Len(b) /\ (a \o b)[x] = b[x - Len(a)]
    BY ConcatIs
  <2>4. q \in Seq(Subscriptions)
    BY <1>4
  <2>5. /\ q \o t \in Seq(Subscriptions)
        /\ Len(q \o t) = Len(q) + Len(t) /\ DOMAIN (q \o t) = 1 .. Len(q) + Len(t)
        /\ \A x \in 1 .. Len(q) : (q \o t)[x] = q[x]
        /\ \A x \in 1 .. Len(q) + Len(t) :
             x > Len(q) => x - Len(q) \in 1 .. Len(t) /\ (q \o t)[x] = t[x - Len(q)]
    BY <2>2, <2>3, <2>4
  <2> QED
    BY <2>1, <2>2, <2>5
<1>10. \A x \in 1 .. Len(q) + room : x > Len(q) => x - Len(q) \in 1 .. Len(w) /\ (q \o cut)[x] = w[x - Len(q)]
  <2>1. \A y \in 1 .. room : y \in 1 .. Len(w)
    BY <1>2, <1>6
  <2> QED
    BY <2>1, <1>8, <1>9
<1>11. AddSubscriptions(plan, i) \in SubscriptionPlans
  BY <1>4, <1>5, <1>6, <1>7, <1>9 DEF SubscriptionPlans
<1>12. /\ AddSubscriptions(plan, i).queue = q \o cut
       /\ AddSubscriptions(plan, i).refused = plan.refused + add
  BY <1>5
<1>13. PICK next, m : next = AddSubscriptions(plan, i) /\ m = room
  OBVIOUS
<1>14. m = Min2(Len(w), MaxSubscriptions - Len(q)) /\ next.refused = plan.refused + (IF m < Len(w) THEN 1 ELSE 0)
  BY <1>12, <1>13 DEF room, add
<1>15. /\ m \in Nat /\ m <= Len(w) /\ m <= MaxSubscriptions - Len(q)
       /\ next \in SubscriptionPlans /\ Len(next.queue) = Len(q) + m
       /\ DOMAIN q = 1 .. Len(q) /\ DOMAIN next.queue = 1 .. Len(q) + m
       /\ \A x \in 1 .. Len(q) : next.queue[x] = q[x]
       /\ \A x \in 1 .. Len(q) + m :
            x > Len(q) => x - Len(q) \in 1 .. Len(w) /\ next.queue[x] = w[x - Len(q)]
  BY <1>4, <1>6, <1>9, <1>10, <1>11, <1>12, <1>13
<1> QED
  BY <1>1, <1>3, <1>13, <1>14, <1>15

LEMMA SubscriptionPlanIs ==
  ASSUME InventoryType
  PROVE  \E g : IsSubscriptionPlan(g, Len(services_)) /\ SubscriptionPlan = g[Len(services_)]
<1> DEFINE n == Len(services_)
           step == [k \in 1 .. n |-> [plan \in SubscriptionPlans |-> AddSubscriptions(plan, k)]]
<1>1. n \in Nat /\ DOMAIN services_ = 1 .. n
  BY LenProperties DEF InventoryType
<1>2. NothingPlanned \in SubscriptionPlans
  <2>1. PICK empty : empty = <<>>
    OBVIOUS
  <2>2. empty \in Seq(Subscriptions) /\ Len(empty) = 0
    BY <2>1, EmptySeq
  <2>3. NothingPlanned = [queue |-> empty, refused |-> 0] /\ NothingPlanned.queue = empty
    BY <2>1 DEF NothingPlanned
  <2> QED
    BY <2>2, <2>3, LimitAssumption DEF SubscriptionPlans
<1>3. step \in [1 .. n -> [SubscriptionPlans -> SubscriptionPlans]]
  <2>1. \A k \in 1 .. n : \A plan \in SubscriptionPlans : AddSubscriptions(plan, k) \in SubscriptionPlans
    BY <1>1, AddSubscriptionsIs
  <2> HIDE DEF n
  <2> QED
    BY <2>1
<1>4. \A k \in 1 .. n : \A plan \in SubscriptionPlans : step[k][plan] = AddSubscriptions(plan, k)
  OBVIOUS
<1> HIDE DEF n, step
<1>5. PICK h \in [0 .. n -> SubscriptionPlans] :
        h[0] = NothingPlanned /\ \A k \in 1 .. n : h[k] = step[k][h[k - 1]]
  <2>1. ASSUME NEW base \in SubscriptionPlans, NEW last \in Nat,
               NEW by \in [1 .. last -> [SubscriptionPlans -> SubscriptionPlans]]
        PROVE  \E h \in [0 .. last -> SubscriptionPlans] :
                 h[0] = base /\ \A k \in 1 .. last : h[k] = by[k][h[k - 1]]
    BY RecursionExists
  <2> QED
    BY <2>1, <1>1, <1>2, <1>3
<1>6. ASSUME NEW k \in 0 .. n
      PROVE  h[k] = IF k = 0 THEN NothingPlanned ELSE AddSubscriptions(h[k - 1], k)
  <2>1. k # 0 => k \in 1 .. n /\ k - 1 \in 0 .. n
    BY <1>1
  <2> QED
    BY <2>1, <1>4, <1>5
<1>7. h = [k \in 0 .. n |-> IF k = 0 THEN NothingPlanned ELSE AddSubscriptions(h[k - 1], k)]
  BY <1>5, <1>6
<1> DEFINE g == CHOOSE f : f = [i \in 0 .. Len(services_) |->
                                 IF i = 0 THEN NothingPlanned ELSE AddSubscriptions(f[i - 1], i)]
<1>8. IsSubscriptionPlan(g, Len(services_))
  BY <1>7 DEF IsSubscriptionPlan, n
<1>9. SubscriptionPlan = g[Len(services_)]
  BY DEF SubscriptionPlan
<1> QED
  BY <1>8, <1>9

\* Services with a subscription beyond the limit, among the subscriptions s.
Beyond(s) == {s[x].service_instance : x \in MaxSubscriptions + 1 .. Len(s)}

\* What one service more adds to the services beyond the limit.
LEMMA BeyondGrows ==
  ASSUME NEW s \in Seq(Subscriptions), NEW w \in Seq(Subscriptions), NEW i \in Nat,
         \A x \in DOMAIN s : s[x].service_instance < i,
         \A x \in DOMAIN w : w[x].service_instance = i,
         IsFiniteSet(Beyond(s))
  PROVE  /\ IsFiniteSet(Beyond(s \o w))
         /\ Cardinality(Beyond(s \o w)) =
              Cardinality(Beyond(s))
              + (IF Len(s) + Len(w) > MaxSubscriptions /\ Len(w) > 0 THEN 1 ELSE 0)
<1> DEFINE l == Len(s)
           m == Len(w)
           t == s \o w
           over == l + m > MaxSubscriptions /\ m > 0
<1>1. /\ l \in Nat /\ m \in Nat /\ DOMAIN s = 1 .. l /\ DOMAIN w = 1 .. m /\ MaxSubscriptions \in Nat
      /\ Len(t) = l + m
      /\ \A x \in 1 .. l : t[x] = s[x]
      /\ \A x \in 1 .. l + m : x > l => x - l \in 1 .. m /\ t[x] = w[x - l]
  BY ConcatIs, LimitAssumption
<1> HIDE DEF t, l, m
<1>2. Beyond(s) \subseteq Beyond(t)
  <2> SUFFICES ASSUME NEW x \in MaxSubscriptions + 1 .. l
               PROVE  s[x].service_instance \in Beyond(t)
    BY DEF Beyond, l
  <2>1. x \in 1 .. l /\ x \in MaxSubscriptions + 1 .. l + m
    BY <1>1
  <2> QED
    BY <2>1, <1>1 DEF Beyond
<1>3. i \notin Beyond(s)
  <2> SUFFICES ASSUME NEW x \in MaxSubscriptions + 1 .. l, s[x].service_instance = i PROVE FALSE
    BY DEF Beyond, l
  <2>1. x \in DOMAIN s
    BY <1>1
  <2> QED
    BY <2>1
<1>4. ASSUME NEW v \in Beyond(t) PROVE v \in Beyond(s) \/ (over /\ v = i)
  <2>1. PICK x \in MaxSubscriptions + 1 .. l + m : v = t[x].service_instance
    BY <1>1 DEF Beyond
  <2>2. CASE x <= l
    <3>1. x \in 1 .. l /\ x \in MaxSubscriptions + 1 .. l
      BY <2>2, <1>1
    <3> QED
      BY <3>1, <2>1, <1>1 DEF Beyond, l
  <2>3. CASE x > l
    <3>1. x \in 1 .. l + m /\ l + m > MaxSubscriptions
      BY <1>1
    <3>2. x - l \in DOMAIN w /\ t[x] = w[x - l]
      BY <3>1, <2>3, <1>1
    <3>3. m > 0
      BY <3>2, <1>1
    <3> QED
      BY <2>1, <3>1, <3>2, <3>3
  <2> QED
    BY <2>2, <2>3, <1>1
<1>5. CASE over
  <2>1. l + m \in MaxSubscriptions + 1 .. l + m /\ l + m \in 1 .. l + m /\ l + m > l
    BY <1>1, <1>5
  <2>2. t[l + m] = w[l + m - l] /\ l + m - l \in DOMAIN w
    BY <2>1, <1>1
  <2>3. i \in Beyond(t)
    BY <2>1, <2>2, <1>1 DEF Beyond
  <2>4. Beyond(t) = Beyond(s) \cup {i}
    BY <1>2, <1>4, <2>3
  <2>5. IsFiniteSet(Beyond(t)) /\ Cardinality(Beyond(t)) = Cardinality(Beyond(s)) + 1
    BY <1>3, <2>4, FS_AddElement
  <2> QED
    BY <1>5, <2>5 DEF t, l, m
<1>6. CASE ~over
  <2>1. Beyond(t) = Beyond(s)
    BY <1>2, <1>4, <1>6
  <2>2. Cardinality(Beyond(s)) \in Nat
    BY FS_CardinalityType
  <2> QED
    BY <1>6, <2>1, <2>2 DEF t, l, m
<1> QED
  BY <1>5, <1>6

\* The subscriptions planned are the first of those called for.
LEMMA SubscriptionPlanCut ==
  ASSUME InventoryType
  PROVE  /\ SubscriptionPlan \in SubscriptionPlans
         /\ Min2(MaxSubscriptions, Len(AllSubscriptions)) \in 0 .. Len(AllSubscriptions)
         /\ SubscriptionPlan.queue = SubSeq(AllSubscriptions, 1, Min2(MaxSubscriptions, Len(AllSubscriptions)))
         /\ SubscriptionPlan.refused = Cardinality(Beyond(AllSubscriptions))
         /\ IsFiniteSet(Beyond(AllSubscriptions))
<1> DEFINE n    == Len(services_)
           rows == [i \in DOMAIN SubscriptionTable |-> FlattenSeq(SubscriptionTable[i])]
<1>1. n \in Nat /\ DOMAIN services_ = 1 .. n /\ MaxSubscriptions \in Nat
  BY LenProperties, LimitAssumption DEF InventoryType
<1>2. rows \in Seq(Seq(Subscriptions))
  BY TablesTyped, FlattenTableIs
<1>3. DOMAIN rows = 1 .. n /\ \A i \in 1 .. n : rows[i] = SubscriptionsOf(i)
  BY <1>1, TablesTyped, TablesFlatten
<1>4. FlattenSeq(rows) = AllSubscriptions
  BY TablesFlatten DEF FlattenTable
<1>5. Len(rows) = n
  <2> HIDE DEF rows, n
  <2>1. Len(rows) \in Nat /\ DOMAIN rows = 1 .. Len(rows)
    BY <1>2, LenProperties
  <2>2. \A a, b \in Nat : 1 .. a = 1 .. b => a = b
    OBVIOUS
  <2> QED
    BY <2>1, <2>2, <1>1, <1>3
<1> HIDE DEF rows
<1>6. PICK f : /\ f \in [0 .. n -> Seq(Subscriptions)] /\ f[0] = <<>>
               /\ \A k \in 1 .. n : f[k] = f[k - 1] \o rows[k]
               /\ AllSubscriptions = f[n]
  <2>1. ASSUME NEW S, NEW lists \in Seq(Seq(S))
        PROVE  \E f : /\ f \in [0 .. Len(lists) -> Seq(S)] /\ f[0] = <<>>
                      /\ \A k \in 1 .. Len(lists) : f[k] = f[k - 1] \o lists[k]
                      /\ FlattenSeq(lists) = f[Len(lists)]
    BY FlattenPrefixes
  <2>2. PICK f : /\ f \in [0 .. Len(rows) -> Seq(Subscriptions)] /\ f[0] = <<>>
                 /\ \A k \in 1 .. Len(rows) : f[k] = f[k - 1] \o rows[k]
                 /\ FlattenSeq(rows) = f[Len(rows)]
    BY <2>1, <1>2
  <2> QED
    BY <2>2, <1>4, <1>5
<1>7. PICK g : IsSubscriptionPlan(g, n) /\ SubscriptionPlan = g[n]
  BY SubscriptionPlanIs
<1> HIDE DEF n
<1> DEFINE Cut(k) == /\ g[k] \in SubscriptionPlans
                     /\ Len(g[k].queue) = (IF Len(f[k]) <= MaxSubscriptions THEN Len(f[k]) ELSE MaxSubscriptions)
                     /\ \A x \in DOMAIN g[k].queue : x \in DOMAIN f[k] /\ g[k].queue[x] = f[k][x]
                     /\ g[k].refused = Cardinality(Beyond(f[k])) /\ IsFiniteSet(Beyond(f[k]))
                     /\ \A x \in DOMAIN f[k] : f[k][x].service_instance \in Nat /\ f[k][x].service_instance < k
           T      == {k \in Nat : k <= n => Cut(k)}
<1>8. 0 \in T
  <2>1. g[0] = NothingPlanned
    BY <1>1, <1>7 DEF IsSubscriptionPlan
  <2>2. PICK empty : empty = <<>>
    OBVIOUS
  <2>3. empty \in Seq(Subscriptions) /\ Len(empty) = 0 /\ DOMAIN empty = {}
    BY <2>2, EmptySeq
  <2>4. g[0] = [queue |-> empty, refused |-> 0] /\ g[0].queue = empty /\ g[0].refused = 0 /\ f[0] = empty
    BY <2>1, <2>2, <1>6 DEF NothingPlanned
  <2>5. g[0] \in SubscriptionPlans
    BY <2>3, <2>4, <1>1 DEF SubscriptionPlans
  <2>6. Beyond(f[0]) = {}
    BY <2>3, <2>4, <1>1 DEF Beyond
  <2>7. IsFiniteSet(Beyond(f[0])) /\ Cardinality(Beyond(f[0])) = 0
    BY <2>6, FS_EmptySet
  <2> QED
    BY <2>3, <2>4, <2>5, <2>7, <1>1
<1>9. ASSUME NEW k \in Nat, k \in T PROVE k + 1 \in T
  <2> SUFFICES ASSUME k + 1 <= n PROVE Cut(k + 1)
    OBVIOUS
  <2>1. k + 1 \in 1 .. n /\ k + 1 \in 0 .. n /\ k + 1 # 0 /\ (k + 1) - 1 = k /\ k <= n /\ k \in 0 .. n
    BY <1>1
  <2>2. Cut(k)
    BY <1>9, <2>1
  <2>3. g[k + 1] = AddSubscriptions(g[k], k + 1)
    BY <1>7, <2>1 DEF IsSubscriptionPlan
  <2>4. PICK s, w, q, next : /\ s = f[k] /\ w = SubscriptionsOf(k + 1) /\ q = g[k].queue
                             /\ next = g[k + 1].queue
    OBVIOUS
  <2>5. s \in Seq(Subscriptions) /\ w \in Seq(Subscriptions) /\ f[k + 1] = s \o w
    BY <1>1, <1>3, <1>6, <2>1, <2>4, SubscriptionsOfIs
  <2>6. /\ \A x \in DOMAIN s : s[x].service_instance \in Nat /\ s[x].service_instance < k
        /\ \A x \in DOMAIN w : w[x].service_instance = k
    BY <1>1, <2>1, <2>2, <2>4, SubscriptionsOfIs
  <2>7. /\ Len(s) \in Nat /\ Len(w) \in Nat /\ DOMAIN s = 1 .. Len(s)
        /\ Len(s \o w) = Len(s) + Len(w) /\ DOMAIN (s \o w) = 1 .. Len(s) + Len(w)
        /\ \A x \in 1 .. Len(s) : (s \o w)[x] = s[x]
        /\ \A x \in 1 .. Len(s) + Len(w) :
             x > Len(s) => x - Len(s) \in DOMAIN w /\ (s \o w)[x] = w[x - Len(s)]
    BY <2>5, ConcatIs
  <2>8. PICK room \in Nat :
          /\ room = Min2(Len(w), MaxSubscriptions - Len(q))
          /\ g[k + 1] \in SubscriptionPlans
          /\ Len(next) = Len(q) + room
          /\ DOMAIN q = 1 .. Len(q)
          /\ DOMAIN next = 1 .. Len(q) + room
          /\ \A x \in 1 .. Len(q) : next[x] = q[x]
          /\ \A x \in 1 .. Len(q) + room :
               x > Len(q) => x - Len(q) \in 1 .. Len(w) /\ next[x] = w[x - Len(q)]
          /\ g[k + 1].refused = g[k].refused + (IF room < Len(w) THEN 1 ELSE 0)
    <3>1. k + 1 \in DOMAIN services_ /\ g[k] \in SubscriptionPlans
      BY <1>1, <2>1, <2>2
    <3>2. PICK plan : plan = g[k]
      OBVIOUS
    <3>3. plan \in SubscriptionPlans /\ q = plan.queue /\ next = AddSubscriptions(plan, k + 1).queue
      BY <2>3, <2>4, <3>1, <3>2
    <3> HIDE DEF Cut
    <3>4. \E room \in Nat :
            /\ room = Min2(Len(SubscriptionsOf(k + 1)), MaxSubscriptions - Len(plan.queue))
            /\ AddSubscriptions(plan, k + 1) \in SubscriptionPlans
            /\ Len(AddSubscriptions(plan, k + 1).queue) = Len(plan.queue) + room
            /\ DOMAIN plan.queue = 1 .. Len(plan.queue)
            /\ DOMAIN AddSubscriptions(plan, k + 1).queue = 1 .. Len(plan.queue) + room
            /\ \A x \in 1 .. Len(plan.queue) : AddSubscriptions(plan, k + 1).queue[x] = plan.queue[x]
            /\ \A x \in 1 .. Len(plan.queue) + room :
                 x > Len(plan.queue) =>
                   /\ x - Len(plan.queue) \in 1 .. Len(SubscriptionsOf(k + 1))
                   /\ AddSubscriptions(plan, k + 1).queue[x] = SubscriptionsOf(k + 1)[x - Len(plan.queue)]
            /\ AddSubscriptions(plan, k + 1).refused =
                 plan.refused + (IF room < Len(SubscriptionsOf(k + 1)) THEN 1 ELSE 0)
      BY <3>1, <3>3, AddSubscriptionsIs
    <3> QED
      BY <2>3, <2>4, <3>2, <3>3, <3>4
  <2>9. Len(q) = (IF Len(s) <= MaxSubscriptions THEN Len(s) ELSE MaxSubscriptions)
    BY <2>2, <2>4
  <2>10. room = IF Len(w) <= MaxSubscriptions - Len(q) THEN Len(w) ELSE MaxSubscriptions - Len(q)
    BY <2>8 DEF Min2
  <2>11. (room < Len(w)) <=> (Len(s) + Len(w) > MaxSubscriptions /\ Len(w) > 0)
    BY <2>7, <2>9, <2>10, <1>1
  <2>12. g[k + 1].refused = Cardinality(Beyond(s \o w)) /\ IsFiniteSet(Beyond(s \o w))
    <3>1. IsFiniteSet(Beyond(s)) /\ g[k].refused = Cardinality(Beyond(s))
      BY <2>2, <2>4
    <3>2. /\ IsFiniteSet(Beyond(s \o w))
          /\ Cardinality(Beyond(s \o w)) =
               Cardinality(Beyond(s))
               + (IF Len(s) + Len(w) > MaxSubscriptions /\ Len(w) > 0 THEN 1 ELSE 0)
      BY <2>5, <2>6, <3>1, BeyondGrows
    <3> QED
      BY <2>8, <2>11, <3>1, <3>2
  <2>13. Len(next) = IF Len(s \o w) <= MaxSubscriptions THEN Len(s \o w) ELSE MaxSubscriptions
    BY <2>7, <2>8, <2>9, <2>10, <1>1
  <2>14. \A x \in DOMAIN next : x \in DOMAIN (s \o w) /\ next[x] = (s \o w)[x]
    <3> SUFFICES ASSUME NEW x \in 1 .. Len(q) + room
                 PROVE  x \in 1 .. Len(s) + Len(w) /\ next[x] = (s \o w)[x]
      BY <2>7, <2>8
    <3>1. CASE x <= Len(q)
      <4>1. x \in 1 .. Len(q) /\ x \in 1 .. Len(s)
        BY <3>1, <2>7, <2>9, <1>1
      <4>2. q[x] = s[x]
        BY <2>2, <2>4, <2>8, <4>1
      <4> QED
        BY <4>1, <4>2, <2>7, <2>8
    <3>2. CASE x > Len(q)
      <4>1. room > 0 /\ Len(q) = Len(s) /\ x \in 1 .. Len(s) + Len(w)
        <5>1. room > 0 /\ Len(q) \in Nat
          BY <3>2, <2>7, <2>8, <2>9, <1>1
        <5>2. Len(q) < MaxSubscriptions
          BY <5>1, <2>10, <1>1, <2>7
        <5>3. Len(q) = Len(s)
          BY <5>2, <2>9
        <5>4. room <= Len(w)
          BY <2>10, <1>1, <2>7, <5>1
        <5> QED
          BY <5>1, <5>3, <5>4, <2>7
      <4> QED
        BY <3>2, <4>1, <2>7, <2>8
    <3>3. Len(q) \in Nat
      BY <2>7, <2>9, <1>1
    <3> QED
      BY <3>1, <3>2, <3>3
  <2>15. \A x \in DOMAIN (s \o w) :
            (s \o w)[x].service_instance \in Nat /\ (s \o w)[x].service_instance < k + 1
    <3> SUFFICES ASSUME NEW x \in 1 .. Len(s) + Len(w)
                 PROVE  (s \o w)[x].service_instance \in Nat /\ (s \o w)[x].service_instance < k + 1
      BY <2>7
    <3>1. CASE x <= Len(s)
      <4>1. x \in 1 .. Len(s)
        BY <3>1, <2>7
      <4>2. s[x].service_instance \in Nat /\ s[x].service_instance < k /\ (s \o w)[x] = s[x]
        BY <4>1, <2>6, <2>7
      <4>3. s[x].service_instance < k + 1
        BY <4>2
      <4> QED
        BY <4>2, <4>3
    <3>2. CASE x > Len(s)
      <4>1. (s \o w)[x].service_instance = k
        BY <3>2, <2>6, <2>7
      <4> QED
        BY <4>1
    <3> QED
      BY <3>1, <3>2, <2>7
  <2> QED
    BY <2>4, <2>5, <2>8, <2>12, <2>13, <2>14, <2>15
<1>10. n \in T
  <2> HIDE DEF T
  <2> QED
    BY <1>1, <1>8, <1>9, Induction
<1>11. Cut(n)
  <2>1. n <= n
    BY <1>1
  <2> HIDE DEF Cut
  <2> QED
    BY <1>10, <2>1
<1> DEFINE all == AllSubscriptions
           m   == Min2(MaxSubscriptions, Len(all))
<1>12. all \in Seq(Subscriptions) /\ Len(all) \in Nat
  BY SubscriptionsAre, LenProperties
<1>13. m = (IF Len(all) <= MaxSubscriptions THEN Len(all) ELSE MaxSubscriptions) /\ m \in 0 .. Len(all)
  BY <1>1, <1>12 DEF Min2
<1> HIDE DEF m
<1>14. SubscriptionPlan.queue \in Seq(Subscriptions) /\ Len(SubscriptionPlan.queue) = m
  BY <1>6, <1>7, <1>11, <1>13 DEF SubscriptionPlans
<1>15. \A x \in 1 .. m : SubscriptionPlan.queue[x] = all[x]
  <2>1. DOMAIN SubscriptionPlan.queue = 1 .. m
    BY <1>14, LenProperties
  <2> QED
    BY <1>6, <1>7, <1>11, <2>1
<1>16. SubscriptionPlan.queue = SubSeq(all, 1, m)
  BY <1>12, <1>13, <1>14, <1>15, FirstOf
<1>17. /\ SubscriptionPlan \in SubscriptionPlans
       /\ SubscriptionPlan.refused = Cardinality(Beyond(all)) /\ IsFiniteSet(Beyond(all))
  BY <1>6, <1>7, <1>11
<1> QED
  BY <1>13, <1>16, <1>17 DEF m

-----------------------------------------------------------------------------
(* What is found has the form of GattPeer. *)

LEMMA PeerIs ==
  /\ Peer.inventory \in {"COMPLETE", "PARTIAL", "FAILED"}
  /\ Peer.hid_services = {i - 1 : i \in HidServices}
  /\ Peer.reads = Reads
  /\ Peer.reports = InputSources \cup OtherSources(Reads)
  /\ Peer.protocol_modes = ProtocolModes
  /\ Peer.subscriptions = AllSubscriptions
  /\ Peer = [inventory |-> Peer.inventory, hid_services |-> Peer.hid_services, reads |-> Peer.reads,
             reports |-> Peer.reports, protocol_modes |-> Peer.protocol_modes,
             subscriptions |-> Peer.subscriptions]
BY DEF Peer, Reads, AllSubscriptions

LEMMA InputSourceIs ==
  ASSUME NEW s
  PROVE  s \in InputSources <=>
           \E i \in DOMAIN services_ : \E c \in HidInputsOf(i) :
             s = Source(c.handle, i, IF c.uuid = "HID_REPORT" THEN "REPORT" ELSE "BOOT")
BY DEF InputSources

LEMMA ProtocolModesTyped ==
  ASSUME InventoryType
  PROVE  ProtocolModes \in Seq(Handles)
<1> DEFINE modes == [i \in DOMAIN services_ |-> ProtocolMode(i)]
<1>1. ASSUME NEW i \in DOMAIN services_ PROVE ProtocolMode(i) \in Seq(Handles)
  <2> DEFINE found == OfUuid(services_[i].characteristics, {"HID_PROTOCOL_MODE"})
  <2>1. found \in Seq(Characteristics)
    BY FoundTypes, OfUuidIs
  <2>2. ProtocolMode(i) = IF services_[i].uuid = "HID" /\ found # <<>> THEN <<Last(found).handle>> ELSE <<>>
    BY DEF ProtocolMode
  <2> HIDE DEF found
  <2>3. ASSUME found # <<>> PROVE Last(found).handle \in Handles
    <3>1. Len(found) \in 1 .. Len(found)
      BY <2>1, <2>3, EmptySeq, LenProperties
    <3>2. Last(found) \in Characteristics
      BY <2>1, <3>1, ElementOfSeq DEF Last
    <3> QED
      BY <3>2 DEF Characteristics
  <2>4. <<>> \in Seq(Handles)
    BY EmptySeq
  <2>5. PICK h : h = Last(found).handle
    OBVIOUS
  <2>6. h \in Handles => <<h>> \in Seq(Handles)
    BY SingleSeq
  <2> QED
    BY <2>2, <2>3, <2>4, <2>5, <2>6
<1>2. DOMAIN services_ = 1 .. Len(services_) /\ Len(services_) \in Nat
  BY LenProperties DEF InventoryType
<1>3. modes \in Seq(Seq(Handles))
  BY <1>1, <1>2
<1> QED
  BY <1>3, FlattenSeqType DEF ProtocolModes

LEMMA HidInputsAre ==
  ASSUME InventoryType, NEW i \in DOMAIN services_, NEW c \in HidInputsOf(i)
  PROVE  /\ c \in Characteristics /\ c.handle \in Handles /\ i \in HidServices
         /\ \E j \in DOMAIN services_[i].characteristics : c = services_[i].characteristics[j]
<1>1. PICK j \in DOMAIN services_[i].characteristics : c = services_[i].characteristics[j]
  BY DEF HidInputsOf, ToSet
<1>2. c \in Characteristics
  BY <1>1, TablesTyped
<1> QED
  BY <1>1, <1>2, DescriptorsTyped DEF HidInputsOf, HidServices

LEMMA ReportsTyped ==
  ASSUME InventoryType
  PROVE  Peer.reports \subseteq ReportSources
<1>1. ASSUME NEW s \in InputSources PROVE s \in ReportSources
  <2>1. PICK i \in DOMAIN services_ : \E c \in HidInputsOf(i) :
          s = Source(c.handle, i, IF c.uuid = "HID_REPORT" THEN "REPORT" ELSE "BOOT")
    BY InputSourceIs
  <2>2. PICK c \in HidInputsOf(i) :
          s = Source(c.handle, i, IF c.uuid = "HID_REPORT" THEN "REPORT" ELSE "BOOT")
    BY <2>1
  <2>3. c.handle \in Handles /\ i - 1 \in Services
    BY HidInputsAre, FoundTypes
  <2> QED
    BY <2>2, <2>3 DEF Source, ReportSources
<1>2. ASSUME NEW r \in ToSet(Reads)
      PROVE  Source(r.characteristic_handle, r.service_instance + 1, "OTHER") \in ReportSources
  <2>1. r \in Range(Reads)
    BY DEF ToSet, Range
  <2>2. PICK i \in DOMAIN services_ : \E j \in DOMAIN services_[i].characteristics :
          r \in Range(WantedReads(i, services_[i].characteristics[j]))
    BY <2>1, ReadsAre
  <2>3. r \in ReadOperations /\ r.service_instance = i - 1
    BY <2>2, ReadOfAttribute
  <2>4. r.characteristic_handle \in Handles /\ i - 1 \in Services /\ i \in Nat
    BY <2>3, FoundTypes DEF ReadOperations
  <2>5. (r.service_instance + 1) - 1 = i - 1
    BY <2>3, <2>4
  <2> QED
    BY <2>4, <2>5 DEF Source, ReportSources
<1>3. OtherSources(Reads) \subseteq ReportSources
  BY <1>2 DEF OtherSources
<1> QED
  BY <1>1, <1>3, PeerIs

LEMMA PeerTyped ==
  ASSUME InventoryType
  PROVE  Peer \in PeerType
<1>1. Peer.inventory \in {"COMPLETE", "PARTIAL", "FAILED"}
  BY PeerIs
<1>2. Peer.hid_services \in SUBSET Services
  <2>1. \A i \in HidServices : i \in DOMAIN services_
    BY DEF HidServices
  <2> QED
    BY <2>1, FoundTypes, PeerIs
<1>3. Peer.reads \in Seq(ReadOperations) /\ Peer.subscriptions \in Seq(Subscriptions)
  BY PeerIs, ReadsAre, SubscriptionsAre
<1>4. Peer.reports \in SUBSET ReportSources /\ Peer.protocol_modes \in Seq(Handles)
  BY PeerIs, ReportsTyped, ProtocolModesTyped
<1>5. PICK a, b, c, d, e, f :
        /\ a = Peer.inventory /\ b = Peer.hid_services /\ c = Peer.reads
        /\ d = Peer.reports /\ e = Peer.protocol_modes /\ f = Peer.subscriptions
  OBVIOUS
<1>6. Peer = [inventory |-> a, hid_services |-> b, reads |-> c, reports |-> d,
              protocol_modes |-> e, subscriptions |-> f]
  BY <1>5, PeerIs
<1> QED
  BY <1>1, <1>2, <1>3, <1>4, <1>5, <1>6 DEF PeerType

LEMMA PeerWellFormed ==
  ASSUME InventoryType, ServicesTruncate, HandlesDiffer
  PROVE  WellFormed(Peer)
<1>1. \A x, y \in DOMAIN AllSubscriptions :
        AllSubscriptions[x].characteristic_handle = AllSubscriptions[y].characteristic_handle => x = y
  <2>1. \A x \in DOMAIN AllSubscriptions : AllSubscriptions[x] \in Subscriptions
    BY SubscriptionsAre, LenProperties, ElementOfSeq
  <2> QED
    BY <2>1, SubscriptionsDiffer DEF AllDifferent, HandleOfSubscription
<1>2. ASSUME NEW s \in Range(AllSubscriptions)
      PROVE  /\ s.required <=> s.kind = "HID"
             /\ s.required =>
                  /\ s.service_instance \in Peer.hid_services
                  /\ \E r \in Peer.reports : r.handle = s.characteristic_handle /\ r.kind # "OTHER"
                  /\ \A k \in DOMAIN Reads :
                       Reads[k].purpose = "BATTERY_LEVEL" =>
                         Reads[k].characteristic_handle # s.characteristic_handle
  <2>1. PICK i \in DOMAIN services_ : \E j \in DOMAIN services_[i].characteristics :
               LET c == services_[i].characteristics[j]
               IN  Subscribes(i, c) /\ s = Subscription(i, c)
    BY SubscriptionsAre
  <2>2. PICK j \in DOMAIN services_[i].characteristics : s = Subscription(i, services_[i].characteristics[j])
    BY <2>1
  <2>3. PICK c : c = services_[i].characteristics[j]
    OBVIOUS
  <2>4. /\ c \in Characteristics /\ s.characteristic_handle = c.handle /\ s.service_instance = i - 1
        /\ s.kind = SubscriptionKind(i, c) /\ (s.required <=> s.kind = "HID")
    BY <2>2, <2>3, TablesTyped, SubscriptionTyped
  <2> SUFFICES ASSUME s.kind = "HID"
               PROVE  /\ s.service_instance \in Peer.hid_services
                      /\ \E r \in Peer.reports : r.handle = s.characteristic_handle /\ r.kind # "OTHER"
                      /\ \A k \in DOMAIN Reads :
                           Reads[k].purpose = "BATTERY_LEVEL" =>
                             Reads[k].characteristic_handle # s.characteristic_handle
    BY <2>4
  <2>5. c \in HidInputsOf(i)
    BY <2>4 DEF SubscriptionKind
  <2>6. i \in HidServices /\ services_[i].uuid = "HID"
    BY <2>5, HidInputsAre DEF HidServices
  <2>7. s.service_instance \in Peer.hid_services
    BY <2>4, <2>6, PeerIs
  <2>8. \E r \in Peer.reports : r.handle = s.characteristic_handle /\ r.kind # "OTHER"
    <3> DEFINE r == Source(c.handle, i, IF c.uuid = "HID_REPORT" THEN "REPORT" ELSE "BOOT")
    <3>1. r \in InputSources
      BY <2>5, InputSourceIs
    <3>2. r \in Peer.reports
      BY <3>1, PeerIs
    <3>3. r.handle = c.handle /\ r.kind # "OTHER"
      BY DEF Source
    <3> QED
      BY <2>4, <3>2, <3>3
  <2>9. ASSUME NEW k \in DOMAIN Reads, Reads[k].purpose = "BATTERY_LEVEL",
               Reads[k].characteristic_handle = s.characteristic_handle
        PROVE  FALSE
    <3>1. Reads[k] \in Range(Reads)
      BY DEF Range
    <3>2. PICK l \in DOMAIN services_ : \E m \in DOMAIN services_[l].characteristics :
            Reads[k] \in Range(WantedReads(l, services_[l].characteristics[m]))
      BY <3>1, ReadsAre
    <3>3. PICK m \in DOMAIN services_[l].characteristics :
            Reads[k] \in Range(WantedReads(l, services_[l].characteristics[m]))
      BY <3>2
    <3>4. Reads[k].characteristic_handle = FoundHandle(l, m, 0) /\ services_[l].uuid = "BATTERY"
      BY <2>9, <3>3, ReadOfAttribute
    <3>5. s.characteristic_handle = FoundHandle(i, j, 0)
      BY <2>3, <2>4 DEF FoundHandle
    <3>6. /\ 0 \in 0 .. Len(services_[i].characteristics[j].descriptors)
          /\ 0 \in 0 .. Len(services_[l].characteristics[m].descriptors)
      <4>1. ASSUME NEW p \in DOMAIN services_, NEW q \in DOMAIN services_[p].characteristics
            PROVE  Len(services_[p].characteristics[q].descriptors) \in Nat
        BY TablesTyped, DescriptorsTyped, LenProperties
      <4> QED
        BY <4>1
    <3>7. i = l
      <4>1. FoundHandle(i, j, 0) = FoundHandle(l, m, 0)
        BY <2>9, <3>4, <3>5
      <4> QED
        BY <4>1, <3>6, HandlesTell
    <3> QED
      BY <2>6, <3>4, <3>7
  <2> QED
    BY <2>7, <2>8, <2>9
<1>3. \A x \in DOMAIN AllSubscriptions : AllSubscriptions[x] \in Range(AllSubscriptions)
  BY DEF Range
<1> QED
  BY <1>1, <1>2, <1>3, PeerIs DEF WellFormed

-----------------------------------------------------------------------------
(* Planning starts from a finished inventory and leaves it alone. *)

LEMMA PlanKeeps ==
  ASSUME InventoryInv, PlanReads \/ BuildHidProfiles \/ PlanSubscriptions
  PROVE  InventoryInv'
<1>1. /\ pc \notin Inventorying \cup {"FAILED"}
      /\ pc' \in {"BUILDING_PROFILE", "REGISTERING", "DONE"}
      /\ UNCHANGED <<database, services_, service, characteristic, included_service_total,
                     characteristic_total, descriptor_total, errors, uncounted>>
  BY DEF PlanReads, BuildHidProfiles, PlanSubscriptions, inputs, inventory, answers, Inventorying
<1>2. operations_failed_ \in Nat /\ InventoryType
  BY DEF InventoryInv, InventoryType
<1>3. ReadPlan.refused \in Nat /\ SubscriptionPlan.refused \in Nat
  BY <1>2, ReadPlanSound, SubscriptionPlanCut DEF ReadPlans, SubscriptionPlans
<1>4. \E times \in Nat : operations_failed_' = operations_failed_ + times
  <2>1. CASE PlanReads
    BY <2>1, <1>3 DEF PlanReads, MarkDegraded
  <2>2. CASE BuildHidProfiles
    <3>1. operations_failed_' = operations_failed_ + 0
      BY <2>2, <1>2 DEF BuildHidProfiles
    <3> QED
      BY <3>1
  <2>3. CASE PlanSubscriptions
    BY <2>3, <1>3 DEF PlanSubscriptions, MarkDegraded
  <2> QED
    BY <2>1, <2>2, <2>3
<1>5. operations_failed_' \in Nat /\ (operations_failed_' = 0 => operations_failed_ = 0)
  BY <1>2, <1>4
<1>6. InventoryType'
  BY <1>1, <1>5 DEF InventoryInv, InventoryType, Inventorying, Finished, Ends
<1>7. ServicesTruncate' /\ ServiceTruncates' /\ AskedCharacteristicTruncates'
  BY <1>1 DEF InventoryInv, ServicesTruncate, ServiceTruncates, AskedCharacteristicTruncates, Inventorying
<1>8. NothingLeftOut'
  BY <1>1, <1>5 DEF InventoryInv, NothingLeftOut, Whole, Inventorying
<1>9. MarksHaveACause'
  BY <1>1 DEF MarksHaveACause, Inventorying, Finished
<1> QED
  BY <1>6, <1>7, <1>8, <1>9 DEF InventoryInv

LEMMA InventoryStep ==
  ASSUME InventoryInv, [Next]_vars
  PROVE  InventoryInv'
<1>1. CASE UNCHANGED vars
  BY <1>1 DEF vars, inputs, inventory, answers, InventoryInv, InventoryType, ServicesTruncate,
              ServiceTruncates, AskedCharacteristicTruncates, NothingLeftOut, Whole, MarksHaveACause,
              LimitReached, AskedService, AskedCharacteristic
<1>2. CASE Next
  BY <1>2, GetServiceKeeps, ServiceErrorKeeps, EndInventoryKeeps, CountErrorKeeps,
     GetIncludesKeeps, GetCharacteristicKeeps, EndServiceKeeps, GetDescriptorKeeps,
     EndCharacteristicKeeps, PlanKeeps DEF Next
<1> QED
  BY <1>1, <1>2

\* Inventory keeps its lists within the limits, truncates what the peer has at
\* every level, and accounts for all it leaves out: InventoryInv, whatever the
\* stack answers.
THEOREM InventoryInvariant == Spec => []InventoryInv
<1>1. InventoryInv /\ [Next]_vars => InventoryInv'
  BY InventoryStep
<1> QED
  BY InventoryInit, <1>1, PTL DEF Spec

\* Nothing is invented, reordered or left out silently by inventory_gatt_database_,
\* for every database, all limits and any number of errors: the run's property.
THEOREM InventoryAccounted == Spec => []InventoryIsAccountedFor
<1>1. InventoryInv => InventoryIsAccountedFor
  <2> SUFFICES ASSUME InventoryInv PROVE InventoryIsAccountedFor
    OBVIOUS
  <2>1. Len(services_) <= Len(database) /\ \A i \in DOMAIN services_ : Truncates(services_[i], database[i])
    BY DEF InventoryInv, ServicesTruncate
  <2>2. ASSUME pc \in Finished, operations_failed_ = 0, ~uncounted
        PROVE  services_ = database
    <3>1. Len(services_) = Len(database) /\ \A i \in DOMAIN services_ : Whole(services_[i], database[i])
      BY <2>2 DEF InventoryInv, NothingLeftOut, Finished, Inventorying
    <3>2. services_ \in Seq(GattServices) /\ database \in Seq(GattServices)
      BY DatabaseAssumption DEF InventoryInv, InventoryType
    <3>3. \A i \in DOMAIN services_ : services_[i] = database[i]
      <4> SUFFICES ASSUME NEW i \in DOMAIN services_ PROVE services_[i] = database[i]
        OBVIOUS
      <4>1. services_[i] \in GattServices /\ database[i] \in GattServices
        BY <3>1, <3>2, LenProperties, ElementOfSeq
      <4> QED
        BY <2>1, <2>2, <3>1, <4>1 DEF Whole, Truncates, GattServices
    <3> QED
      BY <3>1, <3>2, <3>3, SeqEqual, LenProperties
  <2>3. ASSUME pc \in Finished, operations_failed_ > 0
        PROVE  errors > 0 \/ LimitReached
    BY <2>3 DEF InventoryInv, MarksHaveACause
  <2> QED
    BY <2>1, <2>2, <2>3 DEF InventoryIsAccountedFor, Finished
<1> QED
  BY InventoryInvariant, <1>1, PTL

-----------------------------------------------------------------------------
(* What is planned, when: the plans are those of the services found, which   *)
(* no longer change, and a plan that was refused nothing is a whole one.      *)

Planned == {"BUILDING_PROFILE", "REGISTERING", "DONE"}

ErrorsBounded == discovery_mode_ \in {"STANDARD", "FORENSIC"} /\ errors \in 0 .. MaxErrors

ReadsPlanned ==
  /\ pc \in Planned => /\ read_queue_ = ReadPlan.queue
                       /\ operations_failed_ = 0 => ReadPlan.refused = 0
  /\ pc \notin Planned => read_queue_ = <<>>

ProfileBuilt ==
  /\ pc \in {"REGISTERING", "DONE"} =>
       hid_report_handles_ = HidReportHandles /\ protocol_modes = ProtocolModes
  /\ pc \notin {"REGISTERING", "DONE"} => hid_report_handles_ = {} /\ protocol_modes = <<>>

SubscriptionsPlanned ==
  /\ pc = "DONE" =>
       /\ subscription_queue_ = SubscriptionPlan.queue
       /\ battery_handles_ = HandlesOfKind(SubscriptionPlan.queue, "BATTERY")
       /\ service_changed_handles_ = HandlesOfKind(SubscriptionPlan.queue, "SERVICE_CHANGED")
       /\ operations_failed_ = 0 => SubscriptionPlan.refused = 0
  /\ pc # "DONE" =>
       subscription_queue_ = <<>> /\ battery_handles_ = {} /\ service_changed_handles_ = {}

PlanInv == ErrorsBounded /\ ReadsPlanned /\ ProfileBuilt /\ SubscriptionsPlanned

LEMMA PlanInit == Init => PlanInv
BY LimitAssumption DEF Init, PlanInv, ErrorsBounded, ReadsPlanned, ProfileBuilt, SubscriptionsPlanned, Planned

\* The plans are functions of the services found and of the mode.
LEMMA PlansKept ==
  ASSUME services_' = services_, discovery_mode_' = discovery_mode_
  PROVE  /\ ReadPlan' = ReadPlan /\ SubscriptionPlan' = SubscriptionPlan
         /\ HidReportHandles' = HidReportHandles /\ ProtocolModes' = ProtocolModes
<1>1. Reads' = Reads
  BY DEF Reads, OfServices, OfService, WantedReads, ReadOperation, Purpose
<1>2. ReadPlan' = ReadPlan
  BY <1>1 DEF ReadPlan, Reads
<1>3. SubscriptionPlan' = SubscriptionPlan
  BY DEF SubscriptionPlan, AddSubscriptions, OfService, WantedSubscriptions, SubscriptionKind, HidInputsOf
<1>4. HidReportHandles' = HidReportHandles
  BY DEF HidReportHandles, HidInputsOf
<1>5. ProtocolModes' = ProtocolModes
  BY DEF ProtocolModes, ProtocolMode
<1> QED
  BY <1>2, <1>3, <1>4, <1>5

LEMMA InventoryStepKeepsPlans ==
  ASSUME PlanInv,
         GetService \/ ServiceError \/ EndInventory \/ CountError \/ GetIncludes
         \/ GetCharacteristic \/ EndService \/ GetDescriptor \/ EndCharacteristic
  PROVE  PlanInv'
<1>1. /\ pc \notin Planned /\ pc' \notin Planned
      /\ UNCHANGED <<discovery_mode_, read_queue_, hid_report_handles_, protocol_modes,
                     subscription_queue_, battery_handles_, service_changed_handles_>>
  BY DEF GetService, ServiceError, EndInventory, CountError, GetIncludes, GetCharacteristic,
         EndService, GetDescriptor, EndCharacteristic, inputs, plans, Planned
<1>2. errors' = errors \/ (errors < MaxErrors /\ errors' = errors + 1)
  BY DEF GetService, ServiceError, EndInventory, CountError, GetIncludes, GetCharacteristic,
         EndService, GetDescriptor, EndCharacteristic, answers, Error
<1> QED
  BY <1>1, <1>2, LimitAssumption DEF PlanInv, ErrorsBounded, ReadsPlanned, ProfileBuilt, SubscriptionsPlanned, Planned

LEMMA PlanStep ==
  ASSUME InventoryInv, PlanInv, [Next]_vars
  PROVE  PlanInv'
<1>1. CASE UNCHANGED vars
  BY <1>1, PlansKept DEF vars, inputs, inventory, answers, plans, PlanInv, ErrorsBounded, ReadsPlanned, ProfileBuilt,
                         SubscriptionsPlanned
<1>2. CASE PlanReads \/ BuildHidProfiles \/ PlanSubscriptions
  <2>1. UNCHANGED <<services_, discovery_mode_, errors>>
    BY <1>2 DEF PlanReads, BuildHidProfiles, PlanSubscriptions, inputs, inventory, answers
  <2>2. /\ ReadPlan' = ReadPlan /\ SubscriptionPlan' = SubscriptionPlan
        /\ HidReportHandles' = HidReportHandles /\ ProtocolModes' = ProtocolModes
    BY <2>1, PlansKept
  <2>3. operations_failed_ \in Nat /\ ReadPlan.refused \in Nat /\ SubscriptionPlan.refused \in Nat
    <3>1. operations_failed_ \in Nat /\ InventoryType
      BY DEF InventoryInv, InventoryType
    <3> QED
      BY <3>1, ReadPlanSound, SubscriptionPlanCut DEF ReadPlans, SubscriptionPlans
  <2>4. CASE PlanReads
    <3>1. /\ pc = "INVENTORIED" /\ pc' = "BUILDING_PROFILE" /\ read_queue_' = ReadPlan.queue
          /\ operations_failed_' = operations_failed_ + ReadPlan.refused
          /\ UNCHANGED <<hid_report_handles_, protocol_modes,
                         subscription_queue_, battery_handles_, service_changed_handles_>>
      BY <2>4 DEF PlanReads, MarkDegraded
    <3>2. operations_failed_' = 0 => ReadPlan.refused = 0
      BY <3>1, <2>3
    <3> QED
      BY <3>1, <3>2, <2>1, <2>2 DEF PlanInv, ErrorsBounded, ReadsPlanned, ProfileBuilt, SubscriptionsPlanned, Planned
  <2>5. CASE BuildHidProfiles
    <3>1. /\ pc = "BUILDING_PROFILE" /\ pc' = "REGISTERING"
          /\ hid_report_handles_' = HidReportHandles /\ protocol_modes' = ProtocolModes
          /\ UNCHANGED <<operations_failed_, read_queue_,
                         subscription_queue_, battery_handles_, service_changed_handles_>>
      BY <2>5 DEF BuildHidProfiles
    <3> QED
      BY <3>1, <2>1, <2>2 DEF PlanInv, ErrorsBounded, ReadsPlanned, ProfileBuilt, SubscriptionsPlanned, Planned
  <2>6. CASE PlanSubscriptions
    <3>1. /\ pc = "REGISTERING" /\ pc' = "DONE" /\ subscription_queue_' = SubscriptionPlan.queue
          /\ battery_handles_' = HandlesOfKind(SubscriptionPlan.queue, "BATTERY")
          /\ service_changed_handles_' = HandlesOfKind(SubscriptionPlan.queue, "SERVICE_CHANGED")
          /\ operations_failed_' = operations_failed_ + SubscriptionPlan.refused
          /\ UNCHANGED <<read_queue_, hid_report_handles_, protocol_modes>>
      BY <2>6 DEF PlanSubscriptions, MarkDegraded
    <3>2. operations_failed_' = 0 => SubscriptionPlan.refused = 0 /\ operations_failed_ = 0
      BY <3>1, <2>3
    <3> QED
      BY <3>1, <3>2, <2>1, <2>2 DEF PlanInv, ErrorsBounded, ReadsPlanned, ProfileBuilt, SubscriptionsPlanned, Planned
  <2> QED
    BY <1>2, <2>4, <2>5, <2>6
<1>3. CASE Next /\ ~(PlanReads \/ BuildHidProfiles \/ PlanSubscriptions)
  BY <1>3, InventoryStepKeepsPlans DEF Next
<1> QED
  BY <1>1, <1>2, <1>3

\* What is planned is what the services found call for: PlanInv, an invariant.
THEOREM PlanInvariant == Spec => [](InventoryInv /\ PlanInv)
<1>1. InventoryInv /\ PlanInv /\ [Next]_vars => PlanInv'
  BY PlanStep
<1> QED
  BY InventoryInvariant, PlanInit, <1>1, PTL DEF Spec

-----------------------------------------------------------------------------
(* The run's properties. *)

LEMMA HandlesOfKindTyped ==
  ASSUME NEW queue \in Seq(Subscriptions), NEW kind
  PROVE  HandlesOfKind(queue, kind) \subseteq Handles
<1>1. \A s \in ToSet(queue) : s \in Subscriptions
  BY LenProperties, ElementOfSeq DEF ToSet
<1> QED
  BY <1>1 DEF HandlesOfKind, Subscriptions

LEMMA HidReportHandlesTyped ==
  ASSUME InventoryType
  PROVE  HidReportHandles \subseteq Handles
<1>1. \A i \in DOMAIN services_ : \A c \in HidInputsOf(i) : c.handle \in Handles
  BY HidInputsAre
<1> QED
  BY <1>1 DEF HidReportHandles

LEMMA PlansTyped ==
  ASSUME InventoryInv, PlanInv
  PROVE  TypeOK
<1>1. InventoryType
  BY DEF InventoryInv
<1>2. /\ database \in Databases /\ discovery_mode_ \in {"STANDARD", "FORENSIC"}
      /\ pc \in Inventorying \cup Ends \cup {"INVENTORIED", "BUILDING_PROFILE", "REGISTERING"}
      /\ services_ \in Seq(GattServices) /\ Len(services_) <= MaxServices
      /\ service \in GattServices /\ characteristic \in Characteristics \cup {NoCharacteristic}
      /\ included_service_total \in 0 .. MaxIncludedServices
      /\ characteristic_total \in 0 .. MaxCharacteristics
      /\ descriptor_total \in 0 .. MaxDescriptors
      /\ operations_failed_ \in Nat /\ errors \in 0 .. MaxErrors /\ uncounted \in BOOLEAN
  BY <1>1 DEF InventoryType, PlanInv, ErrorsBounded
<1>3. PICK empty : empty = <<>>
  OBVIOUS
<1>4. \A S : empty \in Seq(S) /\ Len(empty) = 0
  BY <1>3, EmptySeq
<1>5. read_queue_ \in Seq(ReadOperations) /\ Len(read_queue_) <= MaxReads
  <2>1. ReadPlan.queue \in Seq(ReadOperations) /\ Len(ReadPlan.queue) <= MaxReads
    BY <1>1, ReadPlanSound DEF ReadPlans
  <2>2. read_queue_ = ReadPlan.queue \/ read_queue_ = empty
    BY <1>3 DEF PlanInv, ReadsPlanned
  <2> QED
    BY <2>1, <2>2, <1>4, LimitAssumption
<1>6. SubscriptionPlan.queue \in Seq(Subscriptions) /\ Len(SubscriptionPlan.queue) <= MaxSubscriptions
  BY <1>1, SubscriptionPlanCut DEF SubscriptionPlans
<1>7. subscription_queue_ \in Seq(Subscriptions) /\ Len(subscription_queue_) <= MaxSubscriptions
  <2>1. subscription_queue_ = SubscriptionPlan.queue \/ subscription_queue_ = empty
    BY <1>3 DEF PlanInv, SubscriptionsPlanned
  <2> QED
    BY <2>1, <1>4, <1>6, LimitAssumption
<1>8. hid_report_handles_ \subseteq Handles
  <2>1. hid_report_handles_ = HidReportHandles \/ hid_report_handles_ = {}
    BY DEF PlanInv, ProfileBuilt
  <2> QED
    BY <2>1, <1>1, HidReportHandlesTyped
<1>9. protocol_modes \in Seq(Handles)
  <2>1. protocol_modes = ProtocolModes \/ protocol_modes = empty
    BY <1>3 DEF PlanInv, ProfileBuilt
  <2> QED
    BY <2>1, <1>1, <1>4, ProtocolModesTyped
<1>10. battery_handles_ \subseteq Handles /\ service_changed_handles_ \subseteq Handles
  <2>1. /\ battery_handles_ = HandlesOfKind(SubscriptionPlan.queue, "BATTERY") \/ battery_handles_ = {}
        /\ \/ service_changed_handles_ = HandlesOfKind(SubscriptionPlan.queue, "SERVICE_CHANGED")
           \/ service_changed_handles_ = {}
    BY DEF PlanInv, SubscriptionsPlanned
  <2>2. \A kind : HandlesOfKind(SubscriptionPlan.queue, kind) \subseteq Handles
    BY <1>6, HandlesOfKindTyped
  <2> QED
    BY <2>1, <2>2
<1> QED
  BY <1>2, <1>5, <1>7, <1>8, <1>9, <1>10 DEF TypeOK

\* Type correctness, with the limits of all five arrays and both queues of
\* BLEClientHID, for every database, all limits and any answers of the stack.
THEOREM TypesCorrect == Spec => []TypeOK
<1>1. InventoryInv /\ PlanInv => TypeOK
  BY PlansTyped
<1> QED
  BY PlanInvariant, <1>1, PTL

\* A plan that refused nothing is all that was called for.
LEMMA WholePlans ==
  ASSUME InventoryInv
  PROVE  /\ SubscriptionPlan.refused = 0 => SubscriptionPlan.queue = AllSubscriptions
         /\ ReadPlan.refused = 0 /\ HandlesDiffer => ReadPlan.queue = Reads
<1>1. InventoryType /\ ServicesTruncate
  BY DEF InventoryInv
<1>2. ASSUME SubscriptionPlan.refused = 0 PROVE SubscriptionPlan.queue = AllSubscriptions
  <2> DEFINE l == Len(AllSubscriptions)
  <2>1. AllSubscriptions \in Seq(Subscriptions) /\ l \in Nat /\ MaxSubscriptions \in Nat
    BY <1>1, SubscriptionsAre, LenProperties, LimitAssumption
  <2>2. /\ SubscriptionPlan.queue = SubSeq(AllSubscriptions, 1, Min2(MaxSubscriptions, l))
        /\ Cardinality(Beyond(AllSubscriptions)) = 0 /\ IsFiniteSet(Beyond(AllSubscriptions))
    BY <1>1, <1>2, SubscriptionPlanCut
  <2>3. Beyond(AllSubscriptions) = {}
    BY <2>2, FS_EmptySet
  <2>4. ~(MaxSubscriptions < l)
    <3> SUFFICES ASSUME MaxSubscriptions < l PROVE FALSE
      OBVIOUS
    <3>1. l \in MaxSubscriptions + 1 .. l
      BY <2>1
    <3>2. AllSubscriptions[l].service_instance \in Beyond(AllSubscriptions)
      BY <3>1 DEF Beyond
    <3> QED
      BY <3>2, <2>3
  <2>5. Min2(MaxSubscriptions, l) = l
    BY <2>1, <2>4 DEF Min2
  <2> QED
    BY <2>1, <2>2, <2>5, SubSeqFull
<1>3. ASSUME ReadPlan.refused = 0, HandlesDiffer PROVE ReadPlan.queue = Reads
  <2>1. Reads \in Seq(ReadOperations) /\ Len(Reads) \in Nat
    BY <1>1, ReadsAre, LenProperties
  <2>2. /\ Min2(MaxReads, Len(Reads)) \in 0 .. Len(Reads)
        /\ ReadPlan.queue = SubSeq(Reads, 1, Min2(MaxReads, Len(Reads)))
        /\ ReadPlan.refused = Len(Reads) - Min2(MaxReads, Len(Reads))
    BY <1>1, <1>3, ReadPlanCut
  <2>3. Min2(MaxReads, Len(Reads)) = Len(Reads)
    BY <1>3, <2>1, <2>2
  <2> QED
    BY <2>1, <2>2, <2>3, SubSeqFull
<1> QED
  BY <1>2, <1>3

\* What a characteristic of the peer is found as.
LEMMA PeerCharacteristicFound ==
  ASSUME InventoryInv, pc = "DONE", operations_failed_ = 0, NEW p \in PeerCharacteristics
  PROVE  \E i \in DOMAIN services_ : \E j \in DOMAIN services_[i].characteristics :
           p = <<services_[i].uuid, services_[i].characteristics[j]>>
<1>1. /\ Len(services_) = Len(database)
      /\ \A i \in DOMAIN services_ : services_[i].characteristics = database[i].characteristics
  BY DEF InventoryInv, NothingLeftOut, Whole, Inventorying
<1>2. PICK i \in DOMAIN database : \E c \in ToSet(database[i].characteristics) : p = <<database[i].uuid, c>>
  BY DEF PeerCharacteristics
<1>3. PICK j \in DOMAIN database[i].characteristics : p = <<database[i].uuid, database[i].characteristics[j]>>
  BY <1>2 DEF ToSet
<1>4. services_ \in Seq(GattServices) /\ database \in Seq(GattServices)
  BY DatabaseAssumption DEF InventoryInv, InventoryType
<1>5. i \in DOMAIN services_
  BY <1>1, <1>4, LenProperties
<1>6. services_[i].uuid = database[i].uuid
  BY <1>5 DEF InventoryInv, ServicesTruncate, Truncates
<1> QED
  BY <1>1, <1>3, <1>5, <1>6

\* What is read, subscribed to and routed of a characteristic found, once all plans are
\* made and none was refused anything.
LEMMA FoundIsPlanned ==
  ASSUME InventoryInv, PlanInv, pc = "DONE", operations_failed_ = 0,
         NEW i \in DOMAIN services_, NEW j \in DOMAIN services_[i].characteristics
  PROVE  LET c == services_[i].characteristics[j]
         IN  /\ c \in Characteristics
             /\ ReadsOwn(c, i) => \E y \in DOMAIN read_queue_ : read_queue_[y].handle = c.handle
             /\ ReadsOwn(c, i) /\ HandlesDiffer => OwnRead(i, c) \in ToSet(read_queue_)
             /\ \A d \in ToSet(c.descriptors) :
                  ReadsDescriptor(d) => \E y \in DOMAIN read_queue_ : read_queue_[y].handle = d.handle
             /\ Subscribes(i, c) => Subscription(i, c) \in ToSet(subscription_queue_)
             /\ c \in HidInputsOf(i) => c.handle \in hid_report_handles_
<1> DEFINE c == services_[i].characteristics[j]
<1>1. InventoryType /\ ServicesTruncate /\ c \in Characteristics
  BY TablesTyped DEF InventoryInv
<1>2. /\ read_queue_ = ReadPlan.queue /\ ReadPlan.refused = 0
      /\ subscription_queue_ = SubscriptionPlan.queue /\ SubscriptionPlan.refused = 0
      /\ hid_report_handles_ = HidReportHandles
  BY DEF PlanInv, ReadsPlanned, ProfileBuilt, SubscriptionsPlanned, Planned
<1>3. \A r \in Range(WantedReads(i, c)) :
        r \in Range(Reads) /\ \E y \in DOMAIN read_queue_ : read_queue_[y].handle = r.handle
  BY <1>1, <1>2, ReadsAre, ReadPlanSound
<1>4. ASSUME ReadsOwn(c, i)
      PROVE  /\ \E y \in DOMAIN read_queue_ : read_queue_[y].handle = c.handle
             /\ HandlesDiffer => OwnRead(i, c) \in ToSet(read_queue_)
  <2>1. OwnRead(i, c) \in Range(WantedReads(i, c))
    BY <1>1, <1>4, WantedReadsIs
  <2>2. OwnRead(i, c).handle = c.handle
    BY DEF OwnRead, ReadOperation
  <2>3. HandlesDiffer => read_queue_ = Reads
    BY <1>2, WholePlans
  <2> QED
    BY <1>3, <2>1, <2>2, <2>3 DEF Range, ToSet
<1>5. ASSUME NEW d \in ToSet(c.descriptors), ReadsDescriptor(d)
      PROVE  \E y \in DOMAIN read_queue_ : read_queue_[y].handle = d.handle
  <2>1. d \in Range(c.descriptors)
    BY DEF ToSet, Range
  <2>2. DescriptorRead(i, c, d) \in Range(WantedReads(i, c))
    BY <1>1, <1>5, <2>1, WantedReadsIs
  <2>3. DescriptorRead(i, c, d).handle = d.handle
    BY DEF DescriptorRead, ReadOperation
  <2> QED
    BY <1>3, <2>2, <2>3
<1>6. ASSUME Subscribes(i, c) PROVE Subscription(i, c) \in ToSet(subscription_queue_)
  <2>1. subscription_queue_ = AllSubscriptions
    BY <1>2, WholePlans
  <2>2. Subscription(i, c) \in Range(AllSubscriptions)
    BY <1>1, <1>6, SubscriptionsAre
  <2> QED
    BY <2>1, <2>2 DEF Range, ToSet
<1>7. c \in HidInputsOf(i) => c.handle \in hid_report_handles_
  BY <1>2 DEF HidReportHandles
<1> QED
  BY <1>1, <1>4, <1>5, <1>6, <1>7

LEMMA NothingMissed ==
  ASSUME InventoryInv, PlanInv
  PROVE  NothingMissedSilently
<1> SUFFICES ASSUME pc = "DONE", operations_failed_ = 0, NEW p \in PeerCharacteristics
             PROVE
    LET read       == {r.handle : r \in ToSet(read_queue_)}
        subscribed == {s.characteristic_handle : s \in ToSet(subscription_queue_)}
        c          == p[2]
        notifies   == c.properties \cap {"NOTIFY", "INDICATE"} # {}
    IN  /\ p[1] = "HID" /\ c.uuid \in HidInputs =>
             /\ c.handle \in hid_report_handles_
             /\ notifies => c.handle \in subscribed
             /\ \A d \in ToSet(c.descriptors) : d.uuid = "REPORT_REFERENCE" => d.handle \in read
        /\ p[1] = "HID" /\ c.uuid = "HID_REPORT_MAP" /\ "READ" \in c.properties /\ HandlesDiffer =>
             \E r \in ToSet(read_queue_) : r.handle = c.handle /\ r.required
        /\ p[1] = "BATTERY" /\ c.uuid = "BATTERY_LEVEL" /\ notifies =>
             c.handle \in battery_handles_
        /\ p[1] = "GATT" /\ c.uuid = "SERVICE_CHANGED" /\ notifies =>
             c.handle \in service_changed_handles_
        /\ discovery_mode_ = "FORENSIC" =>
             /\ notifies => c.handle \in subscribed
             /\ Attributes(c) \ (IF "READ" \in c.properties THEN {} ELSE {c.handle}) \subseteq read
  BY DEF NothingMissedSilently
<1> DEFINE read       == {r.handle : r \in ToSet(read_queue_)}
           subscribed == {s.characteristic_handle : s \in ToSet(subscription_queue_)}
<1>1. PICK i \in DOMAIN services_ : \E j \in DOMAIN services_[i].characteristics :
        p = <<services_[i].uuid, services_[i].characteristics[j]>>
  BY PeerCharacteristicFound
<1>2. PICK j \in DOMAIN services_[i].characteristics :
        p = <<services_[i].uuid, services_[i].characteristics[j]>>
  BY <1>1
<1>3. PICK c, uuid : c = services_[i].characteristics[j] /\ uuid = services_[i].uuid
  OBVIOUS
<1>4. p[1] = uuid /\ p[2] = c
  BY <1>2, <1>3
<1>5. /\ c \in Characteristics
      /\ ReadsOwn(c, i) => \E y \in DOMAIN read_queue_ : read_queue_[y].handle = c.handle
      /\ ReadsOwn(c, i) /\ HandlesDiffer => OwnRead(i, c) \in ToSet(read_queue_)
      /\ \A d \in ToSet(c.descriptors) :
           ReadsDescriptor(d) => \E y \in DOMAIN read_queue_ : read_queue_[y].handle = d.handle
      /\ Subscribes(i, c) => Subscription(i, c) \in ToSet(subscription_queue_)
      /\ c \in HidInputsOf(i) => c.handle \in hid_report_handles_
  BY <1>3, FoundIsPlanned
<1>6. /\ ReadsOwn(c, i) => c.handle \in read
      /\ \A d \in ToSet(c.descriptors) : ReadsDescriptor(d) => d.handle \in read
  BY <1>5 DEF ToSet
<1>7. /\ Subscription(i, c).characteristic_handle = c.handle
      /\ Subscription(i, c).kind = SubscriptionKind(i, c)
  BY DEF Subscription
<1>8. Subscribes(i, c) => c.handle \in subscribed
  BY <1>5, <1>7
<1>9. InventoryType
  BY DEF InventoryInv
<1>10. ASSUME uuid = "HID", c.uuid \in HidInputs
       PROVE  /\ c.handle \in hid_report_handles_
              /\ Notifies(c) => c.handle \in subscribed
              /\ \A d \in ToSet(c.descriptors) : d.uuid = "REPORT_REFERENCE" => d.handle \in read
  <2>1. c \in HidInputsOf(i)
    BY <1>3, <1>10 DEF HidInputsOf, ToSet
  <2>2. SubscriptionKind(i, c) = "HID"
    BY <1>3, <1>10, <2>1 DEF SubscriptionKind
  <2>3. Notifies(c) => Subscribes(i, c)
    BY <2>2 DEF Subscribes
  <2>4. \A d \in ToSet(c.descriptors) : d.uuid = "REPORT_REFERENCE" => ReadsDescriptor(d)
    BY DEF ReadsDescriptor, DescriptorUuids, StandardDescriptors, ReferenceDescriptors
  <2> QED
    BY <1>5, <1>6, <1>8, <2>1, <2>3, <2>4
<1>11. ASSUME uuid = "HID", c.uuid = "HID_REPORT_MAP", "READ" \in c.properties, HandlesDiffer
       PROVE  \E r \in ToSet(read_queue_) : r.handle = c.handle /\ r.required
  <2>1. Purpose(i, c) = "HID_REPORT_MAP"
    BY <1>3, <1>11 DEF Purpose, NamedPurpose, StandardReads, Purposes, CheckedPurposes
  <2>2. ReadsOwn(c, i)
    BY <1>11, <2>1 DEF ReadsOwn
  <2>3. OwnRead(i, c).handle = c.handle /\ OwnRead(i, c).required
    BY <2>1 DEF OwnRead, ReadOperation
  <2> QED
    BY <1>5, <1>11, <2>2, <2>3
<1>12. ASSUME uuid = "BATTERY", c.uuid = "BATTERY_LEVEL", Notifies(c)
       PROVE  c.handle \in battery_handles_
  <2>1. SubscriptionKind(i, c) = "BATTERY"
    <3>1. c \notin HidInputsOf(i)
      BY <1>3, <1>12 DEF HidInputsOf
    <3> QED
      BY <1>3, <1>12, <3>1 DEF SubscriptionKind
  <2>2. Subscription(i, c) \in ToSet(subscription_queue_)
    BY <1>5, <1>12, <2>1 DEF Subscribes
  <2>3. battery_handles_ = HandlesOfKind(subscription_queue_, "BATTERY")
    BY DEF PlanInv, SubscriptionsPlanned
  <2> QED
    BY <1>7, <2>1, <2>2, <2>3 DEF HandlesOfKind
<1>13. ASSUME uuid = "GATT", c.uuid = "SERVICE_CHANGED", Notifies(c)
       PROVE  c.handle \in service_changed_handles_
  <2>1. SubscriptionKind(i, c) = "SERVICE_CHANGED"
    <3>1. c \notin HidInputsOf(i)
      BY <1>3, <1>13 DEF HidInputsOf
    <3> QED
      BY <1>3, <1>13, <3>1 DEF SubscriptionKind
  <2>2. Subscription(i, c) \in ToSet(subscription_queue_)
    BY <1>5, <1>13, <2>1 DEF Subscribes
  <2>3. service_changed_handles_ = HandlesOfKind(subscription_queue_, "SERVICE_CHANGED")
    BY DEF PlanInv, SubscriptionsPlanned
  <2> QED
    BY <1>7, <2>1, <2>2, <2>3 DEF HandlesOfKind
<1>14. ASSUME discovery_mode_ = "FORENSIC"
       PROVE  /\ Notifies(c) => c.handle \in subscribed
              /\ Attributes(c) \ (IF "READ" \in c.properties THEN {} ELSE {c.handle}) \subseteq read
  <2>1. Notifies(c) => Subscribes(i, c)
    BY <1>14 DEF Subscribes
  <2>2. "READ" \in c.properties => c.handle \in read
    BY <1>6, <1>14 DEF ReadsOwn
  <2>3. ASSUME NEW d \in ToSet(c.descriptors) PROVE d.handle \in read
    <3>1. d \in Descriptors
      BY <1>5, DescriptorsTyped DEF Range, ToSet
    <3>2. ReadsDescriptor(d)
      BY <1>14, <3>1 DEF ReadsDescriptor, Descriptors
    <3> QED
      BY <1>6, <3>2
  <2>4. \A h \in Attributes(c) : h = c.handle \/ \E d \in ToSet(c.descriptors) : h = d.handle
    BY DEF Attributes
  <2> HIDE DEF read, subscribed
  <2>5. Attributes(c) \ (IF "READ" \in c.properties THEN {} ELSE {c.handle}) \subseteq read
    BY <2>2, <2>3, <2>4
  <2> QED
    BY <1>8, <2>1, <2>5
<1> HIDE DEF read, subscribed
<1> QED
  BY <1>4, <1>10, <1>11, <1>12, <1>13, <1>14 DEF Notifies, read, subscribed

\* Nothing the peer has is missed silently by a setup whose plans were refused nothing:
\* the run's property, for every database, whatever the limits.
THEOREM PlansComplete == Spec => []NothingMissedSilently
<1>1. InventoryInv /\ PlanInv => NothingMissedSilently
  BY NothingMissed
<1> QED
  BY PlanInvariant, <1>1, PTL

-----------------------------------------------------------------------------
(* The plans are what Setup assumes of them. *)

\* What a step does once the services are found, or as the inventory ends.
PeerStep ==
  pc \in Inventorying /\ pc' \notin Inventorying /\ HandlesDiffer =>
    \A p \in {Peer'} : p \in PeerType /\ WellFormed(p)

ReadsStep ==
  pc = "INVENTORIED" =>
    /\ \A j, k \in DOMAIN read_queue_' : read_queue_'[j].handle = read_queue_'[k].handle => j = k
    /\ HandlesDiffer =>
         \A p \in {Peer} :
           LET kept == Min2(MaxReads, Len(p.reads))
           IN  /\ read_queue_' = SubSeq(p.reads, 1, kept)
               /\ operations_failed_' = operations_failed_ + Len(p.reads) - kept

SubscriptionsStep ==
  pc = "REGISTERING" =>
    \A p \in {Peer} :
      /\ subscription_queue_' =
           SubSeq(p.subscriptions, 1, Min2(MaxSubscriptions, Len(p.subscriptions)))
      /\ operations_failed_' = operations_failed_ + Cardinality(OverLimitServices(p))
      /\ hid_report_handles_ = {r.handle : r \in {q \in p.reports : q.kind # "OTHER"}}
      /\ protocol_modes = p.protocol_modes

LEMMA PeerFits ==
  ASSUME InventoryInv, HandlesDiffer
  PROVE  Peer \in PeerType /\ WellFormed(Peer)
<1>1. InventoryType /\ ServicesTruncate
  BY DEF InventoryInv
<1> QED
  BY <1>1, PeerTyped, PeerWellFormed

LEMMA HandlesStay ==
  ASSUME database' = database
  PROVE  HandlesDiffer' <=> HandlesDiffer
BY DEF HandlesDiffer, Positions, HandleAt

LEMMA ReadsFit ==
  ASSUME InventoryInv, Next
  PROVE  ReadsStep
<1> SUFFICES ASSUME pc = "INVENTORIED" PROVE ReadsStep
  BY DEF ReadsStep
<1>1. PlanReads
  BY DEF Next, GetService, ServiceError, EndInventory, CountError, GetIncludes, GetCharacteristic,
         EndService, GetDescriptor, EndCharacteristic, BuildHidProfiles, PlanSubscriptions
<1>2. read_queue_' = ReadPlan.queue /\ operations_failed_' = operations_failed_ + ReadPlan.refused
  BY <1>1 DEF PlanReads, MarkDegraded
<1>3. InventoryType /\ ServicesTruncate /\ operations_failed_ \in Nat
  BY DEF InventoryInv, InventoryType
<1>4. \A j, k \in DOMAIN read_queue_' : read_queue_'[j].handle = read_queue_'[k].handle => j = k
  BY <1>2, <1>3, ReadPlanSound
<1>5. ASSUME HandlesDiffer
      PROVE  /\ read_queue_' = SubSeq(Reads, 1, Min2(MaxReads, Len(Reads)))
             /\ operations_failed_' = operations_failed_ + Len(Reads) - Min2(MaxReads, Len(Reads))
  <2>1. /\ ReadPlan.queue = SubSeq(Reads, 1, Min2(MaxReads, Len(Reads)))
        /\ ReadPlan.refused = Len(Reads) - Min2(MaxReads, Len(Reads))
        /\ Min2(MaxReads, Len(Reads)) \in 0 .. Len(Reads)
    BY <1>3, <1>5, ReadPlanCut
  <2>2. Len(Reads) \in Nat
    BY <1>3, ReadsAre, LenProperties
  <2> QED
    BY <1>2, <1>3, <2>1, <2>2
<1>6. Peer.reads = Reads
  BY PeerIs
<1> QED
  BY <1>4, <1>5, <1>6 DEF ReadsStep

LEMMA SubscriptionsFit ==
  ASSUME InventoryInv, PlanInv, Next
  PROVE  SubscriptionsStep
<1> SUFFICES ASSUME pc = "REGISTERING" PROVE SubscriptionsStep
  BY DEF SubscriptionsStep
<1>1. PlanSubscriptions
  BY DEF Next, GetService, ServiceError, EndInventory, CountError, GetIncludes, GetCharacteristic,
         EndService, GetDescriptor, EndCharacteristic, BuildHidProfiles, PlanReads
<1>2. InventoryType
  BY DEF InventoryInv
<1>3. /\ subscription_queue_' = SubSeq(AllSubscriptions, 1, Min2(MaxSubscriptions, Len(AllSubscriptions)))
      /\ operations_failed_' = operations_failed_ + Cardinality(Beyond(AllSubscriptions))
  BY <1>1, <1>2, SubscriptionPlanCut DEF PlanSubscriptions, MarkDegraded
<1>4. Peer.subscriptions = AllSubscriptions /\ Peer.protocol_modes = ProtocolModes
  BY PeerIs
<1>5. OverLimitServices(Peer) = Beyond(AllSubscriptions)
  BY <1>4 DEF OverLimitServices, Beyond
<1>6. hid_report_handles_ = HidReportHandles /\ protocol_modes = ProtocolModes
  BY DEF PlanInv, ProfileBuilt
<1>7. HidReportHandles = {r.handle : r \in {q \in Peer.reports : q.kind # "OTHER"}}
  <2>1. ASSUME NEW h \in HidReportHandles
        PROVE  \E r \in Peer.reports : r.kind # "OTHER" /\ h = r.handle
    <3>1. PICK i \in DOMAIN services_ : \E c \in HidInputsOf(i) : h = c.handle
      BY DEF HidReportHandles
    <3>2. PICK c \in HidInputsOf(i) : h = c.handle
      BY <3>1
    <3> DEFINE r == Source(c.handle, i, IF c.uuid = "HID_REPORT" THEN "REPORT" ELSE "BOOT")
    <3>3. r \in InputSources
      BY InputSourceIs
    <3>4. r.handle = h /\ r.kind # "OTHER"
      BY <3>2 DEF Source
    <3> QED
      BY <3>3, <3>4, PeerIs
  <2>2. ASSUME NEW r \in Peer.reports, r.kind # "OTHER"
        PROVE  r.handle \in HidReportHandles
    <3>1. r \in InputSources
      BY <2>2, PeerIs DEF OtherSources, Source
    <3>2. PICK i \in DOMAIN services_ : \E c \in HidInputsOf(i) :
            r = Source(c.handle, i, IF c.uuid = "HID_REPORT" THEN "REPORT" ELSE "BOOT")
      BY <3>1, InputSourceIs
    <3>3. PICK c \in HidInputsOf(i) :
            r = Source(c.handle, i, IF c.uuid = "HID_REPORT" THEN "REPORT" ELSE "BOOT")
      BY <3>2
    <3> QED
      BY <3>3 DEF Source, HidReportHandles
  <2> QED
    BY <2>1, <2>2
<1> QED
  BY <1>3, <1>4, <1>5, <1>6, <1>7 DEF SubscriptionsStep

\* Inventory and planning implement what Setup assumes of a peer, PeerAssumption, of
\* every database: the run's property, for all limits and any answers of the stack.
THEOREM PlansFit == Spec => PlansFitSetup
<1>1. InventoryInv => (HandlesDiffer => Peer \in PeerType /\ WellFormed(Peer))
  BY PeerFits
<1>2. ASSUME InventoryInv, PlanInv, InventoryInv', HandlesDiffer' => (Peer \in PeerType /\ WellFormed(Peer))',
             [Next]_vars
      PROVE  [PeerStep /\ ReadsStep /\ SubscriptionsStep]_vars
  <2>1. CASE UNCHANGED vars
    BY <2>1
  <2>2. CASE Next
    <3>1. PeerStep
      <4>1. database' = database
        BY <2>2 DEF Next, GetService, ServiceError, EndInventory, CountError, GetIncludes, GetCharacteristic,
                    EndService, GetDescriptor, EndCharacteristic, PlanReads, BuildHidProfiles,
                    PlanSubscriptions, inputs
      <4>2. HandlesDiffer => HandlesDiffer'
        BY <4>1, HandlesStay
      <4>3. HandlesDiffer => Peer' \in PeerType /\ WellFormed(Peer')
        BY <4>2, <1>2
      <4> QED
        BY <4>3 DEF PeerStep
    <3>2. ReadsStep /\ SubscriptionsStep
      BY <1>2, <2>2, ReadsFit, SubscriptionsFit
    <3> QED
      BY <3>1, <3>2
  <2> QED
    BY <1>2, <2>1, <2>2
<1>3. [PeerStep /\ ReadsStep /\ SubscriptionsStep]_vars =>
        [/\ pc \in Inventorying /\ pc' \notin Inventorying /\ HandlesDiffer =>
              \A p \in {Peer'} : p \in PeerType /\ WellFormed(p)
         /\ pc = "INVENTORIED" =>
              /\ \A j, k \in DOMAIN read_queue_' : read_queue_'[j].handle = read_queue_'[k].handle => j = k
              /\ HandlesDiffer =>
                   \A p \in {Peer} :
                     LET kept == Min2(MaxReads, Len(p.reads))
                     IN  /\ read_queue_' = SubSeq(p.reads, 1, kept)
                         /\ operations_failed_' = operations_failed_ + Len(p.reads) - kept
         /\ pc = "REGISTERING" =>
              \A p \in {Peer} :
                /\ subscription_queue_' =
                     SubSeq(p.subscriptions, 1, Min2(MaxSubscriptions, Len(p.subscriptions)))
                /\ operations_failed_' = operations_failed_ + Cardinality(OverLimitServices(p))
                /\ hid_report_handles_ = {r.handle : r \in {q \in p.reports : q.kind # "OTHER"}}
                /\ protocol_modes = p.protocol_modes]_vars
  BY DEF PeerStep, ReadsStep, SubscriptionsStep
<1> QED
  BY PlanInvariant, <1>1, <1>2, <1>3, PTL DEF Spec, PlansFitSetup
=============================================================================
