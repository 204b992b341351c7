------------------------- MODULE ProvisioningProofs -------------------------
(***************************************************************************)
(* Configurations, payload images and first boots, for all documents,      *)
(* mappings, archives and payloads, and any number of edits.               *)
(***************************************************************************)
EXTENDS ProvisioningRefinement, TLAPS

(***************************************************************************)
(* A configuration is written and read as itself.                          *)
(***************************************************************************)
Written(value) == IF value = "None" THEN "null" ELSE value

LEMMA StrippedValues ==
  ASSUME NEW value \in Values
  PROVE  /\ Stripped(value) \in Values /\ Stripped(Stripped(value)) = Stripped(value)
         /\ Expanded(value) \in Values /\ Expanded(Expanded(value)) = Expanded(value)
         /\ Expanded(Stripped(value)) \in Values
         /\ Stripped(Expanded(Stripped(value))) = Expanded(Stripped(value))
         /\ Expanded(Expanded(Stripped(value))) = Expanded(Stripped(value))
         /\ Stripped(value) \in Strings \ {"blank"} <=> value \in Strings \ {"blank"}
         /\ Expanded(value) \in Strings \ {"blank"} <=> value \in Strings \ {"blank"}
         /\ Stripped(value) \in Missing <=> value \in Missing
         /\ Expanded(value) \in Missing <=> value \in Missing
         /\ Stripped(value) \in {"[]"} \cup Texts <=> value \in {"[]"} \cup Texts
         /\ Stripped(value) \in {"keys"} <=> value \in {"keys", "padded keys"}
BY DEF Stripped, Expanded, Values, Strings, Missing, Texts

\* The forms that Normal has.
LEMMA NormalForms ==
  ASSUME NEW field, NEW value
  PROVE  /\ value \in Missing => Normal(field, value) = Default(field)
         /\ value \notin Missing =>
              /\ field \in Names /\ value \notin Strings => Normal(field, value) = "None"
              /\ field = "base_image_path" => Normal(field, value) = Expanded(Stripped(value))
              /\ field \in RequiredArtifacts \cup OptionalArtifacts =>
                   Normal(field, value) = Expanded(value)
              /\ field = "static_mac_address" => Normal(field, value) = "text"
              /\ field \notin {"base_image_path", "static_mac_address"} /\ field \notin RequiredArtifacts
                 /\ field \notin OptionalArtifacts /\ (field \in Names => value \in Strings) =>
                   Normal(field, value) = Stripped(value)
<1>1. CASE value \in Missing
  BY <1>1 DEF Normal
<1>2. CASE value \notin Missing
  <2>1. CASE field \in Names /\ value \notin Strings
    BY <1>2, <2>1 DEF Normal, Names, RequiredArtifacts, OptionalArtifacts
  <2>2. CASE field = "base_image_path"
    BY <1>2, <2>2 DEF Normal, Names, RequiredArtifacts, OptionalArtifacts
  <2>3. CASE field \in RequiredArtifacts \cup OptionalArtifacts
    BY <1>2, <2>3 DEF Normal, Names, RequiredArtifacts, OptionalArtifacts
  <2>4. CASE field = "static_mac_address"
    BY <1>2, <2>4 DEF Normal, Names, RequiredArtifacts, OptionalArtifacts
  <2>5. CASE /\ field \notin {"base_image_path", "static_mac_address"} /\ field \notin RequiredArtifacts
             /\ field \notin OptionalArtifacts /\ (field \in Names => value \in Strings)
    BY <1>2, <2>5 DEF Normal
  <2> QED
    BY <1>2, <2>1, <2>2, <2>3, <2>4, <2>5 DEF Names, RequiredArtifacts, OptionalArtifacts
<1> QED
  BY <1>1, <1>2
\* Which values a field accepts and what its default is.
LEMMA FieldForms ==
  ASSUME NEW field
  PROVE  /\ field = "base_image_path" =>
              Accepts(field) = Strings \ {"blank"} /\ Default(field) = "None"
         /\ field = "bridge_name" =>
              Accepts(field) = Strings \ {"blank"} /\ Default(field) = "None"
         /\ field \in {"vcpus", "memory_mb"} =>
              Accepts(field) = {"positive", "true"} /\ Default(field) = "None"
         /\ field \in Names =>
              Accepts(field) = Values \ {"blank"} /\ Default(field) = "None"
         /\ field = "disk_size_gb" =>
              Accepts(field) = Missing \cup {"positive", "true"} /\ Default(field) = "None"
         /\ field \in Choices =>
              Accepts(field) = {"absent", "virtio", "choice"} /\ Default(field) = "virtio"
         /\ field = "qemu_gdb_debug" =>
              Accepts(field) = {"absent", "true", "false"} /\ Default(field) = "false"
         /\ field \in Flags \ {"qemu_gdb_debug"} =>
              Accepts(field) = {"absent", "true", "false"} /\ Default(field) = "true"
         /\ field = "hostname" =>
              Accepts(field) = Missing \cup (Strings \ {"blank"}) /\ Default(field) = "None"
         /\ field = "static_mac_address" =>
              Accepts(field) = Missing \cup {"text", "upper"} /\ Default(field) = "None"
         /\ field = "selinux_mode" =>
              Accepts(field) = Missing \cup {"choice"} /\ Default(field) = "None"
         /\ field \in Lists =>
              Accepts(field) = Missing \cup {"[]"} \cup Texts /\ Default(field) = "[]"
         /\ field = "root_ssh_authorized_keys" =>
              Accepts(field) = {"keys", "padded keys"} /\ Default(field) = "None"
         /\ field = "copy_files" =>
              Accepts(field) = Missing \cup {"[]", "specs"} /\ Default(field) = "[]"
         /\ field \in RequiredArtifacts =>
              Accepts(field) = Strings \ {"blank"} /\ Default(field) = "None"
         /\ field \in OptionalArtifacts =>
              Accepts(field) = Missing \cup (Strings \ {"blank"}) /\ Default(field) = "None"
         /\ field = "cloud_init_user_data_overrides" =>
              Accepts(field) = Missing \cup {"{}", "{runcmd}"} /\ Default(field) = "{}"
<1>1. ASSUME field = "base_image_path" PROVE Accepts(field) = Strings \ {"blank"} /\ Default(field) = "None"
  <2>1. Accepts(field) = Strings \ {"blank"}
    BY <1>1 DEF Accepts, Names, Choices, Flags, Lists, RequiredArtifacts, OptionalArtifacts
  <2>2. Default(field) = "None"
    BY <1>1 DEF Default, Names, Choices, Flags, Lists, RequiredArtifacts, OptionalArtifacts
  <2> QED
    BY <2>1, <2>2
<1>2. ASSUME field = "bridge_name" PROVE Accepts(field) = Strings \ {"blank"} /\ Default(field) = "None"
  <2>1. Accepts(field) = Strings \ {"blank"}
    BY <1>2 DEF Accepts, Names, Choices, Flags, Lists, RequiredArtifacts, OptionalArtifacts
  <2>2. Default(field) = "None"
    BY <1>2 DEF Default, Names, Choices, Flags, Lists, RequiredArtifacts, OptionalArtifacts
  <2> QED
    BY <2>1, <2>2
<1>3. ASSUME field \in {"vcpus", "memory_mb"} PROVE Accepts(field) = {"positive", "true"} /\ Default(field) = "None"
  <2>1. Accepts(field) = {"positive", "true"}
    BY <1>3 DEF Accepts, Names, Choices, Flags, Lists, RequiredArtifacts, OptionalArtifacts
  <2>2. Default(field) = "None"
    BY <1>3 DEF Default, Names, Choices, Flags, Lists, RequiredArtifacts, OptionalArtifacts
  <2> QED
    BY <2>1, <2>2
<1>4. ASSUME field \in Names PROVE Accepts(field) = Values \ {"blank"} /\ Default(field) = "None"
  <2>1. Accepts(field) = Values \ {"blank"}
    BY <1>4 DEF Accepts, Names, Choices, Flags, Lists, RequiredArtifacts, OptionalArtifacts
  <2>2. Default(field) = "None"
    BY <1>4 DEF Default, Names, Choices, Flags, Lists, RequiredArtifacts, OptionalArtifacts
  <2> QED
    BY <2>1, <2>2
<1>5. ASSUME field = "disk_size_gb" PROVE Accepts(field) = Missing \cup {"positive", "true"} /\ Default(field) = "None"
  <2>1. Accepts(field) = Missing \cup {"positive", "true"}
    BY <1>5 DEF Accepts, Names, Choices, Flags, Lists, RequiredArtifacts, OptionalArtifacts
  <2>2. Default(field) = "None"
    BY <1>5 DEF Default, Names, Choices, Flags, Lists, RequiredArtifacts, OptionalArtifacts
  <2> QED
    BY <2>1, <2>2
<1>6. ASSUME field \in Choices PROVE Accepts(field) = {"absent", "virtio", "choice"} /\ Default(field) = "virtio"
  <2>1. Accepts(field) = {"absent", "virtio", "choice"}
    BY <1>6 DEF Accepts, Names, Choices, Flags, Lists, RequiredArtifacts, OptionalArtifacts
  <2>2. Default(field) = "virtio"
    BY <1>6 DEF Default, Names, Choices, Flags, Lists, RequiredArtifacts, OptionalArtifacts
  <2> QED
    BY <2>1, <2>2
<1>7. ASSUME field = "qemu_gdb_debug" PROVE Accepts(field) = {"absent", "true", "false"} /\ Default(field) = "false"
  <2>1. Accepts(field) = {"absent", "true", "false"}
    BY <1>7 DEF Accepts, Names, Choices, Flags, Lists, RequiredArtifacts, OptionalArtifacts
  <2>2. Default(field) = "false"
    BY <1>7 DEF Default, Names, Choices, Flags, Lists, RequiredArtifacts, OptionalArtifacts
  <2> QED
    BY <2>1, <2>2
<1>8. ASSUME field \in Flags \ {"qemu_gdb_debug"} PROVE Accepts(field) = {"absent", "true", "false"} /\ Default(field) = "true"
  <2>1. Accepts(field) = {"absent", "true", "false"}
    BY <1>8 DEF Accepts, Names, Choices, Flags, Lists, RequiredArtifacts, OptionalArtifacts
  <2>2. Default(field) = "true"
    BY <1>8 DEF Default, Names, Choices, Flags, Lists, RequiredArtifacts, OptionalArtifacts
  <2> QED
    BY <2>1, <2>2
<1>9. ASSUME field = "hostname" PROVE Accepts(field) = Missing \cup (Strings \ {"blank"}) /\ Default(field) = "None"
  <2>1. Accepts(field) = Missing \cup (Strings \ {"blank"})
    BY <1>9 DEF Accepts, Names, Choices, Flags, Lists, RequiredArtifacts, OptionalArtifacts
  <2>2. Default(field) = "None"
    BY <1>9 DEF Default, Names, Choices, Flags, Lists, RequiredArtifacts, OptionalArtifacts
  <2> QED
    BY <2>1, <2>2
<1>10. ASSUME field = "static_mac_address" PROVE Accepts(field) = Missing \cup {"text", "upper"} /\ Default(field) = "None"
  <2>1. Accepts(field) = Missing \cup {"text", "upper"}
    BY <1>10 DEF Accepts, Names, Choices, Flags, Lists, RequiredArtifacts, OptionalArtifacts
  <2>2. Default(field) = "None"
    BY <1>10 DEF Default, Names, Choices, Flags, Lists, RequiredArtifacts, OptionalArtifacts
  <2> QED
    BY <2>1, <2>2
<1>11. ASSUME field = "selinux_mode" PROVE Accepts(field) = Missing \cup {"choice"} /\ Default(field) = "None"
  <2>1. Accepts(field) = Missing \cup {"choice"}
    BY <1>11 DEF Accepts, Names, Choices, Flags, Lists, RequiredArtifacts, OptionalArtifacts
  <2>2. Default(field) = "None"
    BY <1>11 DEF Default, Names, Choices, Flags, Lists, RequiredArtifacts, OptionalArtifacts
  <2> QED
    BY <2>1, <2>2
<1>12. ASSUME field \in Lists PROVE Accepts(field) = Missing \cup {"[]"} \cup Texts /\ Default(field) = "[]"
  <2>1. Accepts(field) = Missing \cup {"[]"} \cup Texts
    BY <1>12 DEF Accepts, Names, Choices, Flags, Lists, RequiredArtifacts, OptionalArtifacts
  <2>2. Default(field) = "[]"
    BY <1>12 DEF Default, Names, Choices, Flags, Lists, RequiredArtifacts, OptionalArtifacts
  <2> QED
    BY <2>1, <2>2
<1>13. ASSUME field = "root_ssh_authorized_keys" PROVE Accepts(field) = {"keys", "padded keys"} /\ Default(field) = "None"
  <2>1. Accepts(field) = {"keys", "padded keys"}
    BY <1>13 DEF Accepts, Names, Choices, Flags, Lists, RequiredArtifacts, OptionalArtifacts
  <2>2. Default(field) = "None"
    BY <1>13 DEF Default, Names, Choices, Flags, Lists, RequiredArtifacts, OptionalArtifacts
  <2> QED
    BY <2>1, <2>2
<1>14. ASSUME field = "copy_files" PROVE Accepts(field) = Missing \cup {"[]", "specs"} /\ Default(field) = "[]"
  <2>1. Accepts(field) = Missing \cup {"[]", "specs"}
    BY <1>14 DEF Accepts, Names, Choices, Flags, Lists, RequiredArtifacts, OptionalArtifacts
  <2>2. Default(field) = "[]"
    BY <1>14 DEF Default, Names, Choices, Flags, Lists, RequiredArtifacts, OptionalArtifacts
  <2> QED
    BY <2>1, <2>2
<1>15. ASSUME field \in RequiredArtifacts PROVE Accepts(field) = Strings \ {"blank"} /\ Default(field) = "None"
  <2>1. Accepts(field) = Strings \ {"blank"}
    BY <1>15 DEF Accepts, Names, Choices, Flags, Lists, RequiredArtifacts, OptionalArtifacts
  <2>2. Default(field) = "None"
    BY <1>15 DEF Default, Names, Choices, Flags, Lists, RequiredArtifacts, OptionalArtifacts
  <2> QED
    BY <2>1, <2>2
<1>16. ASSUME field \in OptionalArtifacts PROVE Accepts(field) = Missing \cup (Strings \ {"blank"}) /\ Default(field) = "None"
  <2>1. Accepts(field) = Missing \cup (Strings \ {"blank"})
    BY <1>16 DEF Accepts, Names, Choices, Flags, Lists, RequiredArtifacts, OptionalArtifacts
  <2>2. Default(field) = "None"
    BY <1>16 DEF Default, Names, Choices, Flags, Lists, RequiredArtifacts, OptionalArtifacts
  <2> QED
    BY <2>1, <2>2
<1>17. ASSUME field = "cloud_init_user_data_overrides" PROVE Accepts(field) = Missing \cup {"{}", "{runcmd}"} /\ Default(field) = "{}"
  <2>1. Accepts(field) = Missing \cup {"{}", "{runcmd}"}
    BY <1>17 DEF Accepts, Names, Choices, Flags, Lists, RequiredArtifacts, OptionalArtifacts
  <2>2. Default(field) = "{}"
    BY <1>17 DEF Default, Names, Choices, Flags, Lists, RequiredArtifacts, OptionalArtifacts
  <2> QED
    BY <2>1, <2>2
<1> QED
  BY <1>1, <1>2, <1>3, <1>4, <1>5, <1>6, <1>7, <1>8, <1>9, <1>10, <1>11, <1>12, <1>13, <1>14, <1>15, <1>16, <1>17

Defaults == {"None", "virtio", "true", "false", "[]", "{}"}

LEMMA WrittenValues ==
  /\ \A value \in Values : value # "None" /\ Written(value) = value
  /\ Written("None") = "null"
  /\ "null" \in Values /\ "null" \in Missing /\ "absent" \in Missing
  /\ "text" \in Values /\ "text" \notin Missing
  /\ \A value \in Defaults : value # "None" =>
       value \in Values /\ value \notin Missing /\ Stripped(value) = value
BY DEF Written, Values, Strings, Missing, Defaults, Stripped

\* What becomes of a value, of a field that is missing
LEMMA TripMissing ==
  ASSUME NEW field, NEW value \in Missing, Default(field) \in Defaults,
         \/ /\ field \notin Names /\ field \notin RequiredArtifacts /\ field \notin OptionalArtifacts
            /\ field \notin {"base_image_path", "static_mac_address"}
         \/ Default(field) = "None"
  PROVE  /\ Normal(field, value) = Default(field)
         /\ Normal(field, Written(Default(field))) = Default(field)
<1>1. Normal(field, value) = Default(field) /\ Normal(field, "null") = Default(field)
  BY NormalForms, WrittenValues
<1>2. CASE Default(field) = "None"
  BY <1>1, <1>2, WrittenValues
<1>3. CASE Default(field) # "None"
  <2>1. /\ Written(Default(field)) = Default(field) /\ Default(field) \notin Missing
        /\ Stripped(Default(field)) = Default(field)
    BY <1>3, WrittenValues
  <2> DEFINE d == Default(field)
  <2> HIDE DEF d
  <2>2. Normal(field, d) = Stripped(d)
    BY <1>3, <2>1, NormalForms DEF d
  <2> QED
    BY <1>1, <2>1, <2>2 DEF d
<1> QED
  BY <1>2, <1>3

\* of one that is given,
LEMMA TripStripped ==
  ASSUME NEW field, NEW value \in Values, value \notin Missing,
         field \notin {"base_image_path", "static_mac_address"},
         field \notin RequiredArtifacts, field \notin OptionalArtifacts,
         field \in Names => value \in Strings
  PROVE  /\ Normal(field, value) = Stripped(value) /\ Written(Stripped(value)) = Stripped(value)
         /\ Normal(field, Stripped(value)) = Stripped(value) /\ Stripped(value) \in Values
<1>1. /\ Stripped(value) \in Values /\ Stripped(value) \notin Missing
      /\ Stripped(Stripped(value)) = Stripped(value)
  BY StrippedValues
<1>2. field \in Names => Stripped(value) \in Strings
  BY DEF Strings, Stripped
<1>3. Normal(field, value) = Stripped(value)
  BY NormalForms
<1> DEFINE n == Stripped(value)
<1> HIDE DEF n
<1>4. Normal(field, n) = Stripped(n)
  BY <1>1, <1>2, NormalForms DEF n
<1> QED
  BY <1>1, <1>3, <1>4, WrittenValues DEF n

LEMMA TripArtifact ==
  ASSUME NEW field \in RequiredArtifacts \cup OptionalArtifacts, NEW value \in Values, value \notin Missing
  PROVE  /\ Normal(field, value) = Expanded(value) /\ Written(Expanded(value)) = Expanded(value)
         /\ Normal(field, Expanded(value)) = Expanded(value) /\ Expanded(value) \in Values
<1>1. /\ Expanded(value) \in Values /\ Expanded(value) \notin Missing
      /\ Expanded(Expanded(value)) = Expanded(value)
  BY StrippedValues
<1>2. Normal(field, value) = Expanded(value)
  BY NormalForms
<1> DEFINE n == Expanded(value)
<1> HIDE DEF n
<1>3. Normal(field, n) = Expanded(n)
  BY <1>1, NormalForms DEF n
<1> QED
  BY <1>1, <1>2, <1>3, WrittenValues DEF n

LEMMA TripBase ==
  ASSUME NEW value \in Values, value \notin Missing
  PROVE  LET n == Expanded(Stripped(value))
         IN  /\ Normal("base_image_path", value) = n /\ Written(n) = n
             /\ Normal("base_image_path", n) = n /\ n \in Values
<1>1. Stripped(value) \in Values /\ Stripped(value) \notin Missing
  BY StrippedValues
<1> DEFINE n == Expanded(Stripped(value))
<1>2. n \in Values /\ n \notin Missing /\ Stripped(n) = n /\ Expanded(n) = n
  BY <1>1, StrippedValues
<1>3. Normal("base_image_path", value) = n
  BY NormalForms
<1> HIDE DEF n
<1>4. Normal("base_image_path", n) = Expanded(Stripped(n))
  BY <1>2, NormalForms
<1> QED
  BY <1>2, <1>3, <1>4, WrittenValues DEF n

\* and of a name that is no string.
LEMMA TripNoName ==
  ASSUME NEW field \in Names, NEW value \in Values, value \notin Strings
  PROVE  Normal(field, value) = "None" /\ Normal(field, "null") = "None"
<1>1. Default(field) = "None"
  BY DEF Default, Names, Choices, Flags, Lists
<1>2. Normal(field, "null") = "None"
  BY <1>1, WrittenValues, NormalForms
<1> QED
  BY <1>1, <1>2, NormalForms

\* An accepted value is kept by writing and reading, and accepted again.
Kept(field, value) ==
    /\ Normal(field, value) \in Values \cup {"None"}
    /\ Written(Normal(field, value)) \in Accepts(field)
    /\ Normal(field, Written(Normal(field, value))) = Normal(field, value)

LEMMA FieldRoundTrip ==
  ASSUME NEW field \in Fields, NEW value \in Accepts(field)
  PROVE  Kept(field, value)
<1>1. CASE field = "base_image_path"
  <2>1. Accepts(field) = Strings \ {"blank"} /\ Default(field) = "None"
    BY <1>1, FieldForms
  <2>2. value \in Values
    BY <2>1 DEF Values, Strings, Missing, Texts
  <2>4. value \notin Missing
    BY <2>1 DEF Strings, Missing
  <2>5. Expanded(Stripped(value)) \in Accepts(field)
    BY <2>1 DEF Expanded, Stripped, Strings
  <2> QED
    BY <1>1, <2>2, <2>4, <2>5, TripBase DEF Kept
<1>2. CASE field = "bridge_name"
  <2>1. Accepts(field) = Strings \ {"blank"} /\ Default(field) = "None"
    BY <1>2, FieldForms
  <2>2. value \in Values
    BY <2>1 DEF Values, Strings, Missing, Texts
  <2>3. /\ field \notin {"base_image_path", "static_mac_address"} /\ field \notin RequiredArtifacts
        /\ field \notin OptionalArtifacts
        /\ field \notin Names
    BY <1>2 DEF Names, Choices, Flags, Lists, RequiredArtifacts, OptionalArtifacts
  <2>4. value \notin Missing /\ (field \in Names => value \in Strings) => Kept(field, value)
    <3> SUFFICES ASSUME value \notin Missing, field \in Names => value \in Strings
                 PROVE  Kept(field, value)
      OBVIOUS
    <3>1. Stripped(value) \in Accepts(field)
      BY <2>1, <2>2 DEF Stripped, Values, Strings, Missing, Texts
    <3> QED
      BY <2>2, <2>3, <3>1, TripStripped DEF Kept
  <2>5. value \notin Missing
    BY <2>1 DEF Strings, Missing
  <2> QED
    BY <2>3, <2>4, <2>5
<1>3. CASE field \in {"vcpus", "memory_mb"}
  <2>1. Accepts(field) = {"positive", "true"} /\ Default(field) = "None"
    BY <1>3, FieldForms
  <2>2. value \in Values
    BY <2>1 DEF Values, Strings, Missing, Texts
  <2>3. /\ field \notin {"base_image_path", "static_mac_address"} /\ field \notin RequiredArtifacts
        /\ field \notin OptionalArtifacts
        /\ field \notin Names
    BY <1>3 DEF Names, Choices, Flags, Lists, RequiredArtifacts, OptionalArtifacts
  <2>4. value \notin Missing /\ (field \in Names => value \in Strings) => Kept(field, value)
    <3> SUFFICES ASSUME value \notin Missing, field \in Names => value \in Strings
                 PROVE  Kept(field, value)
      OBVIOUS
    <3>1. Stripped(value) \in Accepts(field)
      BY <2>1, <2>2 DEF Stripped, Values, Strings, Missing, Texts
    <3> QED
      BY <2>2, <2>3, <3>1, TripStripped DEF Kept
  <2>5. value \notin Missing
    BY <2>1 DEF Strings, Missing
  <2> QED
    BY <2>3, <2>4, <2>5
<1>4. CASE field \in Names
  <2>1. Accepts(field) = Values \ {"blank"} /\ Default(field) = "None"
    BY <1>4, FieldForms
  <2>2. value \in Values
    BY <2>1 DEF Values, Strings, Missing, Texts
  <2>3. /\ field \notin {"base_image_path", "static_mac_address"} /\ field \notin RequiredArtifacts
        /\ field \notin OptionalArtifacts
    BY <1>4 DEF Names, Choices, Flags, Lists, RequiredArtifacts, OptionalArtifacts
  <2>4. value \notin Missing /\ (field \in Names => value \in Strings) => Kept(field, value)
    <3> SUFFICES ASSUME value \notin Missing, field \in Names => value \in Strings
                 PROVE  Kept(field, value)
      OBVIOUS
    <3>1. Stripped(value) \in Accepts(field)
      BY <2>1, <2>2 DEF Stripped, Values, Strings, Missing, Texts
    <3> QED
      BY <2>2, <2>3, <3>1, TripStripped DEF Kept
  <2>5. value \in Missing => Kept(field, value)
    <3>1. /\ Default(field) \in Defaults /\ Default(field) \in Values \cup {"None"}
          /\ value \in Missing => Written(Default(field)) \in Accepts(field)
      BY <2>1, WrittenValues DEF Defaults, Values, Written, Missing, Strings
    <3> QED
      BY <2>1, <2>3, <3>1, TripMissing DEF Kept
  <2>6. value \notin Strings => Kept(field, value)
    <3>1. "null" \in Accepts(field)
      BY <2>1 DEF Values, Strings, Missing
    <3> QED
      BY <1>4, <2>2, <3>1, TripNoName, WrittenValues DEF Kept
  <2> QED
    BY <2>4, <2>5, <2>6
<1>5. CASE field = "disk_size_gb"
  <2>1. Accepts(field) = Missing \cup {"positive", "true"} /\ Default(field) = "None"
    BY <1>5, FieldForms
  <2>2. value \in Values
    BY <2>1 DEF Values, Strings, Missing, Texts
  <2>3. /\ field \notin {"base_image_path", "static_mac_address"} /\ field \notin RequiredArtifacts
        /\ field \notin OptionalArtifacts
        /\ field \notin Names
    BY <1>5 DEF Names, Choices, Flags, Lists, RequiredArtifacts, OptionalArtifacts
  <2>4. value \notin Missing /\ (field \in Names => value \in Strings) => Kept(field, value)
    <3> SUFFICES ASSUME value \notin Missing, field \in Names => value \in Strings
                 PROVE  Kept(field, value)
      OBVIOUS
    <3>1. Stripped(value) \in Accepts(field)
      BY <2>1, <2>2 DEF Stripped, Values, Strings, Missing, Texts
    <3> QED
      BY <2>2, <2>3, <3>1, TripStripped DEF Kept
  <2>5. value \in Missing => Kept(field, value)
    <3>1. /\ Default(field) \in Defaults /\ Default(field) \in Values \cup {"None"}
          /\ value \in Missing => Written(Default(field)) \in Accepts(field)
      BY <2>1, WrittenValues DEF Defaults, Values, Written, Missing, Strings
    <3> QED
      BY <2>1, <2>3, <3>1, TripMissing DEF Kept
  <2> QED
    BY <2>3, <2>4, <2>5
<1>6. CASE field \in Choices
  <2>1. Accepts(field) = {"absent", "virtio", "choice"} /\ Default(field) = "virtio"
    BY <1>6, FieldForms
  <2>2. value \in Values
    BY <2>1 DEF Values, Strings, Missing, Texts
  <2>3. /\ field \notin {"base_image_path", "static_mac_address"} /\ field \notin RequiredArtifacts
        /\ field \notin OptionalArtifacts
        /\ field \notin Names
    BY <1>6 DEF Names, Choices, Flags, Lists, RequiredArtifacts, OptionalArtifacts
  <2>4. value \notin Missing /\ (field \in Names => value \in Strings) => Kept(field, value)
    <3> SUFFICES ASSUME value \notin Missing, field \in Names => value \in Strings
                 PROVE  Kept(field, value)
      OBVIOUS
    <3>1. Stripped(value) \in Accepts(field)
      BY <2>1, <2>2 DEF Stripped, Values, Strings, Missing, Texts
    <3> QED
      BY <2>2, <2>3, <3>1, TripStripped DEF Kept
  <2>5. value \in Missing => Kept(field, value)
    <3>1. /\ Default(field) \in Defaults /\ Default(field) \in Values \cup {"None"}
          /\ value \in Missing => Written(Default(field)) \in Accepts(field)
      BY <2>1, WrittenValues DEF Defaults, Values, Written, Missing, Strings
    <3> QED
      BY <2>1, <2>3, <3>1, TripMissing DEF Kept
  <2> QED
    BY <2>3, <2>4, <2>5
<1>7. CASE field = "qemu_gdb_debug"
  <2>1. Accepts(field) = {"absent", "true", "false"} /\ Default(field) = "false"
    BY <1>7, FieldForms
  <2>2. value \in Values
    BY <2>1 DEF Values, Strings, Missing, Texts
  <2>3. /\ field \notin {"base_image_path", "static_mac_address"} /\ field \notin RequiredArtifacts
        /\ field \notin OptionalArtifacts
        /\ field \notin Names
    BY <1>7 DEF Names, Choices, Flags, Lists, RequiredArtifacts, OptionalArtifacts
  <2>4. value \notin Missing /\ (field \in Names => value \in Strings) => Kept(field, value)
    <3> SUFFICES ASSUME value \notin Missing, field \in Names => value \in Strings
                 PROVE  Kept(field, value)
      OBVIOUS
    <3>1. Stripped(value) \in Accepts(field)
      BY <2>1, <2>2 DEF Stripped, Values, Strings, Missing, Texts
    <3> QED
      BY <2>2, <2>3, <3>1, TripStripped DEF Kept
  <2>5. value \in Missing => Kept(field, value)
    <3>1. /\ Default(field) \in Defaults /\ Default(field) \in Values \cup {"None"}
          /\ value \in Missing => Written(Default(field)) \in Accepts(field)
      BY <2>1, WrittenValues DEF Defaults, Values, Written, Missing, Strings
    <3> QED
      BY <2>1, <2>3, <3>1, TripMissing DEF Kept
  <2> QED
    BY <2>3, <2>4, <2>5
<1>8. CASE field \in Flags \ {"qemu_gdb_debug"}
  <2>1. Accepts(field) = {"absent", "true", "false"} /\ Default(field) = "true"
    BY <1>8, FieldForms
  <2>2. value \in Values
    BY <2>1 DEF Values, Strings, Missing, Texts
  <2>3. /\ field \notin {"base_image_path", "static_mac_address"} /\ field \notin RequiredArtifacts
        /\ field \notin OptionalArtifacts
        /\ field \notin Names
    BY <1>8 DEF Names, Choices, Flags, Lists, RequiredArtifacts, OptionalArtifacts
  <2>4. value \notin Missing /\ (field \in Names => value \in Strings) => Kept(field, value)
    <3> SUFFICES ASSUME value \notin Missing, field \in Names => value \in Strings
                 PROVE  Kept(field, value)
      OBVIOUS
    <3>1. Stripped(value) \in Accepts(field)
      BY <2>1, <2>2 DEF Stripped, Values, Strings, Missing, Texts
    <3> QED
      BY <2>2, <2>3, <3>1, TripStripped DEF Kept
  <2>5. value \in Missing => Kept(field, value)
    <3>1. /\ Default(field) \in Defaults /\ Default(field) \in Values \cup {"None"}
          /\ value \in Missing => Written(Default(field)) \in Accepts(field)
      BY <2>1, WrittenValues DEF Defaults, Values, Written, Missing, Strings
    <3> QED
      BY <2>1, <2>3, <3>1, TripMissing DEF Kept
  <2> QED
    BY <2>3, <2>4, <2>5
<1>9. CASE field = "hostname"
  <2>1. Accepts(field) = Missing \cup (Strings \ {"blank"}) /\ Default(field) = "None"
    BY <1>9, FieldForms
  <2>2. value \in Values
    BY <2>1 DEF Values, Strings, Missing, Texts
  <2>3. /\ field \notin {"base_image_path", "static_mac_address"} /\ field \notin RequiredArtifacts
        /\ field \notin OptionalArtifacts
        /\ field \notin Names
    BY <1>9 DEF Names, Choices, Flags, Lists, RequiredArtifacts, OptionalArtifacts
  <2>4. value \notin Missing /\ (field \in Names => value \in Strings) => Kept(field, value)
    <3> SUFFICES ASSUME value \notin Missing, field \in Names => value \in Strings
                 PROVE  Kept(field, value)
      OBVIOUS
    <3>1. Stripped(value) \in Accepts(field)
      BY <2>1, <2>2 DEF Stripped, Values, Strings, Missing, Texts
    <3> QED
      BY <2>2, <2>3, <3>1, TripStripped DEF Kept
  <2>5. value \in Missing => Kept(field, value)
    <3>1. /\ Default(field) \in Defaults /\ Default(field) \in Values \cup {"None"}
          /\ value \in Missing => Written(Default(field)) \in Accepts(field)
      BY <2>1, WrittenValues DEF Defaults, Values, Written, Missing, Strings
    <3> QED
      BY <2>1, <2>3, <3>1, TripMissing DEF Kept
  <2> QED
    BY <2>3, <2>4, <2>5
<1>10. CASE field = "static_mac_address"
  <2>1. Accepts(field) = Missing \cup {"text", "upper"} /\ Default(field) = "None"
    BY <1>10, FieldForms
  <2>2. value \in Values
    BY <2>1 DEF Values, Strings, Missing, Texts
  <2>4. value \notin Missing => Kept(field, value)
    BY <1>10, <2>1, NormalForms, WrittenValues DEF Kept
  <2>5. value \in Missing => Kept(field, value)
    <3>1. /\ Default(field) \in Defaults /\ Default(field) \in Values \cup {"None"}
          /\ value \in Missing => Written(Default(field)) \in Accepts(field)
      BY <2>1, WrittenValues DEF Defaults, Values, Written, Missing, Strings
    <3> QED
      BY <2>1, <3>1, TripMissing DEF Kept
  <2> QED
    BY <2>4, <2>5
<1>11. CASE field = "selinux_mode"
  <2>1. Accepts(field) = Missing \cup {"choice"} /\ Default(field) = "None"
    BY <1>11, FieldForms
  <2>2. value \in Values
    BY <2>1 DEF Values, Strings, Missing, Texts
  <2>3. /\ field \notin {"base_image_path", "static_mac_address"} /\ field \notin RequiredArtifacts
        /\ field \notin OptionalArtifacts
        /\ field \notin Names
    BY <1>11 DEF Names, Choices, Flags, Lists, RequiredArtifacts, OptionalArtifacts
  <2>4. value \notin Missing /\ (field \in Names => value \in Strings) => Kept(field, value)
    <3> SUFFICES ASSUME value \notin Missing, field \in Names => value \in Strings
                 PROVE  Kept(field, value)
      OBVIOUS
    <3>1. Stripped(value) \in Accepts(field)
      BY <2>1, <2>2 DEF Stripped, Values, Strings, Missing, Texts
    <3> QED
      BY <2>2, <2>3, <3>1, TripStripped DEF Kept
  <2>5. value \in Missing => Kept(field, value)
    <3>1. /\ Default(field) \in Defaults /\ Default(field) \in Values \cup {"None"}
          /\ value \in Missing => Written(Default(field)) \in Accepts(field)
      BY <2>1, WrittenValues DEF Defaults, Values, Written, Missing, Strings
    <3> QED
      BY <2>1, <2>3, <3>1, TripMissing DEF Kept
  <2> QED
    BY <2>3, <2>4, <2>5
<1>12. CASE field \in Lists
  <2>1. Accepts(field) = Missing \cup {"[]"} \cup Texts /\ Default(field) = "[]"
    BY <1>12, FieldForms
  <2>2. value \in Values
    BY <2>1 DEF Values, Strings, Missing, Texts
  <2>3. /\ field \notin {"base_image_path", "static_mac_address"} /\ field \notin RequiredArtifacts
        /\ field \notin OptionalArtifacts
        /\ field \notin Names
    BY <1>12 DEF Names, Choices, Flags, Lists, RequiredArtifacts, OptionalArtifacts
  <2>4. value \notin Missing /\ (field \in Names => value \in Strings) => Kept(field, value)
    <3> SUFFICES ASSUME value \notin Missing, field \in Names => value \in Strings
                 PROVE  Kept(field, value)
      OBVIOUS
    <3>1. Stripped(value) \in Accepts(field)
      BY <2>1, <2>2 DEF Stripped, Values, Strings, Missing, Texts
    <3> QED
      BY <2>2, <2>3, <3>1, TripStripped DEF Kept
  <2>5. value \in Missing => Kept(field, value)
    <3>1. /\ Default(field) \in Defaults /\ Default(field) \in Values \cup {"None"}
          /\ value \in Missing => Written(Default(field)) \in Accepts(field)
      BY <2>1, WrittenValues DEF Defaults, Values, Written, Missing, Strings
    <3> QED
      BY <2>1, <2>3, <3>1, TripMissing DEF Kept
  <2> QED
    BY <2>3, <2>4, <2>5
<1>13. CASE field = "root_ssh_authorized_keys"
  <2>1. Accepts(field) = {"keys", "padded keys"} /\ Default(field) = "None"
    BY <1>13, FieldForms
  <2>2. value \in Values
    BY <2>1 DEF Values, Strings, Missing, Texts
  <2>3. /\ field \notin {"base_image_path", "static_mac_address"} /\ field \notin RequiredArtifacts
        /\ field \notin OptionalArtifacts
        /\ field \notin Names
    BY <1>13 DEF Names, Choices, Flags, Lists, RequiredArtifacts, OptionalArtifacts
  <2>4. value \notin Missing /\ (field \in Names => value \in Strings) => Kept(field, value)
    <3> SUFFICES ASSUME value \notin Missing, field \in Names => value \in Strings
                 PROVE  Kept(field, value)
      OBVIOUS
    <3>1. Stripped(value) \in Accepts(field)
      BY <2>1, <2>2 DEF Stripped, Values, Strings, Missing, Texts
    <3> QED
      BY <2>2, <2>3, <3>1, TripStripped DEF Kept
  <2>5. value \notin Missing
    BY <2>1 DEF Strings, Missing
  <2> QED
    BY <2>3, <2>4, <2>5
<1>14. CASE field = "copy_files"
  <2>1. Accepts(field) = Missing \cup {"[]", "specs"} /\ Default(field) = "[]"
    BY <1>14, FieldForms
  <2>2. value \in Values
    BY <2>1 DEF Values, Strings, Missing, Texts
  <2>3. /\ field \notin {"base_image_path", "static_mac_address"} /\ field \notin RequiredArtifacts
        /\ field \notin OptionalArtifacts
        /\ field \notin Names
    BY <1>14 DEF Names, Choices, Flags, Lists, RequiredArtifacts, OptionalArtifacts
  <2>4. value \notin Missing /\ (field \in Names => value \in Strings) => Kept(field, value)
    <3> SUFFICES ASSUME value \notin Missing, field \in Names => value \in Strings
                 PROVE  Kept(field, value)
      OBVIOUS
    <3>1. Stripped(value) \in Accepts(field)
      BY <2>1, <2>2 DEF Stripped, Values, Strings, Missing, Texts
    <3> QED
      BY <2>2, <2>3, <3>1, TripStripped DEF Kept
  <2>5. value \in Missing => Kept(field, value)
    <3>1. /\ Default(field) \in Defaults /\ Default(field) \in Values \cup {"None"}
          /\ value \in Missing => Written(Default(field)) \in Accepts(field)
      BY <2>1, WrittenValues DEF Defaults, Values, Written, Missing, Strings
    <3> QED
      BY <2>1, <2>3, <3>1, TripMissing DEF Kept
  <2> QED
    BY <2>3, <2>4, <2>5
<1>15. CASE field \in RequiredArtifacts
  <2>1. Accepts(field) = Strings \ {"blank"} /\ Default(field) = "None"
    BY <1>15, FieldForms
  <2>2. value \in Values
    BY <2>1 DEF Values, Strings, Missing, Texts
  <2>4. value \notin Missing => Kept(field, value)
    <3>1. Expanded(value) \in Accepts(field)
      BY <2>1, <2>2 DEF Expanded, Values, Strings, Missing
    <3> QED
      BY <1>15, <2>2, <3>1, TripArtifact DEF Kept
  <2>5. value \notin Missing
    BY <2>1 DEF Strings, Missing
  <2> QED
    BY <2>4, <2>5
<1>16. CASE field \in OptionalArtifacts
  <2>1. Accepts(field) = Missing \cup (Strings \ {"blank"}) /\ Default(field) = "None"
    BY <1>16, FieldForms
  <2>2. value \in Values
    BY <2>1 DEF Values, Strings, Missing, Texts
  <2>4. value \notin Missing => Kept(field, value)
    <3>1. Expanded(value) \in Accepts(field)
      BY <2>1, <2>2 DEF Expanded, Values, Strings, Missing
    <3> QED
      BY <1>16, <2>2, <3>1, TripArtifact DEF Kept
  <2>5. value \in Missing => Kept(field, value)
    <3>1. /\ Default(field) \in Defaults /\ Default(field) \in Values \cup {"None"}
          /\ value \in Missing => Written(Default(field)) \in Accepts(field)
      BY <2>1, WrittenValues DEF Defaults, Values, Written, Missing, Strings
    <3> QED
      BY <2>1, <3>1, TripMissing DEF Kept
  <2> QED
    BY <2>4, <2>5
<1>17. CASE field = "cloud_init_user_data_overrides"
  <2>1. Accepts(field) = Missing \cup {"{}", "{runcmd}"} /\ Default(field) = "{}"
    BY <1>17, FieldForms
  <2>2. value \in Values
    BY <2>1 DEF Values, Strings, Missing, Texts
  <2>3. /\ field \notin {"base_image_path", "static_mac_address"} /\ field \notin RequiredArtifacts
        /\ field \notin OptionalArtifacts
        /\ field \notin Names
    BY <1>17 DEF Names, Choices, Flags, Lists, RequiredArtifacts, OptionalArtifacts
  <2>4. value \notin Missing /\ (field \in Names => value \in Strings) => Kept(field, value)
    <3> SUFFICES ASSUME value \notin Missing, field \in Names => value \in Strings
                 PROVE  Kept(field, value)
      OBVIOUS
    <3>1. Stripped(value) \in Accepts(field)
      BY <2>1, <2>2 DEF Stripped, Values, Strings, Missing, Texts
    <3> QED
      BY <2>2, <2>3, <3>1, TripStripped DEF Kept
  <2>5. value \in Missing => Kept(field, value)
    <3>1. /\ Default(field) \in Defaults /\ Default(field) \in Values \cup {"None"}
          /\ value \in Missing => Written(Default(field)) \in Accepts(field)
      BY <2>1, WrittenValues DEF Defaults, Values, Written, Missing, Strings
    <3> QED
      BY <2>1, <2>3, <3>1, TripMissing DEF Kept
  <2> QED
    BY <2>3, <2>4, <2>5
<1> QED
  BY <1>1, <1>2, <1>3, <1>4, <1>5, <1>6, <1>7, <1>8, <1>9, <1>10, <1>11, <1>12, <1>13, <1>14, <1>15, <1>16, <1>17 DEF Fields, Flags

\* What normalized-config.yaml says of a configuration is accepted and read as it.
LEMMA RoundTrip ==
  ASSUME NEW raw \in [Fields -> Values], Accepted(raw)
  PROVE  /\ Accepted(ToDict(Validated(raw)))
         /\ Validated(ToDict(Validated(raw))) = Validated(raw)
         /\ Validated(raw) \in [Fields -> Values \cup {"None"}]
<1> DEFINE config1 == Validated(raw)
           again == ToDict(config1)
<1>1. \A field \in Fields : Kept(field, raw[field])
  BY FieldRoundTrip DEF Accepted
<1>2. /\ config1 = [field \in Fields |-> Normal(field, raw[field])]
      /\ again = [field \in Fields |-> Written(Normal(field, raw[field]))]
  BY DEF Validated, ToDict, Written
<1>3. Validated(again) = config1
  BY <1>1, <1>2 DEF Validated, Kept
<1>4. \A field \in Fields : again[field] \in Accepts(field)
  BY <1>1, <1>2 DEF Kept
<1>5. \E name \in Names : again[name] \in Strings
  <2>1. PICK name \in Names : raw[name] \in Strings
    BY DEF Accepted
  <2>2. name \in Fields /\ raw[name] \in Values /\ raw[name] \notin Missing
        /\ name \notin {"base_image_path", "static_mac_address"} /\ name \notin RequiredArtifacts
        /\ name \notin OptionalArtifacts
    BY <2>1 DEF Fields, Names, Values, Strings, Missing, RequiredArtifacts, OptionalArtifacts
  <2>3. again[name] = Stripped(raw[name])
    BY <1>2, <2>1, <2>2, TripStripped
  <2>4. Stripped(raw[name]) \in Strings
    BY <2>1 DEF Stripped, Strings
  <2> QED
    BY <2>3, <2>4
<1>6. again.kernel_image # "dot" => again.kernel_cmdline_append \in {"roots", "padded roots"}
  <2>1. /\ "kernel_image" \in Fields /\ "kernel_image" \in RequiredArtifacts
        /\ "kernel_cmdline_append" \in Fields
        /\ "kernel_cmdline_append" \notin {"base_image_path", "static_mac_address"} \cup Names
        /\ "kernel_cmdline_append" \notin RequiredArtifacts
        /\ "kernel_cmdline_append" \notin OptionalArtifacts
    BY DEF Fields, Names, Lists, RequiredArtifacts, OptionalArtifacts
  <2>2. SUFFICES ASSUME again.kernel_image # "dot"
                 PROVE  again.kernel_cmdline_append \in {"roots", "padded roots"}
    OBVIOUS
  <2>3. raw.kernel_image # "dot"
    <3>1. SUFFICES ASSUME raw.kernel_image = "dot" PROVE FALSE
      OBVIOUS
    <3>2. "dot" \in Values /\ "dot" \notin Missing /\ Expanded("dot") = "dot"
      BY DEF Values, Strings, Missing, Expanded
    <3>3. again.kernel_image = "dot"
      BY <1>2, <2>1, <3>1, <3>2, TripArtifact
    <3> QED
      BY <2>2, <3>3
  <2>4. raw.kernel_cmdline_append \in {"roots", "padded roots"}
    BY <2>3 DEF Accepted
  <2>5. raw.kernel_cmdline_append \in Values \ Missing
    BY <2>4 DEF Values, Missing
  <2>6. again.kernel_cmdline_append = Stripped(raw.kernel_cmdline_append)
    BY <1>2, <2>1, <2>5, TripStripped
  <2> QED
    BY <2>4, <2>6 DEF Stripped
<1>7. Accepted(again)
  BY <1>4, <1>5, <1>6 DEF Accepted
<1>8. config1 \in [Fields -> Values \cup {"None"}]
  BY <1>1, <1>2 DEF Kept
<1> QED
  BY <1>3, <1>7, <1>8

Early == {"new", "check", "snapshot", "lost"}

ConfigInv ==
    /\ document \in Raws
    /\ pc # "new" => \E raw \in Raws : Accepted(raw) /\ config = Validated(raw)
    /\ pc \notin Early => normalized = ToDict(config)
    /\ pc \in Early => ~seeded
    /\ pc = "running" => started = config

LEMMA ConfigInvStep == ConfigInv /\ [Next]_vars => ConfigInv'
<1> SUFFICES ASSUME ConfigInv, [Next]_vars PROVE ConfigInv'
  OBVIOUS
<1> USE DEF ConfigInv, Early, host, documents, staged, disks, created, guest
<1>1. CASE Edit
  BY <1>1 DEF Edit
<1>2. CASE Load
  BY <1>2 DEF Load
<1>3. CASE ValidateHost
  BY <1>3 DEF ValidateHost
<1>4. CASE Snapshot
  BY <1>4 DEF Snapshot
<1>5. CASE Stage
  BY <1>5 DEF Stage
<1>6. CASE StageKernel
  BY <1>6 DEF StageKernel
<1>7. CASE WriteScript
  BY <1>7 DEF WriteScript
<1>8. CASE Visit
  BY <1>8 DEF Visit
<1>9. CASE BuildImage
  BY <1>9 DEF BuildImage
<1>10. CASE BuildSeed
  BY <1>10 DEF BuildSeed
<1>11. CASE Launch
  BY <1>11 DEF Launch, Boot, LaunchFails
<1>12. CASE StartAgain
  <2>1. PICK raw \in Raws : Accepted(raw) /\ config = Validated(raw)
    BY <1>12 DEF StartAgain
  <2>2. normalized = ToDict(config)
    BY <1>12 DEF StartAgain
  <2>3. Validated(normalized) = config
    BY <2>1, <2>2, RoundTrip, RawsAssumption
  <2> QED
    BY <1>12, <2>3 DEF StartAgain, Boot, LaunchFails
<1>13. CASE Stop
  BY <1>13 DEF Stop
<1>14. CASE Guest
  BY <1>14 DEF Guest, Locate, Copy, Extract, CheckModules, CopyBootConfig, FirstBootCommands,
                Provisions
<1>15. CASE UNCHANGED vars
  BY <1>15 DEF vars
<1> QED
  BY <1>1, <1>2, <1>3, <1>4, <1>5, <1>6, <1>7, <1>8, <1>9, <1>10, <1>11, <1>12, <1>13, <1>14, <1>15
  DEF Next, Create

LEMMA ConfigInvHolds == Spec => []ConfigInv
<1>1. Init => ConfigInv
  BY DEF Init, ConfigInv, Early
<1> QED
  BY <1>1, ConfigInvStep, PTL DEF Spec

\* A run is started with the configuration that was validated when it was created.
THEOREM StartsAsCreatedHolds == Spec => []StartsAsCreated
<1>1. ConfigInv => StartsAsCreated
  <2> SUFFICES ASSUME ConfigInv PROVE StartsAsCreated
    OBVIOUS
  <2>1. seeded => Accepted(normalized)
    <3>1. SUFFICES ASSUME seeded PROVE Accepted(normalized)
      OBVIOUS
    <3>2. PICK raw \in Raws : Accepted(raw) /\ config = Validated(raw)
      BY <3>1 DEF ConfigInv, Early
    <3>3. normalized = ToDict(config)
      BY <3>1 DEF ConfigInv
    <3> QED
      BY <3>2, <3>3, RoundTrip, RawsAssumption
  <2> QED
    BY <2>1 DEF ConfigInv, StartsAsCreated
<1> QED
  BY <1>1, ConfigInvHolds, PTL

-----------------------------------------------------------------------------
(***************************************************************************)
(* The payload image.                                                      *)
(***************************************************************************)
\* The least multiple of the alignment that is not below the value.
LEMMA AlignUp ==
  ASSUME NEW value \in Nat
  PROVE  LET aligned == _align_up(value, PAYLOAD_IMAGE_ALIGN_BYTES)
         IN  /\ aligned \in Nat /\ aligned >= value
             /\ aligned % PAYLOAD_IMAGE_ALIGN_BYTES = 0
             /\ aligned < value + PAYLOAD_IMAGE_ALIGN_BYTES
<1>1. PAYLOAD_IMAGE_ALIGN_BYTES = 4194304
  BY SMT DEF PAYLOAD_IMAGE_ALIGN_BYTES, MiB
<1>2. PICK r \in Int : r = value % 4194304
  BY SMT
<1>3. 0 <= r /\ r < 4194304
  BY <1>2, SMT
<1>4. r # 0 => (value + 4194304 - r) % 4194304 = 0
  BY <1>2, SMT
<1>5. _align_up(value, 4194304) = IF r = 0 THEN value ELSE value + 4194304 - r
  BY <1>2, SMT DEF _align_up
<1> DEFINE aligned == _align_up(value, 4194304)
<1> HIDE DEF aligned
<1>6. aligned \in Nat /\ aligned >= value /\ aligned < value + 4194304
  BY <1>3, <1>5, SMT DEF aligned
<1>7. aligned % 4194304 = 0
  <2>1. CASE r = 0
    BY <1>2, <1>5, <2>1, SMT DEF aligned
  <2>2. CASE r # 0
    BY <1>4, <1>5, <2>2, SMT DEF aligned
  <2> QED
    BY <2>1, <2>2
<1> QED
  BY <1>1, <1>6, <1>7, SMT DEF aligned

LEMMA BlocksHold ==
  ASSUME NEW size \in Nat
  PROVE  Blocks(size) \in Nat /\ 4096 * Blocks(size) <= size + 4096
BY SMT DEF Blocks, KiB

Walks == [todo : Seq(Entry), total : Nat, inodes : Nat, blocks : Nat]

ImageInv ==
    /\ walk \in Walks
    /\ walk.blocks * 4096 <= walk.total + walk.inodes * 4096
    /\ image \in Nat
    /\ pc \in Early \cup {"stage", "script", "walk"} => image = 0
    /\ ImageFits

LEMMA ImageIsLarge ==
  ASSUME walk \in Walks, walk.blocks * 4096 <= walk.total + walk.inodes * 4096
  PROVE  LET size == calculate_payload_image_size
         IN  /\ size \in Nat /\ size % PAYLOAD_IMAGE_ALIGN_BYTES = 0
             /\ size >= PAYLOAD_IMAGE_MIN_BYTES
             /\ size >= walk.blocks * (4 * KiB) + PAYLOAD_IMAGE_BASE_OVERHEAD_BYTES + walk.total \div 10
<1> DEFINE total == walk.total
           inodes == walk.inodes
           blocks == walk.blocks
           spare == total \div 10
           overhead == 67108864 + Larger(16777216, spare) + inodes * 4096
           needed == Larger(134217728, total + overhead)
<1>1. total \in Nat /\ inodes \in Nat /\ blocks \in Nat
  BY DEF Walks
<1>2. spare \in Nat
  BY <1>1, SMT
<1>3. KiB = 1024 /\ MiB = 1048576
  BY SMT DEF KiB, MiB
<1>4. calculate_payload_image_size = _align_up(needed, PAYLOAD_IMAGE_ALIGN_BYTES)
  BY <1>3 DEF calculate_payload_image_size, PAYLOAD_IMAGE_MIN_BYTES, PAYLOAD_IMAGE_BASE_OVERHEAD_BYTES
<1> HIDE DEF spare
<1>5. overhead \in Nat /\ overhead >= 67108864 + spare + inodes * 4096
  BY <1>1, <1>2, SMT DEF Larger
<1> HIDE DEF overhead
<1>6. needed \in Nat /\ needed >= 134217728 /\ needed >= total + overhead
  BY <1>1, <1>5, SMT DEF Larger
<1> HIDE DEF needed
<1>7. needed >= blocks * 4096 + 67108864 + spare
  BY <1>1, <1>2, <1>5, <1>6, SMT
<1> DEFINE size == _align_up(needed, PAYLOAD_IMAGE_ALIGN_BYTES)
<1> HIDE DEF size
<1>8. size \in Nat /\ size >= needed /\ size % PAYLOAD_IMAGE_ALIGN_BYTES = 0
  BY <1>6, AlignUp, SMT DEF size
<1>9. size >= blocks * 4096 + 67108864 + spare /\ size >= 134217728
  BY <1>1, <1>2, <1>6, <1>7, <1>8, SMT
<1>10. PAYLOAD_IMAGE_MIN_BYTES = 134217728 /\ PAYLOAD_IMAGE_BASE_OVERHEAD_BYTES = 67108864
       /\ 4 * KiB = 4096
  BY <1>3, SMT DEF PAYLOAD_IMAGE_MIN_BYTES, PAYLOAD_IMAGE_BASE_OVERHEAD_BYTES
<1> QED
  BY <1>4, <1>8, <1>9, <1>10, SMT DEF size, spare

LEMMA ImageInvStep == ImageInv /\ [Next]_vars => ImageInv'
<1> SUFFICES ASSUME ImageInv, [Next]_vars PROVE ImageInv'
  OBVIOUS
<1> USE DEF host, documents, staged, disks, created, guest
<1>0. walk \in Walks /\ image \in Nat
  BY DEF ImageInv
<1>1. ASSUME UNCHANGED <<walk, image>>,
             pc' \in Early \cup {"stage", "script", "walk"} => pc \in Early \cup {"stage", "script", "walk"}
      PROVE  ImageInv'
  BY <1>1 DEF ImageInv, ImageFits, Walks
<1>2. CASE Edit \/ Load \/ ValidateHost \/ Snapshot \/ Stage \/ StageKernel
  <2>1. UNCHANGED <<walk, image>>
    BY <1>2 DEF Edit, Load, ValidateHost, Snapshot, Stage, StageKernel
  <2>2. pc' \in Early \cup {"stage", "script", "walk"} => pc \in Early \cup {"stage", "script", "walk"}
    BY <1>2 DEF Edit, Load, ValidateHost, Snapshot, Stage, StageKernel, Early
  <2> QED
    BY <1>1, <2>1, <2>2
<1>3. CASE BuildSeed \/ Launch \/ StartAgain \/ Stop \/ Guest \/ UNCHANGED vars
  <2>1. UNCHANGED <<walk, image>>
    BY <1>3 DEF BuildSeed, Launch, StartAgain, Stop, Guest, Locate, Copy, Extract, CheckModules,
                CopyBootConfig, FirstBootCommands, vars
  <2>2. pc' \in Early \cup {"stage", "script", "walk"} => pc \in Early \cup {"stage", "script", "walk"}
    BY <1>3 DEF BuildSeed, Launch, StartAgain, Stop, Guest, Locate, Copy, Extract, CheckModules,
                CopyBootConfig, FirstBootCommands, Boot, LaunchFails, Early, vars
  <2> QED
    BY <1>1, <2>1, <2>2
<1>4. CASE WriteScript
  <2>1. PICK tree \in Trees : walk' = [NoWalk EXCEPT !.todo = tree]
    BY <1>4 DEF WriteScript
  <2>2. tree \in Seq(Entry)
    BY TreesAssumption
  <2>3. walk' = [todo |-> tree, total |-> 0, inodes |-> 0, blocks |-> 0]
    BY <2>1 DEF NoWalk
  <2>4. image' = 0
    BY <1>4 DEF WriteScript, ImageInv
  <2> QED
    BY <2>2, <2>3, <2>4 DEF ImageInv, ImageFits, Walks
<1>5. CASE Visit
  <2> DEFINE entry == Head(walk.todo)
             size == IF entry.kind = "file" THEN entry.n ELSE 0
             inode == IF entry.kind = "file" THEN 1 ELSE 1 + entry.n
             block == IF entry.kind = "file" THEN Blocks(entry.n) ELSE 1
  <2>1. walk.todo \in Seq(Entry) /\ walk.todo # <<>>
    BY <1>0, <1>5 DEF Walks, Visit
  <2>2. entry \in Entry /\ Tail(walk.todo) \in Seq(Entry)
    BY <2>1
  <2>3. size \in Nat /\ inode \in Nat /\ block \in Nat /\ block * 4096 <= size + inode * 4096
    <3>1. entry.n \in Nat
      BY <2>2 DEF Entry
    <3>2. CASE entry.kind = "file"
      <4>1. Blocks(entry.n) \in Nat /\ 4096 * Blocks(entry.n) <= entry.n + 4096
        BY <3>1, BlocksHold
      <4> QED
        BY <3>1, <3>2, <4>1, SMT
    <3>3. CASE entry.kind # "file"
      <4>1. size = 0 /\ inode = 1 + entry.n /\ block = 1
        BY <3>3
      <4> QED
        BY <3>1, <4>1, SMT
    <3> QED
      BY <3>2, <3>3
  <2>4. walk' = [todo |-> Tail(walk.todo), total |-> walk.total + size,
                 inodes |-> walk.inodes + inode, blocks |-> walk.blocks + block]
    BY <1>5 DEF Visit
  <2>5. walk.total \in Nat /\ walk.inodes \in Nat /\ walk.blocks \in Nat
    BY <1>0 DEF Walks
  <2> HIDE DEF entry, size, inode, block
  <2>6. (walk.blocks + block) * 4096 <= walk.total + size + (walk.inodes + inode) * 4096
    BY <2>3, <2>5 DEF ImageInv
  <2>7. image' = 0
    BY <1>5 DEF Visit, ImageInv
  <2> QED
    <3>1. walk.total + size \in Nat /\ walk.inodes + inode \in Nat /\ walk.blocks + block \in Nat
      BY <2>3, <2>5, SMT
    <3>2. walk' \in Walks
      BY <2>2, <2>4, <3>1 DEF Walks
    <3>3. walk'.blocks * 4096 <= walk'.total + walk'.inodes * 4096
      BY <2>4, <2>6
    <3> QED
      BY <2>7, <3>2, <3>3 DEF ImageInv, ImageFits
<1>6. CASE BuildImage
  <2>1. UNCHANGED walk /\ pc' \in {"seed", "failed"}
    BY <1>6 DEF BuildImage
  <2>2. image' = 0 \/ image' = calculate_payload_image_size
    BY <1>6 DEF BuildImage
  <2>3. image' \in Nat /\ ImageFits'
    BY <1>0, <2>1, <2>2, ImageIsLarge DEF ImageInv, ImageFits
  <2> QED
    BY <1>0, <2>1, <2>3 DEF ImageInv, Early, Walks
<1> QED
  BY <1>2, <1>3, <1>4, <1>5, <1>6 DEF Next, Create

\* The payload image holds the payload, however many files it has and of any size.
THEOREM ImageFitsHolds == Spec => []ImageFits
<1>1. Init => ImageInv
  <2> SUFFICES ASSUME Init PROVE ImageInv
    OBVIOUS
  <2>1. walk = [todo |-> <<>>, total |-> 0, inodes |-> 0, blocks |-> 0] /\ image = 0
    BY DEF Init, NoWalk
  <2> QED
    BY <2>1 DEF ImageInv, ImageFits, Walks
<1>2. ImageInv => ImageFits
  BY DEF ImageInv
<1> QED
  BY <1>1, <1>2, ImageInvStep, PTL DEF Spec

-----------------------------------------------------------------------------
(***************************************************************************)
(* The first boot.                                                         *)
(***************************************************************************)
LEMMA PayloadIsThere ==
  ASSUME NEW vm
  PROVE  \E i \in 2..Len(VirtioDisks(vm)) : VirtioDisks(vm)[i] = "payload"
<1>1. CASE vm.disk_bus = "virtio"
  <2>1. VirtioDisks(vm) = <<"overlay", "seed", "payload">>
    BY <1>1 DEF VirtioDisks
  <2>2. 3 \in 2..Len(VirtioDisks(vm)) /\ VirtioDisks(vm)[3] = "payload"
    BY <2>1
  <2> QED
    BY <2>2
<1>2. CASE vm.disk_bus # "virtio"
  <2>1. VirtioDisks(vm) = <<"seed", "payload">>
    BY <1>2 DEF VirtioDisks
  <2>2. 2 \in 2..Len(VirtioDisks(vm)) /\ VirtioDisks(vm)[2] = "payload"
    BY <2>1
  <2> QED
    BY <2>2
<1> QED
  BY <1>1, <1>2

\* The locator finds the payload on whichever bus the overlay is.
THEOREM PayloadFoundHolds == Spec => []PayloadFound
<1>1. Init => PayloadFound
  BY DEF Init, PayloadFound
<1>2. PayloadFound /\ [Next]_vars => PayloadFound'
  <2> SUFFICES ASSUME PayloadFound, [Next]_vars PROVE PayloadFound'
    OBVIOUS
  <2> USE DEF PayloadFound, host, documents, staged, disks, created, guest
  <2>1. CASE Edit \/ Create \/ StartAgain \/ Stop \/ UNCHANGED vars
    BY <2>1 DEF Edit, Create, Load, ValidateHost, Snapshot, Stage, StageKernel, WriteScript, Visit,
                BuildImage, BuildSeed, Launch, StartAgain, Stop, vars
  <2>2. CASE Locate
    BY <2>2, PayloadIsThere DEF Locate
  <2>3. CASE Copy \/ Extract \/ CheckModules \/ CopyBootConfig \/ FirstBootCommands
    BY <2>3 DEF Copy, Extract, CheckModules, CopyBootConfig, FirstBootCommands, Ends
  <2> QED
    BY <2>1, <2>2, <2>3 DEF Next, Guest
<1> QED
  BY <1>1, <1>2, PTL DEF Spec

\* Between two boots cloud-init is at its beginning or at its end; what is checked
\* against the archive is what is staged and what was booted.
ModulesInv ==
    /\ pc # "running" => step \in {"fresh", "done", "cut"}
    /\ step \in {"boot", "commands"} => release \in modules
    /\ step = "modules" => archived.flat \/ archived.releases \subseteq modules
    /\ seeded => pc \in {"launch", "running", "off", "failed"}
    /\ pc = "running" => seeded
    /\ checked => archive.releases = {kernel.release}
    /\ checked /\ (seeded \/ pc \in {"script", "walk", "seed", "launch"}) => archived = archive
    /\ checked /\ pc = "running" => release = kernel.release

LEMMA ModulesInvStep == ModulesInv /\ [Next]_vars => ModulesInv'
<1> SUFFICES ASSUME ModulesInv, [Next]_vars PROVE ModulesInv'
  OBVIOUS
<1> USE DEF ModulesInv, host, documents, staged, disks, created, guest
<1>1. CASE Edit
  BY <1>1 DEF Edit
<1>2. CASE Load
  BY <1>2 DEF Load
<1>3. CASE ValidateHost
  BY <1>3 DEF ValidateHost, Compatible
<1>4. CASE Snapshot
  BY <1>4 DEF Snapshot
<1>5. CASE Stage
  BY <1>5 DEF Stage
<1>6. CASE StageKernel
  BY <1>6 DEF StageKernel
<1>7. CASE WriteScript
  BY <1>7 DEF WriteScript
<1>8. CASE Visit
  BY <1>8 DEF Visit
<1>9. CASE BuildImage
  BY <1>9 DEF BuildImage
<1>10. CASE BuildSeed
  BY <1>10 DEF BuildSeed
<1>11. CASE Launch
  BY <1>11 DEF Launch, Boot, LaunchFails
<1>12. CASE StartAgain
  BY <1>12 DEF StartAgain, Boot, LaunchFails
<1>13. CASE Stop
  BY <1>13 DEF Stop
<1>14. CASE Locate
  BY <1>14 DEF Locate, Ends
<1>15. CASE Copy
  BY <1>15 DEF Copy, Provisions, Ends
<1>16. CASE Extract
  BY <1>16 DEF Extract, Provisions, Ends
<1>17. CASE CheckModules
  BY <1>17 DEF CheckModules, Provisions, Ends
<1>18. CASE CopyBootConfig
  BY <1>18 DEF CopyBootConfig, Provisions
<1>19. CASE FirstBootCommands
  BY <1>19 DEF FirstBootCommands, Provisions, Ends
<1>20. CASE UNCHANGED vars
  BY <1>20 DEF vars
<1> QED
  BY <1>1, <1>2, <1>3, <1>4, <1>5, <1>6, <1>7, <1>8, <1>9, <1>10, <1>11, <1>12, <1>13, <1>14, <1>15, <1>16,
     <1>17, <1>18, <1>19, <1>20
  DEF Next, Create, Guest

LEMMA ModulesInvHolds == Spec => []ModulesInv
<1>1. Init => ModulesInv
  BY DEF Init, ModulesInv
<1> QED
  BY <1>1, ModulesInvStep, PTL DEF Spec

\* What create found to match matches on the first boot.
THEOREM CheckedFitsHolds == Spec => []CheckedFits
<1>1. ModulesInv => CheckedFits
  BY DEF ModulesInv, CheckedFits
<1> QED
  BY <1>1, ModulesInvHolds, PTL

\* No guest reports success without modules for the kernel that it runs.
THEOREM ModulesMatchHolds == Spec => ModulesMatch
<1>1. ModulesInv /\ [Next]_vars =>
        [status' = "success" /\ status # "success" => release \in modules]_vars
  <2> SUFFICES ASSUME ModulesInv, Next, status' = "success", status # "success"
               PROVE  release \in modules
    BY DEF vars
  <2> USE DEF host, documents, staged, disks, created, guest
  <2>1. CASE Edit \/ Create \/ StartAgain \/ Stop
    BY <2>1 DEF Edit, Create, Load, ValidateHost, Snapshot, Stage, StageKernel, WriteScript, Visit,
                BuildImage, BuildSeed, Launch, StartAgain, Stop
  <2>2. CASE Locate \/ Copy \/ Extract \/ CheckModules \/ CopyBootConfig
    BY <2>2 DEF Locate, Copy, Extract, CheckModules, CopyBootConfig, Ends
  <2>3. CASE FirstBootCommands
    BY <2>3 DEF FirstBootCommands, Provisions, ModulesInv
  <2> QED
    BY <2>1, <2>2, <2>3 DEF Next, Guest
<1> QED
  BY <1>1, ModulesInvHolds, PTL DEF Spec, ModulesMatch

-----------------------------------------------------------------------------
(***************************************************************************)
(* Types, variable by variable.                                            *)
(***************************************************************************)
HostTypes ==
    /\ document \in Raws
    /\ sources \in [DOMAIN Copies -> Types]
    /\ kernel \in Kernel
    /\ archive \in Archive
    /\ names \in [Artifacts -> BaseNames]
    /\ edits \in 0..MaxEdits

ConfigTypes ==
    \A c \in {config, snapshot, normalized, started} : c \in [Fields -> Values \cup {"None"}]

StagedTypes ==
    /\ archived \in Archive
    /\ \A at \in DOMAIN payload :
         payload[at].type \in {"file", "dir"} /\ payload[at].of \in DOMAIN Copies
    /\ \A name \in DOMAIN kernelFiles : name \in BaseNames /\ kernelFiles[name] \in Artifacts
    /\ \A i \in DOMAIN script : script[i] \in {"file", "dir"}

Labels == {"new", "check", "snapshot", "stage", "script", "walk", "seed", "launch", "running",
           "off", "failed", "lost"}

ControlTypes == pc \in Labels /\ index \in Nat /\ checked \in BOOLEAN /\ seeded \in BOOLEAN

GuestTypes ==
    /\ release \in Releases
    /\ step \in {"fresh", "copy", "modules", "boot", "commands", "done", "cut"}
    /\ files \in [Dests -> [type : Types, holds : SUBSET DOMAIN Copies]]
    /\ modules \subseteq Releases
    /\ bootConfig \in Artifacts \cup {"none"}
    /\ status \in {"none", "payload device not found", "failed", "success"}

LEMMA TypeParts ==
  ASSUME HostTypes, ConfigTypes, StagedTypes, ControlTypes, GuestTypes, ImageInv
  PROVE  TypeOK
<1>1. walk \in [todo : Seq(Entry), total : Nat, inodes : Nat, blocks : Nat] /\ image \in Nat
  BY DEF ImageInv, Walks
<1> HIDE DEF ImageInv
<1> QED
  BY <1>1, Zenon DEF HostTypes, ConfigTypes, StagedTypes, ControlTypes, GuestTypes, TypeOK, Labels

LEMMA HostTypesStep == HostTypes /\ [Next]_vars => HostTypes'
<1> SUFFICES ASSUME HostTypes, [Next]_vars PROVE HostTypes'
  OBVIOUS
<1> USE DEF HostTypes
<1>1. CASE Edit
  <2>1. edits' \in 0..MaxEdits
    BY <1>1, MaxEditsAssumption DEF Edit
  <2>2. sources' \in [DOMAIN Copies -> Types]
    BY <1>1 DEF Edit
  <2>3. /\ document' \in Raws /\ kernel' \in Kernel /\ archive' \in Archive
        /\ names' \in [Artifacts -> BaseNames]
    BY <1>1, ArchivesAssumption DEF Edit
  <2> QED
    BY <2>1, <2>2, <2>3
<1>2. CASE Load \/ ValidateHost \/ Snapshot \/ Stage \/ StageKernel \/ WriteScript \/ Visit
           \/ BuildImage \/ BuildSeed \/ Launch \/ StartAgain \/ Stop \/ Locate \/ Copy \/
           Extract \/ CheckModules \/ CopyBootConfig \/ FirstBootCommands \/ UNCHANGED vars
  <2>1. UNCHANGED host
    BY <1>2 DEF host, Load, ValidateHost, Snapshot, Stage, StageKernel, WriteScript, Visit,
           BuildImage, BuildSeed, Launch, StartAgain, Stop, Locate, Copy, Extract,
           CheckModules, CopyBootConfig, FirstBootCommands, vars
  <2> QED
    BY <2>1 DEF host
<1> QED
  BY <1>1, <1>2 DEF Next, Create, Guest

LEMMA ConfigTypesStep ==
  ConfigTypes /\ ConfigInv /\ [Next]_vars => ConfigTypes'
<1> SUFFICES ASSUME ConfigTypes, ConfigInv, [Next]_vars PROVE ConfigTypes'
  OBVIOUS
<1> USE DEF documents, created
<1> DEFINE Configs == [Fields -> Values \cup {"None"}]
<1>0. config \in Configs /\ snapshot \in Configs /\ normalized \in Configs /\ started \in Configs
  BY DEF ConfigTypes
<1>1. CASE Load
  <2>1. config' = Validated(document) /\ Accepted(document) /\ document \in [Fields -> Values]
    BY <1>1, RawsAssumption DEF Load, ConfigInv
  <2>2. config' \in Configs
    BY <2>1, RoundTrip
  <2> QED
    BY <1>0, <1>1, <2>2 DEF Load, ConfigTypes
<1>2. CASE Snapshot
  <2>1. snapshot' \in Configs
    <3>1. document \in Configs
      BY RawsAssumption DEF ConfigInv
    <3> QED
      BY <1>0, <1>2, <3>1 DEF Snapshot
  <2>2. ToDict(config) \in Configs
    <3>1. "null" \in Values
      BY WrittenValues
    <3> QED
      BY <1>0, <3>1 DEF ToDict
  <2> QED
    BY <1>0, <1>2, <2>1, <2>2 DEF Snapshot, ConfigTypes
<1>3. CASE Launch
  BY <1>0, <1>3 DEF Launch, Boot, LaunchFails, ConfigTypes
<1>4. CASE StartAgain
  <2>1. PICK raw \in Raws : Accepted(raw) /\ config = Validated(raw)
    BY <1>4 DEF StartAgain, ConfigInv
  <2>2. normalized = ToDict(config)
    BY <1>4 DEF StartAgain, ConfigInv, Early
  <2>3. Validated(normalized) = config
    BY <2>1, <2>2, RoundTrip, RawsAssumption
  <2> QED
    BY <1>0, <1>4, <2>3 DEF StartAgain, Boot, LaunchFails, ConfigTypes
<1>5. CASE Edit \/ ValidateHost \/ Stage \/ StageKernel \/ WriteScript \/ Visit \/
           BuildImage \/ BuildSeed \/ Stop \/ Locate \/ Copy \/ Extract \/ CheckModules \/
           CopyBootConfig \/ FirstBootCommands \/ UNCHANGED vars
  <2>1. UNCHANGED <<documents, started>>
    BY <1>5 DEF Edit, ValidateHost, Stage, StageKernel, WriteScript, Visit, BuildImage,
           BuildSeed, Stop, Locate, Copy, Extract, CheckModules, CopyBootConfig,
           FirstBootCommands, vars
  <2> QED
    BY <1>0, <2>1 DEF ConfigTypes
<1> QED
  BY <1>1, <1>2, <1>3, <1>4, <1>5 DEF Next, Create, Guest

LEMMA ControlTypesStep == ControlTypes /\ [Next]_vars => ControlTypes'
<1> SUFFICES ASSUME ControlTypes, [Next]_vars PROVE ControlTypes'
  OBVIOUS
<1> USE DEF ControlTypes, Labels, disks, created, host
<1>1. CASE Edit
  BY <1>1 DEF Edit
<1>2. CASE Load
  BY <1>2 DEF Load
<1>3. CASE ValidateHost
  BY <1>3 DEF ValidateHost, ArchiveTold
<1>4. CASE Snapshot
  BY <1>4 DEF Snapshot
<1>5. CASE Stage
  BY <1>5 DEF Stage
<1>6. CASE StageKernel
  BY <1>6 DEF StageKernel
<1>7. CASE WriteScript
  BY <1>7 DEF WriteScript
<1>8. CASE Visit
  BY <1>8 DEF Visit
<1>9. CASE BuildImage
  BY <1>9 DEF BuildImage
<1>10. CASE BuildSeed
  BY <1>10 DEF BuildSeed
<1>11. CASE Launch
  BY <1>11 DEF Launch, Boot, LaunchFails
<1>12. CASE StartAgain
  BY <1>12 DEF StartAgain, Boot, LaunchFails
<1>13. CASE Stop
  BY <1>13 DEF Stop
<1>14. CASE Locate
  BY <1>14 DEF Locate, Ends
<1>15. CASE Copy
  BY <1>15 DEF Copy, Provisions, Ends
<1>16. CASE Extract
  BY <1>16 DEF Extract
<1>17. CASE CheckModules
  BY <1>17 DEF CheckModules
<1>18. CASE CopyBootConfig
  BY <1>18 DEF CopyBootConfig
<1>19. CASE FirstBootCommands
  BY <1>19 DEF FirstBootCommands
<1>20. CASE UNCHANGED vars
  BY <1>20 DEF vars
<1> QED
  BY <1>1, <1>2, <1>3, <1>4, <1>5, <1>6, <1>7, <1>8, <1>9, <1>10,
     <1>11, <1>12, <1>13, <1>14, <1>15, <1>16, <1>17, <1>18, <1>19, <1>20 DEF Next, Create, Guest

\* An artifact has the name last; that is config's, if it has it.
LEMMA LastNames ==
  ASSUME NEW name \in {names[Order[k]] : k \in Configured}
  PROVE  /\ LastNamed(name) \in Artifacts
         /\ 3 \in Configured /\ names.config = name => LastNamed(name) = "config"
<1> DEFINE Q(k) == /\ names[Order[k]] = name
                   /\ \A l \in Configured : names[Order[l]] = name => l <= k
<1>1. Configured \subseteq {1, 2, 3}
  BY DEF Configured
<1>2. PICK k \in Configured : names[Order[k]] = name
  OBVIOUS
<1>3. \E m \in Configured : Q(m)
  BY <1>1, <1>2
<1> DEFINE m == CHOOSE m \in Configured : Q(m)
<1>4. m \in Configured /\ Q(m)
  BY <1>3
<1>5. LastNamed(name) = Order[m]
  BY DEF LastNamed
<1> HIDE DEF m
<1>6. /\ Order[1] = "kernel_modules_archive" /\ Order[2] = "system_map" /\ Order[3] = "config"
  BY DEF Order
<1>7. LastNamed(name) \in Artifacts
  BY <1>1, <1>4, <1>5, <1>6 DEF Artifacts
<1>8. 3 \in Configured /\ names.config = name => m = 3
  BY <1>1, <1>4, <1>6
<1> QED
  BY <1>5, <1>6, <1>7, <1>8

LEMMA StagedTypesStep ==
  StagedTypes /\ HostTypes /\ [Next]_vars => StagedTypes'
<1> SUFFICES ASSUME StagedTypes, HostTypes, [Next]_vars PROVE StagedTypes'
  OBVIOUS
<1> USE DEF staged, created
<1>1. CASE Stage
  <2> DEFINE i == index + 1
  <2>1. UNCHANGED <<archived, kernelFiles, script>>
    BY <1>1 DEF Stage
  <2>2. CASE UNCHANGED payload
    BY <2>1, <2>2 DEF StagedTypes
  <2>3. CASE payload' # payload
    <3>1. /\ i \in DOMAIN Copies /\ sources[i] # "none"
          /\ payload' = [at \in DOMAIN payload \cup {Target(i)} |->
               IF at = Target(i) THEN [type |-> sources[i], of |-> i] ELSE payload[at]]
      BY <1>1, <2>3 DEF Stage, Mappings, Exists
    <3>2. sources[i] \in {"file", "dir"}
      BY <3>1 DEF HostTypes, Types
    <3>3. \A at \in DOMAIN payload' :
            payload'[at].type \in {"file", "dir"} /\ payload'[at].of \in DOMAIN Copies
      BY <3>1, <3>2 DEF StagedTypes
    <3> QED
      BY <2>1, <3>3 DEF StagedTypes
  <2> QED
    BY <2>2, <2>3
<1>2. CASE StageKernel
  <2>1. UNCHANGED <<payload, script>> /\ archived' \in Archive
    BY <1>2 DEF StageKernel, StagedTypes, HostTypes
  <2>2. CASE UNCHANGED kernelFiles
    BY <2>1, <2>2 DEF StagedTypes
  <2>3. CASE kernelFiles' = [name \in {names[Order[k]] : k \in Configured} |-> LastNamed(name)]
    <3>1. \A k \in Configured : Order[k] \in Artifacts
      BY DEF Configured, Order, Artifacts
    <3>2. \A name \in DOMAIN kernelFiles' : name \in BaseNames /\ kernelFiles'[name] \in Artifacts
      BY <2>3, <3>1, LastNames DEF HostTypes
    <3> QED
      BY <2>1, <3>2 DEF StagedTypes
  <2> QED
    BY <1>2, <2>2, <2>3 DEF StageKernel
<1>3. CASE WriteScript
  BY <1>3 DEF WriteScript, StagedTypes
<1>4. CASE Edit \/ Load \/ ValidateHost \/ Snapshot \/ Visit \/ BuildImage \/ BuildSeed \/
           Launch \/ StartAgain \/ Stop \/ Locate \/ Copy \/ Extract \/ CheckModules \/
           CopyBootConfig \/ FirstBootCommands \/ UNCHANGED vars
  <2>1. UNCHANGED staged
    BY <1>4 DEF Edit, Load, ValidateHost, Snapshot, Visit, BuildImage, BuildSeed, Launch,
           StartAgain, Stop, Locate, Copy, Extract, CheckModules, CopyBootConfig,
           FirstBootCommands, vars
  <2> QED
    BY <2>1 DEF StagedTypes
<1> QED
  BY <1>1, <1>2, <1>3, <1>4 DEF Next, Create, Guest

\* What the payload holds from when it is made.
Made == seeded \/ pc \in {"script", "walk", "seed", "launch"}

Staged(i) == Target(i) \in DOMAIN payload /\ payload[Target(i)].of = i

PayloadInv ==
    /\ pc \in Early => index = 0
    /\ index \in Nat
    /\ pc = "stage" => \A i \in 1..index : Staged(i)
    /\ Made => \A i \in Mappings : Staged(i)
    /\ Made /\ config.config # "None" => kernelFiles[names.config] = "config"
    /\ seeded \/ pc \in {"walk", "seed", "launch"} => DOMAIN script = Mappings
    /\ seeded => pc \in {"launch", "running", "off", "failed"}

LEMMA MappingsForm ==
  /\ Len(Copies) \in Nat /\ DOMAIN Copies = 1..Len(Copies)
  /\ Mappings = DOMAIN Copies \/ Mappings = {}
  /\ \A i \in DOMAIN Copies : Copies[i].dest \in Dests
<1>1. Len(Copies) \in Nat /\ DOMAIN Copies = 1..Len(Copies)
  BY CopiesAssumption
<1>2. Mappings = DOMAIN Copies \/ Mappings = {}
  BY DEF Mappings
<1>3. ASSUME NEW i \in DOMAIN Copies PROVE Copies[i].dest \in Dests
  <2> DEFINE Mapping == [dest : Dests, name : BaseNames]
  <2>0. Copies \in Seq(Mapping) /\ i \in 1..Len(Copies)
    BY CopiesAssumption, <1>1
  <2>1. Copies[i] \in Mapping
    <3> HIDE DEF Mapping
    <3> QED
      BY <2>0
  <2> QED
    BY <2>1
<1>4. \A i \in DOMAIN Copies : Copies[i].dest \in Dests
  BY <1>3
<1> QED
  BY <1>1, <1>2, <1>4, Zenon

LEMMA PayloadInvStep == PayloadInv /\ [Next]_vars => PayloadInv'
<1> SUFFICES ASSUME PayloadInv, [Next]_vars PROVE PayloadInv'
  OBVIOUS
<1> USE DEF Early, Made
<1>1. CASE Load \/ ValidateHost \/ Snapshot
  BY <1>1 DEF Load, ValidateHost, Snapshot, PayloadInv, disks, created
<1>2. CASE Stage
  <2> DEFINE i == index + 1
  <2>1. UNCHANGED <<config, seeded>> /\ ~seeded /\ pc = "stage" /\ index \in Nat
    BY <1>2 DEF Stage, PayloadInv, documents, disks
  <2>2. CASE pc' = "failed"
    BY <1>2, <2>1, <2>2 DEF PayloadInv, Stage
  <2>3. CASE pc' # "failed"
    <3>1. /\ payload' = [at \in DOMAIN payload \cup {Target(i)} |->
               IF at = Target(i) THEN [type |-> sources[i], of |-> i] ELSE payload[at]]
          /\ index' = i /\ pc' = "stage"
      BY <1>2, <2>3 DEF Stage
    <3>2. \A j \in 1..i : Staged(j)'
      <4> SUFFICES ASSUME NEW j \in 1..i PROVE Staged(j)'
        OBVIOUS
      <4>1. CASE j = i
        BY <3>1, <4>1 DEF Staged, Target
      <4>2. CASE j # i
        <5>1. Staged(j) /\ Target(j) # Target(i)
          BY <2>1, <4>2 DEF PayloadInv, Target
        <5> QED
          BY <3>1, <5>1 DEF Staged, Target
      <4> QED
        BY <4>1, <4>2
    <3> QED
      BY <2>1, <3>1, <3>2 DEF PayloadInv
  <2> QED
    BY <2>2, <2>3
<1>3. CASE StageKernel
  <2>1. /\ UNCHANGED <<config, names, seeded, index, payload>> /\ ~seeded /\ pc = "stage"
        /\ index \in Nat /\ index + 1 \notin Mappings
    BY <1>3 DEF StageKernel, PayloadInv, documents, disks, host
  <2>2. CASE pc' = "failed"
    BY <2>1, <2>2 DEF PayloadInv
  <2>3. CASE pc' # "failed"
    <3>1. /\ pc' = "script"
          /\ kernelFiles' = [name \in {names[Order[k]] : k \in Configured} |-> LastNamed(name)]
      BY <1>3, <2>3 DEF StageKernel
    <3>2. \A i \in Mappings : i \in 1..index
      BY <2>1, MappingsForm
    <3>3. \A i \in Mappings : Staged(i)
      BY <2>1, <3>2 DEF PayloadInv
    <3>4. (\A i \in Mappings : Staged(i))'
      BY <2>1, <3>3 DEF Mappings, Staged, Target
    <3>5. config.config # "None" => kernelFiles'[names.config] = "config"
      <4>1. SUFFICES ASSUME config.config # "None" PROVE kernelFiles'[names.config] = "config"
        OBVIOUS
      <4>2. 3 \in Configured /\ Order[3] = "config"
        BY <4>1 DEF Configured, Order
      <4>3. names.config \in {names[Order[k]] : k \in Configured}
        BY <4>2
      <4> QED
        BY <3>1, <4>2, <4>3, LastNames
    <3> QED
      BY <2>1, <3>1, <3>4, <3>5 DEF PayloadInv
  <2> QED
    BY <2>2, <2>3
<1>4. CASE WriteScript
  <2>1. /\ UNCHANGED <<config, names, kernelFiles, payload, seeded>> /\ index' = 0 /\ pc = "script"
        /\ pc' = "walk" /\ DOMAIN script' = Mappings
    BY <1>4 DEF WriteScript, documents, host
  <2>2. Mappings' = Mappings /\ \A i : Staged(i)' = Staged(i)
    BY <2>1 DEF Mappings, Staged, Target
  <2> QED
    BY <2>1, <2>2 DEF PayloadInv
<1>5. CASE Copy
  <2>1. UNCHANGED <<pc, config, names, kernelFiles, payload, script, seeded>> /\ pc = "running"
        /\ index' \in Nat
    BY <1>5 DEF Copy, Provisions, PayloadInv, created, documents, staged, disks, host
  <2>2. Mappings' = Mappings /\ \A i : Staged(i)' = Staged(i)
    BY <2>1 DEF Mappings, Staged, Target
  <2> QED
    BY <2>1, <2>2 DEF PayloadInv
<1>6. CASE Edit \/ Visit \/ BuildImage \/ BuildSeed \/ Launch \/ StartAgain \/ Stop \/ Locate
           \/ Extract \/ CheckModules \/ CopyBootConfig \/ FirstBootCommands \/ UNCHANGED vars
  <2>1. UNCHANGED <<config, names, kernelFiles, payload, script, index>>
    BY <1>6 DEF Edit, Visit, BuildImage, BuildSeed, Launch, StartAgain, Stop, Locate, Extract,
                CheckModules, CopyBootConfig, FirstBootCommands, vars, created, documents, staged, host
  <2>2. /\ Made' => Made
        /\ seeded' \/ pc' \in {"walk", "seed", "launch"} => seeded \/ pc \in {"walk", "seed", "launch"}
        /\ pc' \in Early => pc \in Early
        /\ pc' = "stage" => pc = "stage"
        /\ seeded' => pc' \in {"launch", "running", "off", "failed"}
    <3>0. seeded => pc \in {"launch", "running", "off", "failed"}
      BY DEF PayloadInv
    <3>1. CASE Edit \/ Visit \/ Locate \/ Extract \/ CheckModules \/ CopyBootConfig
               \/ FirstBootCommands \/ UNCHANGED vars
      <4>1. UNCHANGED <<pc, seeded>>
        BY <3>1 DEF Edit, Visit, Locate, Extract, CheckModules, CopyBootConfig, FirstBootCommands,
                    vars, created, disks
      <4> QED
        BY <3>0, <4>1
    <3>2. CASE BuildImage \/ Stop
      BY <3>0, <3>2 DEF BuildImage, Stop, created, disks
    <3>3. CASE BuildSeed
      BY <3>0, <3>3 DEF BuildSeed
    <3>4. CASE Launch \/ StartAgain
      BY <3>0, <3>4 DEF Launch, StartAgain, Boot, LaunchFails, created, disks
    <3> QED
      BY <1>6, <3>1, <3>2, <3>3, <3>4
  <2>3. Mappings' = Mappings /\ \A i : Staged(i)' = Staged(i)
    BY <2>1 DEF Mappings, Staged, Target
  <2> HIDE DEF Made
  <2> QED
    BY <2>1, <2>2, <2>3 DEF PayloadInv
<1> QED
  BY <1>1, <1>2, <1>3, <1>4, <1>5, <1>6 DEF Next, Create, Guest

LEMMA GuestTypesStep ==
  GuestTypes /\ HostTypes /\ StagedTypes /\ PayloadInv /\ ModulesInv /\ [Next]_vars => GuestTypes'
<1> SUFFICES ASSUME GuestTypes, HostTypes, StagedTypes, PayloadInv, ModulesInv, [Next]_vars
             PROVE  GuestTypes'
  OBVIOUS
<1> USE DEF guest
<1>1. CASE Launch \/ StartAgain
  <2>1. UNCHANGED guest /\ release' \in Releases
    BY <1>1 DEF Launch, StartAgain, Boot, LaunchFails, GuestTypes, HostTypes, Kernel
  <2> QED
    BY <2>1 DEF GuestTypes
<1>2. CASE Stop
  BY <1>2 DEF Stop, GuestTypes
<1>3. CASE Locate
  BY <1>3 DEF Locate, Ends, GuestTypes
<1>4. CASE Copy
  <2>1. /\ UNCHANGED <<release, modules, bootConfig>>
        /\ step' \in {step, "done"} /\ status' \in {status, "failed"}
        /\ files' \in [Dests -> [type : Types, holds : SUBSET DOMAIN Copies]]
    BY <1>4 DEF Copy, Ends, GuestTypes
  <2> QED
    BY <2>1 DEF GuestTypes
<1>5. CASE Extract
  <2>1. modules' \subseteq Releases
    BY <1>5 DEF Extract, GuestTypes, StagedTypes, Archive
  <2> QED
    BY <1>5, <2>1 DEF Extract, Ends, GuestTypes
<1>6. CASE CheckModules
  BY <1>6 DEF CheckModules, Ends, GuestTypes
<1>7. CASE CopyBootConfig
  <2>1. seeded
    BY <1>7 DEF CopyBootConfig, Provisions, ModulesInv
  <2>2. bootConfig' \in {bootConfig, "config"}
    BY <1>7, <2>1 DEF CopyBootConfig, PayloadInv, Made
  <2> QED
    BY <1>7, <2>2 DEF CopyBootConfig, GuestTypes, Artifacts
<1>8. CASE FirstBootCommands
  BY <1>8 DEF FirstBootCommands, Ends, GuestTypes
<1>9. CASE Edit \/ Load \/ ValidateHost \/ Snapshot \/ Stage \/ StageKernel \/ WriteScript
           \/ Visit \/ BuildImage \/ BuildSeed \/ UNCHANGED vars
  <2>1. UNCHANGED <<release, guest>>
    BY <1>9 DEF Edit, Load, ValidateHost, Snapshot, Stage, StageKernel, WriteScript, Visit,
           BuildImage, BuildSeed, vars
  <2> QED
    BY <2>1 DEF GuestTypes
<1> QED
  BY <1>1, <1>2, <1>3, <1>4, <1>5, <1>6, <1>7, <1>8, <1>9 DEF Next, Create, Guest

TypeInv ==
    /\ HostTypes /\ ConfigTypes /\ StagedTypes /\ ControlTypes /\ GuestTypes
    /\ ConfigInv /\ ImageInv /\ ModulesInv /\ PayloadInv

LEMMA TypeInvHolds == Spec => []TypeInv
<1>1. Init => TypeInv
  <2> SUFFICES ASSUME Init PROVE TypeInv
    OBVIOUS
  <2>1. HostTypes
    BY ArchivesAssumption, NamingsAssumption, MaxEditsAssumption DEF Init, HostTypes, Types
  <2>2. ConfigTypes
    <3>1. NoConfig \in [Fields -> Values \cup {"None"}]
      BY DEF NoConfig, Values
    <3> QED
      BY <3>1 DEF Init, ConfigTypes
  <2>3. StagedTypes
    BY DEF Init, StagedTypes, NoArchive, Archive
  <2>4. ControlTypes
    BY DEF Init, ControlTypes, Labels
  <2>5. GuestTypes
    BY BaseModulesAssumption DEF Init, GuestTypes, Types, Kernel
  <2>6. ConfigInv /\ ModulesInv /\ PayloadInv
    BY DEF Init, ConfigInv, ModulesInv, PayloadInv, Early, Made
  <2>7. ImageInv
    <3>1. walk = [todo |-> <<>>, total |-> 0, inodes |-> 0, blocks |-> 0] /\ image = 0
      BY DEF Init, NoWalk
    <3> QED
      BY <3>1 DEF ImageInv, ImageFits, Walks
  <2> QED
    BY <2>1, <2>2, <2>3, <2>4, <2>5, <2>6, <2>7 DEF TypeInv
<1>2. TypeInv /\ [Next]_vars => TypeInv'
  BY HostTypesStep, ConfigTypesStep, StagedTypesStep, ControlTypesStep, GuestTypesStep,
     ConfigInvStep, ImageInvStep, ModulesInvStep, PayloadInvStep DEF TypeInv
<1> QED
  BY <1>1, <1>2, PTL DEF Spec

\* Every variable keeps its type; in particular whatever is staged is there, and the
\* script takes it for a file or a directory.
THEOREM ProvisioningTypes == Spec => []TypeOK
<1>1. TypeInv => TypeOK
  BY TypeParts DEF TypeInv
<1> QED
  BY <1>1, TypeInvHolds, PTL

-----------------------------------------------------------------------------
(***************************************************************************)
(* Delivery: what the first n mappings have brought to the guest.          *)
(***************************************************************************)
Held(i) == i \in files[Copies[i].dest].holds

HeldUpTo(n) ==
    \A i \in DOMAIN script :
        /\ i <= n
        /\ Taken(i)
        /\ \A j \in DOMAIN script : j <= n /\ Copies[j].dest = Copies[i].dest => j <= i
        => Held(i)

DeliveredInv ==
    /\ pc \in {"walk", "seed", "launch"} \/ (seeded /\ step = "fresh") => index = 0
    /\ step # "fresh" => seeded
    /\ status # "none" => step = "done"
    /\ step = "copy" => HeldUpTo(index)
    /\ step \in {"modules", "boot", "commands"} \/ status = "success" =>
         \A i \in DOMAIN script : Taken(i) /\ LastToDest(i) => Held(i)
    /\ bootConfig \in {"none", "config"}

LEMMA DeliveredInvStep == DeliveredInv /\ TypeInv /\ [Next]_vars => DeliveredInv'
<1> SUFFICES ASSUME DeliveredInv, TypeInv, [Next]_vars PROVE DeliveredInv'
  OBVIOUS
<1>0. PayloadInv /\ ModulesInv /\ GuestTypes
  BY DEF TypeInv
<1>1. CASE Load \/ ValidateHost \/ Snapshot \/ Stage \/ StageKernel \/ WriteScript
  <2>1. ~seeded /\ UNCHANGED <<seeded, guest>>
    BY <1>0, <1>1 DEF Load, ValidateHost, Snapshot, Stage, StageKernel, WriteScript, PayloadInv,
                      disks, created
  <2>2. pc' \in {"walk", "seed", "launch"} => index' = 0
    BY <1>1 DEF Load, ValidateHost, Snapshot, Stage, StageKernel, WriteScript
  <2> QED
    BY <2>1, <2>2 DEF DeliveredInv, guest
<1>2. CASE Copy
  <2> DEFINE i == index + 1
             dest == Copies[i].dest
  <2>1. /\ pc = "running" /\ step = "copy" /\ i \in DOMAIN script /\ seeded /\ status = "none"
        /\ UNCHANGED <<pc, payload, script, seeded, bootConfig>>
    BY <1>0, <1>2 DEF Copy, Provisions, ModulesInv, DeliveredInv, created, staged, disks
  <2>2. CASE Ends("failed")
    BY <2>1, <2>2 DEF Ends, DeliveredInv
  <2>3. CASE ~Ends("failed")
    <3>1. PICK after \in [type : Types, holds : SUBSET DOMAIN Copies] :
            /\ Leaves(script[i], payload[Target(i)], files[dest], after)
            /\ files' = [files EXCEPT ![dest] = after]
      BY <1>2, <2>3 DEF Copy
    <3>2. index' = i /\ UNCHANGED <<step, status>>
      BY <1>2, <2>3 DEF Copy
    <3>3. /\ DOMAIN script = Mappings /\ i \in DOMAIN Copies /\ payload[Target(i)].of = i
          /\ index \in Nat /\ Mappings \subseteq 1..Len(Copies) /\ Len(Copies) \in Nat
      BY <1>0, <2>1, MappingsForm DEF PayloadInv, Made, Staged
    <3>4. dest \in Dests /\ files \in [Dests -> [type : Types, holds : SUBSET DOMAIN Copies]]
      BY <1>0, <3>3, MappingsForm DEF GuestTypes
    <3>5. files'[dest] = after /\ \A d \in Dests : d # dest => files'[d] = files[d]
      BY <3>1, <3>4
    <3>6. Taken(i) => i \in after.holds
      BY <3>1, <3>3 DEF Leaves, Taken
    <3>7. HeldUpTo(index)'
      <4> SUFFICES ASSUME NEW j \in DOMAIN script, j <= i, Taken(j),
                          \A k \in DOMAIN script : k <= i /\ Copies[k].dest = Copies[j].dest => k <= j
                   PROVE  j \in files'[Copies[j].dest].holds
        BY <2>1, <3>2 DEF HeldUpTo, Held, Taken, Target
      <4>a. DOMAIN script \subseteq 1..Len(Copies)
        BY <3>3, Zenon
      <4>b. j \in 1..Len(Copies)
        BY <4>a, Zenon
      <4>c. ASSUME NEW k \in DOMAIN script PROVE k \in Nat
        <5>1. k \in 1..Len(Copies)
          BY <4>a, Zenon
        <5> QED
          BY <5>1
      <4>0. j \in 1..Len(Copies) /\ \A k \in DOMAIN script : k \in Nat
        BY <4>b, <4>c, Zenon
      <4>1. CASE j = i
        BY <3>5, <3>6, <4>1
      <4>2. CASE j # i
        <5>1. j <= index /\ j < i
          BY <3>3, <4>0, <4>2
        <5>2. Copies[j].dest # dest
          BY <2>1, <3>3, <4>0, <5>1
        <5>3. \A k \in DOMAIN script : k <= index /\ Copies[k].dest = Copies[j].dest => k <= j
          BY <3>3, <4>0
        <5>4. Held(j)
          BY <2>1, <5>1, <5>3 DEF DeliveredInv, HeldUpTo
        <5>5. Copies[j].dest \in Dests
          BY <4>0, MappingsForm
        <5> QED
          BY <3>5, <5>2, <5>4, <5>5 DEF Held
      <4> QED
        BY <4>1, <4>2
    <3> QED
      BY <2>1, <3>2, <3>7 DEF DeliveredInv
  <2> QED
    BY <2>2, <2>3
<1>3. CASE Extract
  <2>1. /\ pc = "running" /\ step = "copy" /\ index + 1 \notin DOMAIN script /\ seeded /\ status = "none"
        /\ UNCHANGED <<pc, payload, script, seeded, bootConfig, files, index>>
        /\ \/ step' = "modules" /\ status' = status
           \/ step' = "done" /\ status' = "failed"
    BY <1>0, <1>3 DEF Extract, Provisions, Ends, ModulesInv, DeliveredInv, created, staged, disks
  <2>2. DOMAIN script = Mappings /\ index \in Nat
    BY <1>0, <2>1 DEF PayloadInv
  <2>3. \A i \in DOMAIN script : i <= index
    BY <2>1, <2>2, MappingsForm
  <2>4. \A i \in DOMAIN script : Taken(i) /\ LastToDest(i) => Held(i)
    BY <2>1, <2>3 DEF DeliveredInv, HeldUpTo, LastToDest
  <2>5. (\A i \in DOMAIN script : Taken(i) /\ LastToDest(i) => Held(i))'
    BY <2>1, <2>4 DEF Taken, LastToDest, Held, Target
  <2> QED
    BY <2>1, <2>5 DEF DeliveredInv
<1>4. CASE CopyBootConfig
  <2>1. seeded /\ step = "boot"
    BY <1>0, <1>4 DEF CopyBootConfig, Provisions, ModulesInv
  <2>2. bootConfig' \in {bootConfig, "config"}
    BY <1>0, <1>4, <2>1 DEF CopyBootConfig, PayloadInv, Made
  <2>3. /\ UNCHANGED <<pc, payload, script, seeded, files, index, status>> /\ step' = "commands"
        /\ status = "none"
    BY <1>4, <2>1 DEF CopyBootConfig, DeliveredInv, created, staged, disks
  <2>4. (\A i \in DOMAIN script : Taken(i) /\ LastToDest(i) => Held(i))'
    BY <2>1, <2>3 DEF DeliveredInv, Taken, LastToDest, Held, Target
  <2> QED
    BY <2>1, <2>2, <2>3, <2>4 DEF DeliveredInv
<1>5. CASE Edit \/ Visit \/ BuildImage \/ BuildSeed \/ Launch \/ StartAgain \/ Stop \/ Locate
           \/ CheckModules \/ FirstBootCommands \/ UNCHANGED vars
  <2>1. UNCHANGED <<payload, script, files, index, bootConfig>>
    BY <1>5 DEF Edit, Visit, BuildImage, BuildSeed, Launch, StartAgain, Stop, Locate, CheckModules,
                FirstBootCommands, vars, created, staged, guest
  <2>2. /\ (\A i \in DOMAIN script : Taken(i) /\ LastToDest(i) => Held(i))'
             = (\A i \in DOMAIN script : Taken(i) /\ LastToDest(i) => Held(i))
        /\ HeldUpTo(index)' = HeldUpTo(index)
    BY <2>1 DEF HeldUpTo, Taken, LastToDest, Held, Target
  <2>3. /\ pc' \in {"walk", "seed", "launch"} \/ (seeded' /\ step' = "fresh") =>
             pc \in {"walk", "seed", "launch"} \/ (seeded /\ step = "fresh")
        /\ step' # "fresh" => seeded'
        /\ status' # "none" => step' = "done"
    <3>0. /\ seeded => pc \in {"launch", "running", "off", "failed"}
          /\ step # "fresh" => seeded
          /\ status # "none" => step = "done"
          /\ pc = "running" => seeded
      BY <1>0 DEF PayloadInv, DeliveredInv, ModulesInv
    <3>1. CASE Edit \/ Visit \/ BuildImage \/ BuildSeed \/ UNCHANGED vars
      BY <3>0, <3>1 DEF Edit, Visit, BuildImage, BuildSeed, vars, created, disks, guest
    <3>2. CASE Launch \/ StartAgain \/ Stop
      BY <3>0, <3>2 DEF Launch, StartAgain, Stop, Boot, LaunchFails, created, disks, guest
    <3>3. CASE Locate \/ CheckModules \/ FirstBootCommands
      BY <3>0, <3>3 DEF Locate, CheckModules, FirstBootCommands, Provisions, Ends, created, disks
    <3> QED
      BY <1>5, <3>1, <3>2, <3>3
  <2>4. /\ step' = "copy" => step = "copy" \/ (step = "fresh" /\ seeded)
        /\ step' \in {"modules", "boot", "commands"} \/ status' = "success" =>
             step \in {"modules", "boot", "commands"} \/ status = "success"
    BY <1>0, <1>5 DEF Edit, Visit, BuildImage, BuildSeed, Launch, StartAgain, Stop, Locate,
         CheckModules, FirstBootCommands, Provisions, Ends, ModulesInv, vars, created, disks, guest
  <2>5. index = 0 => HeldUpTo(index)
    BY <1>0, MappingsForm DEF HeldUpTo
  <2> QED
    BY <2>1, <2>2, <2>3, <2>4, <2>5 DEF DeliveredInv
<1> QED
  BY <1>1, <1>2, <1>3, <1>4, <1>5 DEF Next, Create, Guest

\* A guest that reports success has what the mappings copy, and the kernel's config.
THEOREM DeliveredHolds == Spec => []Delivered
<1>1. Init => DeliveredInv
  BY DEF Init, DeliveredInv
<1>2. DeliveredInv => Delivered
  BY DEF DeliveredInv, Delivered, Held
<1> QED
  BY <1>1, <1>2, DeliveredInvStep, TypeInvHolds, PTL DEF Spec

-----------------------------------------------------------------------------
(***************************************************************************)
(* The service: what each step is to whoever wrote the document.           *)
(***************************************************************************)
Seen == <<Ordered, Machine, SetupOf(step), status>>

LEMMA StepDelivers ==
  ASSUME ConfigInv, ConfigInv', [Next]_vars
  PROVE  Service!Next \/ UNCHANGED Seen
<1> USE DEF host, documents, staged, disks, created, guest
\* Before the host is accepted there is no order, afterwards it stays.
<1>1. CASE Edit \/ Load \/ Snapshot \/ Stage \/ StageKernel \/ WriteScript \/ Visit
           \/ BuildImage \/ BuildSeed
  <2>1. Ordered' = Ordered /\ Machine' = Machine /\ UNCHANGED <<step, status>>
    BY <1>1 DEF Edit, Load, Snapshot, Stage, StageKernel, WriteScript, Visit, BuildImage,
                BuildSeed, Ordered, Machine
  <2> QED
    BY <2>1 DEF Seen
<1>2. CASE ValidateHost
  <2>1. UNCHANGED <<step, status, config>> /\ Machine' = {} /\ Machine = {} /\ Ordered = {}
    BY <1>2 DEF ValidateHost, Machine, Ordered
  <2>2. CASE pc' = "new"
    <3>1. Ordered' = {}
      BY <2>2 DEF Ordered
    <3> QED
      BY <2>1, <3>1 DEF Seen
  <2>3. CASE pc' = "snapshot"
    <3>1. Ordered' = {config}
      BY <2>1, <2>3 DEF Ordered
    <3>2. config \in {Validated(raw) : raw \in {r \in Raws : Accepted(r)}}
      BY <1>2 DEF ValidateHost, ConfigInv
    <3>3. Service!Accept
      BY <2>1, <3>1, <3>2 DEF Service!Accept
    <3> QED
      BY <3>3 DEF Service!Next
  <2> QED
    BY <1>2, <2>2, <2>3 DEF ValidateHost
\* A start is a boot with the order, however the configuration was come by.
<1>3. CASE Launch \/ StartAgain
  <2>1. /\ pc \in {"launch", "off", "failed"} /\ pc' \in {"running", "failed"}
        /\ UNCHANGED <<config, step, status>>
    BY <1>3 DEF Launch, StartAgain, Boot, LaunchFails
  <2>2. Ordered' = {config} /\ Ordered = {config} /\ Machine = {}
    BY <2>1 DEF Ordered, Machine
  <2>3. CASE pc' = "failed"
    <3>1. Machine' = {}
      BY <2>3 DEF Machine
    <3> QED
      BY <2>1, <2>2, <3>1 DEF Seen
  <2>4. CASE pc' = "running"
    <3>1. Machine' = {config}
      BY <2>1, <2>4 DEF Machine, ConfigInv
    <3>2. Service!Boot
      BY <2>1, <2>2, <3>1 DEF Service!Boot
    <3> QED
      BY <3>2 DEF Service!Next
  <2> QED
    BY <2>1, <2>3, <2>4
\* Whatever of the first boot was under way is over.
<1>4. CASE Stop
  <2>1. Machine # {} /\ Machine' = {} /\ Ordered' = Ordered /\ status' = status
    BY <1>4 DEF Stop, Machine, Ordered
  <2>2. SetupOf(step)' = IF SetupOf(step) = "going" THEN "over" ELSE SetupOf(step)
    BY <1>4 DEF Stop, SetupOf
  <2>3. Service!Off
    BY <2>1, <2>2 DEF Service!Off
  <2> QED
    BY <2>3 DEF Service!Next
\* The locator finds the payload, so that no setup is over before it has begun.
<1>5. CASE Locate
  <2>1. Machine' = Machine /\ Machine # {} /\ Ordered' = Ordered
    BY <1>5 DEF Locate, Machine, Ordered
  <2>2. step = "fresh" /\ step' = "copy" /\ status' = status
    BY <1>5, PayloadIsThere DEF Locate
  <2>3. SetupOf(step) = "due" /\ SetupOf(step)' = "going"
    BY <2>2 DEF SetupOf
  <2>4. Service!Begin
    BY <2>1, <2>2, <2>3 DEF Service!Begin
  <2> QED
    BY <2>4 DEF Service!Next
<1>6. CASE Copy \/ Extract \/ CheckModules \/ CopyBootConfig \/ FirstBootCommands
  <2>1. /\ step \in {"copy", "modules", "boot", "commands"} /\ pc = "running"
        /\ UNCHANGED <<pc, config, started>>
        /\ \/ step' \in {"copy", "modules", "boot", "commands"} /\ status' = status
           \/ step' = "done" /\ status' \in {"none", "failed", "success"}
    <3>1. CASE Copy
      BY <3>1 DEF Copy, Provisions, Ends
    <3>2. CASE Extract
      BY <3>2 DEF Extract, Provisions, Ends
    <3>3. CASE CheckModules
      BY <3>3 DEF CheckModules, Provisions, Ends
    <3>4. CASE CopyBootConfig
      BY <3>4 DEF CopyBootConfig, Provisions
    <3>5. CASE FirstBootCommands
      BY <3>5 DEF FirstBootCommands, Provisions, Ends
    <3> QED
      BY <1>6, <3>1, <3>2, <3>3, <3>4, <3>5
  <2>2. Machine' = Machine /\ Machine # {} /\ Ordered' = Ordered
    BY <2>1 DEF Machine, Ordered
  <2>3. SetupOf(step) = "going"
    BY <2>1 DEF SetupOf
  <2>4. CASE step' = "done" /\ status' \in {"none", "failed", "success"}
    <3>1. SetupOf(step)' = "over"
      BY <2>4 DEF SetupOf
    <3>2. Service!End
      BY <2>2, <2>3, <2>4, <3>1 DEF Service!End
    <3> QED
      BY <3>2 DEF Service!Next
  <2>5. CASE step' \in {"copy", "modules", "boot", "commands"} /\ status' = status
    <3>1. SetupOf(step)' = "going"
      BY <2>5 DEF SetupOf
    <3> QED
      BY <2>2, <2>3, <2>5, <3>1 DEF Seen
  <2> QED
    BY <2>1, <2>4, <2>5
<1>7. CASE UNCHANGED vars
  <2>1. UNCHANGED <<pc, config, started, step, status>>
    BY <1>7 DEF vars
  <2>2. Ordered' = Ordered /\ Machine' = Machine /\ SetupOf(step)' = SetupOf(step)
    BY <2>1 DEF Ordered, Machine, SetupOf
  <2> QED
    BY <2>1, <2>2 DEF Seen
<1> QED
  BY <1>1, <1>2, <1>3, <1>4, <1>5, <1>6, <1>7 DEF Next, Create, Guest

\* Every run is made once, boots with what it was made with whatever is edited
\* meanwhile, and is set up at most once: create, start and the guest's scripts
\* together implement Delivery (ImplementsDelivery).
THEOREM ImplementsDeliveryHolds == Spec => ImplementsDelivery
<1>1. Init => Service!Init
  BY DEF Init, Service!Init, Ordered, Machine, SetupOf
<1>2. ConfigInv /\ ConfigInv' /\ [Next]_vars => [Service!Next]_(Service!vars)
  BY StepDelivers DEF Seen, Service!vars
<1> QED
  BY <1>1, <1>2, ConfigInvHolds, PTL DEF Spec, ImplementsDelivery, Service!Spec
=============================================================================
