------------------------------ MODULE MCExchange ------------------------------
(***************************************************************************)
(* A small instance of Exchange: nine rows of the table of                 *)
(* crates/udap/src/parameters.rs, of each width it uses.                   *)
(***************************************************************************)
EXTENDS Exchange

Row(name, offset, length, default) ==
  [name |-> name, offset |-> offset, length |-> length, factory_default |-> default]

\* Texts.
NoAddress == <<48, 46, 48, 46, 48, 46, 48>>
Gateway == <<49, 57, 50, 46, 49, 54, 56, 46, 49, 46, 49>>
LeadingZero == <<49, 57, 50, 46, 49, 54, 56, 46, 48, 49, 46, 49>>
Short(n) == [i \in 1..n |-> 97]
Octets == <<255, 254, 65>>

Table ==
  <<Row("lan_ip_mode", 4, 1, <<49>>),
    Row("lan_gateway", 13, 4, NoAddress),
    Row("hostname", 17, 33, <<>>),
    Row("server_address", 71, 4, NoAddress),
    Row("wireless_mode", 173, 1, <<48>>),
    Row("wireless_SSID", 183, 33, <<>>),
    Row("wireless_channel", 216, 1, <<54>>),
    Row("wireless_keylen", 220, 1, <<48>>),
    Row("wireless_wpa_psk", 278, 64, <<>>)>>

Aliases == ("slimserver_address" :> "server_address")
ProductNames == (<<48, 55>> :> <<82, 101, 99, 101, 105, 118, 101, 114>>)

\* format!("offset_{offset}")
Prefix == "offset_"
OffsetName(offset) == Prefix \o ToString(offset)
IsOffsetName(key) == Len(key) >= Len(Prefix) /\ SubSeq(key, 1, Len(Prefix)) = Prefix

Settings(extra) ==
  [unreachable |-> FALSE, fail_on |-> {}, fail_message |-> <<110, 111>>, drop_get_ip |-> FALSE,
   drop_get_uuid |-> FALSE, malformed |-> "None", extra |-> extra]
Healthy == Settings(<<>>)

\* An item of an offset the table does not know.
Unknown(offset) == <<[offset |-> offset, value |-> <<18, 171>>]>>

MCKnobs ==
  {Healthy, Settings(Unknown(5)), Settings(Unknown(6)),
   [Healthy EXCEPT !.unreachable = TRUE],
   [Healthy EXCEPT !.fail_on = {"Save", "Reset", "GetIp"}, !.drop_get_ip = TRUE],
   [Healthy EXCEPT !.fail_on = {"Set", "GetUuid"}, !.fail_message = <<>>],
   [Healthy EXCEPT !.fail_on = {"Get", "Discover"}],
   [Healthy EXCEPT !.drop_get_ip = TRUE, !.drop_get_uuid = TRUE]}
  \cup {[Healthy EXCEPT !.malformed = m] : m \in Malformed}

MCCfg ==
  [name |-> <<83, 66, 82>>, model |-> <<115, 113, 117, 101, 101, 122, 101>>, device_id |-> <<48, 55>>, firmware |-> <<55, 55>>, hardware |-> <<48, 48, 48, 53>>,
   state |-> <<119, 97, 105, 116>>, ip |-> <<192, 168, 1, 50>>, subnet_mask |-> <<255, 255, 255, 0>>,
   gateway |-> <<0, 0, 0, 0>>, uuid |-> [i \in 1..16 |-> 15 * i]]

\* A network name that is not UTF-8.
MCSeed == ("wireless_SSID" :> Octets)

\* Inside the first TLVs, at the start of items, in their headers and values.
MCCuts == {0, 1, 5, 7, 11, 18, 40, 48, 60, 170}

MCRequested ==
  {{"slimserver_address", "wireless_SSID", "volume"}, {"lan_ip_mode", "lan_gateway"}}

MCConfigs ==
  {"hostname" :> Short(33), "hostname" :> Short(34),
   ("lan_gateway" :> Gateway) @@ ("wireless_channel" :> <<43, 49, 49>>),
   ("wireless_channel" :> <<48, 49, 49>>) @@ ("volume" :> <<57>>),
   "lan_gateway" :> LeadingZero, "wireless_channel" :> <<50, 53, 54>>}

Numbers == {<<>>, <<48>>, <<49>>, <<53>>, <<54>>, <<56>>, <<49, 51>>, <<48, 49, 51>>, <<49, 52>>, <<43, 49>>, <<49, 97>>, <<50, 53, 53>>, <<50, 53, 54>>, <<52, 50, 57, 52, 57, 54, 55, 50, 57, 55>>}
MCEntries ==
  ({"wireless_mode", "wireless_channel", "wireless_keylen", "lan_ip_mode"} \X Numbers)
  \cup ({"lan_gateway", "slimserver_address"} \X {Gateway, NoAddress, LeadingZero, <<49, 46, 50, 46, 51>>, <<49, 46, 50, 46, 51, 46, 50, 53, 54>>, <<49, 46, 50, 46, 51, 46, 52, 46, 53>>})
  \cup ({"hostname", "wireless_SSID", "wireless_wpa_psk", "volume"}
         \X {Short(n) : n \in {0, 1, 4, 7, 8, 32, 33, 34, 63, 64, 65}})

MCMacTexts ==
  {<<48, 48, 58, 48, 52, 58, 50, 48, 58, 49, 54, 58, 49, 55, 58, 49, 56>>,
   <<48, 48, 58, 48, 52, 58, 50, 48, 58, 65, 66, 58, 99, 100, 58, 69, 70>>,
   <<48, 48, 45, 48, 52, 45, 50, 48, 45, 49, 54, 45, 49, 55, 45, 49, 56>>,
   <<48, 48, 58, 48, 52, 58, 50, 48, 58, 49, 54, 58, 49, 55, 58, 49, 103>>,
   <<48, 48, 58, 48, 52, 58, 50, 48, 58, 49, 54, 58, 49, 55, 58, 49>>}
=============================================================================
