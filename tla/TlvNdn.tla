------------------------------- MODULE TlvNdn -------------------------------
(***************************************************************************)
(* The messages of std/ndn and fw/defn, as tables of their TLV fields.     *)
(*                                                                         *)
(* The generated code of each message is an encoder, which writes the      *)
(* fields one after the other, and a parser, which has one case for the    *)
(* type number of each field.  XEncoder lists the fields in the order in   *)
(* which the encoder of X counts them (Init) and writes them (EncodeInto), *)
(* XParse those of its parser in the order of its table; both are read off *)
(* the generated code, so that they can disagree.  Tlv is the code around  *)
(* them.                                                                   *)
(***************************************************************************)
EXTENDS Integers, Sequences

\* A field that a message always has, one it may lack, and a boolean one,
\* which is written when it is true.
Req(t) == [typ |-> t, kind |-> "req"]
Opt(t) == [typ |-> t, kind |-> "opt"]
Flag(t) == [typ |-> t, kind |-> "flag"]

\* A field that may occur any number of times.
Many(t) == [typ |-> t, kind |-> "many"]

\* The same with a name or another message inside, whose parser may fail.
Sub(t) == [typ |-> t, kind |-> "sub"]
Subs(t) == [typ |-> t, kind |-> "subs"]

\* A map: a key of type t and then a value of type u, once for each pair.
Pairs(t, u) == [typ |-> t, val |-> u, kind |-> "pairs"]

\* Rows without an element of their own: an argument of the procedure, a
\* place in the packet, and the part of it from such a place to here.
Arg == [typ |-> 0, kind |-> "arg"]
Offset(m) == [typ |-> 0, kind |-> "offset", mark |-> m]
Cover(m) == [typ |-> 0, kind |-> "cover", mark |-> m]

\* The signature, over the part from "sigCoverStart" to here, and the name
\* of an Interest, which the signature covers too.
Sig(t) == [typ |-> t, kind |-> "sig"]
InterestName(t) == [typ |-> t, kind |-> "iname"]

Msg(encoder, parse) == [encoder |-> encoder, parse |-> parse]

\* The messages whose fields have to come in the order of the table.
Ordered == {"Data", "Interest"}

-----------------------------------------------------------------------------
(* std/ndn/spec_2022: the packets of clients                               *)
DataEncoder ==
    <<Offset("sigCoverStart"), Sub(7), Sub(20), Opt(21), Sub(22), Sig(23),
      Opt(600)>>
DataParse ==
    <<Arg, Offset("sigCoverStart"), Sub(7), Sub(20), Opt(21), Sub(22), Sig(23),
      Opt(600)>>

MetaInfoEncoder == <<Opt(24), Opt(25), Opt(26)>>
MetaInfoParse == <<Opt(24), Opt(25), Opt(26)>>

SignatureInfoEncoder ==
    <<Req(27), Sub(28), Opt(38), Opt(40), Opt(42), Sub(253), Sub(258)>>
SignatureInfoParse ==
    <<Req(27), Sub(28), Opt(38), Opt(40), Opt(42), Sub(253), Sub(258)>>

KeyLocatorEncoder == <<Sub(7), Opt(29)>>
KeyLocatorParse == <<Sub(7), Opt(29)>>

ValidityPeriodEncoder == <<Req(254), Req(255)>>
ValidityPeriodParse == <<Req(254), Req(255)>>

CertDescriptionEntryEncoder == <<Req(513), Req(514)>>
CertDescriptionEntryParse == <<Req(513), Req(514)>>

CertAdditionalDescriptionEncoder == <<Subs(512)>>
CertAdditionalDescriptionParse == <<Subs(512)>>

InterestEncoder ==
    <<InterestName(7), Flag(33), Flag(18), Sub(30), Opt(10), Opt(12), Opt(34),
      Offset("sigCoverStart"), Offset("digestCoverStart"), Opt(36), Sub(44),
      Sig(46), Cover("digestCoverStart")>>
InterestParse ==
    <<Arg, Arg, InterestName(7), Flag(33), Flag(18), Sub(30), Opt(10), Opt(12),
      Opt(34), Offset("sigCoverStart"), Offset("digestCoverStart"), Opt(36),
      Sub(44), Sig(46), Cover("digestCoverStart")>>

LinksEncoder == <<Subs(7)>>
LinksParse == <<Subs(7)>>

LpPacketEncoder ==
    <<Opt(81), Opt(82), Opt(83), Opt(98), Sub(800), Opt(812), Opt(816),
      Sub(820), Opt(832), Opt(836), Opt(840), Flag(844), Opt(848), Sub(857),
      Opt(858), Opt(80)>>
LpPacketParse ==
    <<Opt(81), Opt(82), Opt(83), Opt(98), Sub(800), Opt(812), Opt(816),
      Sub(820), Opt(832), Opt(836), Opt(840), Flag(844), Opt(848), Sub(857),
      Opt(858), Opt(80)>>

EgressRouterEncoder == <<Sub(7)>>
EgressRouterParse == <<Sub(7)>>

NetworkNackEncoder == <<Req(801)>>
NetworkNackParse == <<Req(801)>>

CachePolicyEncoder == <<Req(821)>>
CachePolicyParse == <<Req(821)>>

SpecPacketEncoder == <<Sub(5), Sub(6), Sub(100)>>
SpecPacketParse == <<Sub(5), Sub(6), Sub(100)>>

NameContainerEncoder == <<Sub(7)>>
NameContainerParse == <<Sub(7)>>

-----------------------------------------------------------------------------
(* fw/defn: the packets as the forwarder reads and writes them             *)
FwPacketEncoder == <<Sub(5), Sub(6), Sub(100)>>
FwPacketParse == <<Sub(5), Sub(6), Sub(100)>>

FwInterestEncoder ==
    <<Sub(7), Flag(33), Flag(18), Sub(30), Opt(10), Opt(12), Opt(34), Flag(36),
      Flag(44), Flag(46)>>
FwInterestParse ==
    <<Sub(7), Flag(33), Flag(18), Sub(30), Opt(10), Opt(12), Opt(34), Flag(36),
      Flag(44), Flag(46)>>

FwLinksEncoder == <<Subs(7)>>
FwLinksParse == <<Subs(7)>>

FwDataEncoder == <<Sub(7), Sub(20), Flag(21), Flag(22), Flag(23)>>
FwDataParse == <<Sub(7), Sub(20), Flag(21), Flag(22), Flag(23)>>

FwMetaInfoEncoder == <<Opt(24), Opt(25), Flag(26)>>
FwMetaInfoParse == <<Opt(24), Opt(25), Flag(26)>>

FwLpPacketEncoder ==
    <<Opt(81), Opt(82), Opt(83), Opt(98), Sub(800), Opt(812), Opt(816),
      Sub(820), Opt(832), Sub(857), Opt(858), Opt(80)>>
FwLpPacketParse ==
    <<Opt(81), Opt(82), Opt(83), Opt(98), Sub(800), Opt(812), Opt(816),
      Sub(820), Opt(832), Sub(857), Opt(858), Opt(80)>>

FwNetworkNackEncoder == <<Req(801)>>
FwNetworkNackParse == <<Req(801)>>

FwCachePolicyEncoder == <<Req(821)>>
FwCachePolicyParse == <<Req(821)>>

FwEgressRouterEncoder == <<Sub(7)>>
FwEgressRouterParse == <<Sub(7)>>

-----------------------------------------------------------------------------
(* std/ndn/mgmt_2022: management commands, responses and datasets          *)
StrategyEncoder == <<Sub(7)>>
StrategyParse == <<Sub(7)>>

ControlArgsEncoder ==
    <<Sub(7), Sub(204), Opt(105), Opt(114), Opt(129), Opt(111), Opt(106),
      Opt(131), Opt(132), Opt(108), Opt(112), Sub(107), Opt(109), Opt(133),
      Opt(135), Opt(136), Opt(137)>>
ControlArgsParse ==
    <<Sub(7), Sub(204), Opt(105), Opt(114), Opt(129), Opt(111), Opt(106),
      Opt(131), Opt(132), Opt(108), Opt(112), Sub(107), Opt(109), Opt(133),
      Opt(135), Opt(136), Opt(137)>>

ControlResponseValEncoder == <<Req(102), Req(103), Sub(104)>>
ControlResponseValParse == <<Req(102), Req(103), Sub(104)>>

ControlParametersEncoder == <<Sub(104)>>
ControlParametersParse == <<Sub(104)>>

ControlResponseEncoder == <<Sub(101)>>
ControlResponseParse == <<Sub(101)>>

FaceEventNotificationValueEncoder ==
    <<Req(193), Req(105), Req(114), Req(129), Req(132), Req(133), Req(134),
      Req(108)>>
FaceEventNotificationValueParse ==
    <<Req(193), Req(105), Req(114), Req(129), Req(132), Req(133), Req(134),
      Req(108)>>

FaceEventNotificationEncoder == <<Sub(192)>>
FaceEventNotificationParse == <<Sub(192)>>

GeneralStatusEncoder ==
    <<Req(128), Req(129), Req(130), Req(131), Req(132), Req(133), Req(134),
      Req(135), Req(144), Req(145), Req(151), Req(146), Req(147), Req(152),
      Req(153), Req(154), Opt(200), Opt(201), Opt(202), Opt(203), Opt(204),
      Opt(205), Opt(206), Opt(207), Opt(208)>>
GeneralStatusParse ==
    <<Req(128), Req(129), Req(130), Req(131), Req(132), Req(133), Req(134),
      Req(135), Req(144), Req(145), Req(151), Req(146), Req(147), Req(152),
      Req(153), Req(154), Opt(200), Opt(201), Opt(202), Opt(203), Opt(204),
      Opt(205), Opt(206), Opt(207), Opt(208)>>

FaceStatusEncoder ==
    <<Req(105), Req(114), Req(129), Opt(109), Req(132), Req(133), Req(134),
      Opt(135), Opt(136), Opt(137), Req(144), Req(145), Req(151), Req(146),
      Req(147), Req(152), Req(148), Req(149), Req(108)>>
FaceStatusParse ==
    <<Req(105), Req(114), Req(129), Opt(109), Req(132), Req(133), Req(134),
      Opt(135), Opt(136), Opt(137), Req(144), Req(145), Req(151), Req(146),
      Req(147), Req(152), Req(148), Req(149), Req(108)>>

FaceStatusMsgEncoder == <<Subs(128)>>
FaceStatusMsgParse == <<Subs(128)>>

FaceQueryFilterValueEncoder ==
    <<Opt(105), Opt(131), Opt(114), Opt(129), Opt(132), Opt(133), Opt(134)>>
FaceQueryFilterValueParse ==
    <<Opt(105), Opt(131), Opt(114), Opt(129), Opt(132), Opt(133), Opt(134)>>

FaceQueryFilterEncoder == <<Sub(150)>>
FaceQueryFilterParse == <<Sub(150)>>

RouteEncoder == <<Req(105), Req(111), Req(106), Req(108), Opt(109)>>
RouteParse == <<Req(105), Req(111), Req(106), Req(108), Opt(109)>>

RibEntryEncoder == <<Sub(7), Subs(129)>>
RibEntryParse == <<Sub(7), Subs(129)>>

RibStatusEncoder == <<Subs(128)>>
RibStatusParse == <<Subs(128)>>

NextHopRecordEncoder == <<Req(105), Req(106)>>
NextHopRecordParse == <<Req(105), Req(106)>>

EgressRecordEncoder == <<Sub(7)>>
EgressRecordParse == <<Sub(7)>>

FibEntryEncoder == <<Sub(7), Subs(129)>>
FibEntryParse == <<Sub(7), Subs(129)>>

FibStatusEncoder == <<Subs(128)>>
FibStatusParse == <<Subs(128)>>

PetEntryEncoder == <<Sub(7), Subs(130), Subs(129)>>
PetEntryParse == <<Sub(7), Subs(130), Subs(129)>>

PetStatusEncoder == <<Subs(128)>>
PetStatusParse == <<Subs(128)>>

StrategyChoiceEncoder == <<Sub(7), Sub(107)>>
StrategyChoiceParse == <<Sub(7), Sub(107)>>

StrategyChoiceMsgEncoder == <<Subs(128)>>
StrategyChoiceMsgParse == <<Subs(128)>>

CsInfoEncoder == <<Req(131), Req(108), Req(135), Req(129), Req(130)>>
CsInfoParse == <<Req(131), Req(108), Req(135), Req(129), Req(130)>>

CsInfoMsgEncoder == <<Sub(128)>>
CsInfoMsgParse == <<Sub(128)>>

-----------------------------------------------------------------------------
(* std/ndn/rdr_2024: object metadata                                       *)
ManifestDigestEncoder == <<Req(204), Opt(206)>>
ManifestDigestParse == <<Req(204), Opt(206)>>

ManifestDataEncoder == <<Subs(202)>>
ManifestDataParse == <<Subs(202)>>

MetaDataEncoder ==
    <<Sub(7), Opt(26), Opt(62720), Opt(62722), Opt(62724), Opt(62726),
      Opt(62728), Opt(62730), Opt(62732), Opt(62734)>>
MetaDataParse ==
    <<Sub(7), Opt(26), Opt(62720), Opt(62722), Opt(62724), Opt(62726),
      Opt(62728), Opt(62730), Opt(62732), Opt(62734)>>

-----------------------------------------------------------------------------
(* std/ndn/svs/v2: state vectors, the older format                         *)
Svs2SvsDataEncoder == <<Sub(201)>>
Svs2SvsDataParse == <<Sub(201)>>

Svs2StateVectorEncoder == <<Subs(202)>>
Svs2StateVectorParse == <<Subs(202)>>

Svs2StateVectorEntryEncoder == <<Sub(7), Req(204)>>
Svs2StateVectorEntryParse == <<Sub(7), Req(204)>>

-----------------------------------------------------------------------------
(* std/ndn/svs/v3: state vectors                                           *)
Svs3SvsDataEncoder == <<Sub(201)>>
Svs3SvsDataParse == <<Sub(201)>>

Svs3StateVectorEncoder == <<Subs(202)>>
Svs3StateVectorParse == <<Subs(202)>>

Svs3StateVectorEntryEncoder == <<Sub(7), Subs(210)>>
Svs3StateVectorEntryParse == <<Sub(7), Subs(210)>>

SeqNoEntryEncoder == <<Req(212), Req(214)>>
SeqNoEntryParse == <<Req(212), Req(214)>>

PassiveStateEncoder == <<Many(4000)>>
PassiveStateParse == <<Many(4000)>>

-----------------------------------------------------------------------------
(* std/ndn/svs_ps: publications and history snapshots                      *)
InstanceStateEncoder == <<Sub(7), Req(212), Sub(201)>>
InstanceStateParse == <<Sub(7), Req(212), Sub(201)>>

HistorySnapEncoder == <<Subs(130)>>
HistorySnapParse == <<Subs(130)>>

HistorySnapEntryEncoder == <<Req(214), Opt(131)>>
HistorySnapEntryParse == <<Req(214), Opt(131)>>

HistoryIndexEncoder == <<Many(132)>>
HistoryIndexParse == <<Many(132)>>
-----------------------------------------------------------------------------
NdnMessage ==
    [Data |-> Msg(DataEncoder, DataParse),
     MetaInfo |-> Msg(MetaInfoEncoder, MetaInfoParse),
     SignatureInfo |-> Msg(SignatureInfoEncoder, SignatureInfoParse),
     KeyLocator |-> Msg(KeyLocatorEncoder, KeyLocatorParse),
     ValidityPeriod |-> Msg(ValidityPeriodEncoder, ValidityPeriodParse),
     CertDescriptionEntry |-> Msg(CertDescriptionEntryEncoder, CertDescriptionEntryParse),
     CertAdditionalDescription |-> Msg(CertAdditionalDescriptionEncoder, CertAdditionalDescriptionParse),
     Interest |-> Msg(InterestEncoder, InterestParse),
     Links |-> Msg(LinksEncoder, LinksParse),
     LpPacket |-> Msg(LpPacketEncoder, LpPacketParse),
     EgressRouter |-> Msg(EgressRouterEncoder, EgressRouterParse),
     NetworkNack |-> Msg(NetworkNackEncoder, NetworkNackParse),
     CachePolicy |-> Msg(CachePolicyEncoder, CachePolicyParse),
     SpecPacket |-> Msg(SpecPacketEncoder, SpecPacketParse),
     NameContainer |-> Msg(NameContainerEncoder, NameContainerParse),
     ManifestDigest |-> Msg(ManifestDigestEncoder, ManifestDigestParse),
     ManifestData |-> Msg(ManifestDataEncoder, ManifestDataParse),
     MetaData |-> Msg(MetaDataEncoder, MetaDataParse),
     Strategy |-> Msg(StrategyEncoder, StrategyParse),
     ControlArgs |-> Msg(ControlArgsEncoder, ControlArgsParse),
     ControlResponseVal |-> Msg(ControlResponseValEncoder, ControlResponseValParse),
     ControlParameters |-> Msg(ControlParametersEncoder, ControlParametersParse),
     ControlResponse |-> Msg(ControlResponseEncoder, ControlResponseParse),
     FaceEventNotificationValue |-> Msg(FaceEventNotificationValueEncoder, FaceEventNotificationValueParse),
     FaceEventNotification |-> Msg(FaceEventNotificationEncoder, FaceEventNotificationParse),
     GeneralStatus |-> Msg(GeneralStatusEncoder, GeneralStatusParse),
     FaceStatus |-> Msg(FaceStatusEncoder, FaceStatusParse),
     FaceStatusMsg |-> Msg(FaceStatusMsgEncoder, FaceStatusMsgParse),
     FaceQueryFilterValue |-> Msg(FaceQueryFilterValueEncoder, FaceQueryFilterValueParse),
     FaceQueryFilter |-> Msg(FaceQueryFilterEncoder, FaceQueryFilterParse),
     Route |-> Msg(RouteEncoder, RouteParse),
     RibEntry |-> Msg(RibEntryEncoder, RibEntryParse),
     RibStatus |-> Msg(RibStatusEncoder, RibStatusParse),
     NextHopRecord |-> Msg(NextHopRecordEncoder, NextHopRecordParse),
     EgressRecord |-> Msg(EgressRecordEncoder, EgressRecordParse),
     FibEntry |-> Msg(FibEntryEncoder, FibEntryParse),
     FibStatus |-> Msg(FibStatusEncoder, FibStatusParse),
     PetEntry |-> Msg(PetEntryEncoder, PetEntryParse),
     PetStatus |-> Msg(PetStatusEncoder, PetStatusParse),
     StrategyChoice |-> Msg(StrategyChoiceEncoder, StrategyChoiceParse),
     StrategyChoiceMsg |-> Msg(StrategyChoiceMsgEncoder, StrategyChoiceMsgParse),
     CsInfo |-> Msg(CsInfoEncoder, CsInfoParse),
     CsInfoMsg |-> Msg(CsInfoMsgEncoder, CsInfoMsgParse),
     Svs2SvsData |-> Msg(Svs2SvsDataEncoder, Svs2SvsDataParse),
     Svs2StateVector |-> Msg(Svs2StateVectorEncoder, Svs2StateVectorParse),
     Svs2StateVectorEntry |-> Msg(Svs2StateVectorEntryEncoder, Svs2StateVectorEntryParse),
     Svs3SvsData |-> Msg(Svs3SvsDataEncoder, Svs3SvsDataParse),
     Svs3StateVector |-> Msg(Svs3StateVectorEncoder, Svs3StateVectorParse),
     Svs3StateVectorEntry |-> Msg(Svs3StateVectorEntryEncoder, Svs3StateVectorEntryParse),
     SeqNoEntry |-> Msg(SeqNoEntryEncoder, SeqNoEntryParse),
     PassiveState |-> Msg(PassiveStateEncoder, PassiveStateParse),
     InstanceState |-> Msg(InstanceStateEncoder, InstanceStateParse),
     HistorySnap |-> Msg(HistorySnapEncoder, HistorySnapParse),
     HistorySnapEntry |-> Msg(HistorySnapEntryEncoder, HistorySnapEntryParse),
     HistoryIndex |-> Msg(HistoryIndexEncoder, HistoryIndexParse),
     FwPacket |-> Msg(FwPacketEncoder, FwPacketParse),
     FwInterest |-> Msg(FwInterestEncoder, FwInterestParse),
     FwLinks |-> Msg(FwLinksEncoder, FwLinksParse),
     FwData |-> Msg(FwDataEncoder, FwDataParse),
     FwMetaInfo |-> Msg(FwMetaInfoEncoder, FwMetaInfoParse),
     FwLpPacket |-> Msg(FwLpPacketEncoder, FwLpPacketParse),
     FwNetworkNack |-> Msg(FwNetworkNackEncoder, FwNetworkNackParse),
     FwCachePolicy |-> Msg(FwCachePolicyEncoder, FwCachePolicyParse),
     FwEgressRouter |-> Msg(FwEgressRouterEncoder, FwEgressRouterParse)]
=============================================================================
