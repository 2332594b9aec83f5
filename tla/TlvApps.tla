------------------------------ MODULE TlvApps -------------------------------
(***************************************************************************)
(* The messages of routing, security, the repository and the schema        *)
(* framework, as the tables of TlvNdn.                                     *)
(***************************************************************************)
EXTENDS TlvNdn

-----------------------------------------------------------------------------
(* dv/tlv: routing messages                                                *)
DvPacketEncoder == <<Sub(201), Sub(301)>>
DvPacketParse == <<Sub(201), Sub(301)>>

AdvertisementEncoder == <<Subs(202)>>
AdvertisementParse == <<Subs(202)>>

AdvEntryEncoder == <<Sub(204), Sub(206), Req(208), Req(210)>>
AdvEntryParse == <<Sub(204), Sub(206), Req(208), Req(210)>>

DestinationEncoder == <<Sub(7)>>
DestinationParse == <<Sub(7)>>

PrefixOpListEncoder == <<Sub(204), Flag(302), Subs(304), Subs(306)>>
PrefixOpListParse == <<Sub(204), Flag(302), Subs(304), Subs(306)>>

PrefixOpAddEncoder == <<Sub(7), Flag(208), Sub(253)>>
PrefixOpAddParse == <<Sub(7), Flag(208), Sub(253)>>

PrefixOpRemoveEncoder == <<Sub(7)>>
PrefixOpRemoveParse == <<Sub(7)>>

StatusEncoder ==
    <<Req(401), Sub(403), Sub(405), Req(407), Req(409), Req(411), Req(413)>>
StatusParse ==
    <<Req(401), Sub(403), Sub(405), Req(407), Req(409), Req(411), Req(413)>>

PrefixInsertionEncoder == <<Many(534), Opt(6)>>
PrefixInsertionParse == <<Many(534), Opt(6)>>

PrefixInsertionInnerContentEncoder == <<Sub(253), Opt(106)>>
PrefixInsertionInnerContentParse == <<Sub(253), Opt(106)>>

-----------------------------------------------------------------------------
(* std/security/trust_schema: trust schemas                                *)
CrossSchemaContentEncoder == <<Subs(620), Subs(622), Subs(624)>>
CrossSchemaContentParse == <<Subs(620), Subs(622), Subs(624)>>

SimpleSchemaRuleEncoder == <<Sub(7), Sub(28)>>
SimpleSchemaRuleParse == <<Sub(7), Sub(28)>>

PrefixSchemaRuleEncoder == <<Sub(7)>>
PrefixSchemaRuleParse == <<Sub(7)>>

ComponentSchemaRuleEncoder == <<Sub(7), Sub(28), Req(625), Req(626)>>
ComponentSchemaRuleParse == <<Sub(7), Sub(28), Req(625), Req(626)>>

LvsUserFnArgEncoder == <<Opt(33), Opt(35)>>
LvsUserFnArgParse == <<Opt(33), Opt(35)>>

LvsUserFnCallEncoder == <<Opt(39), Subs(51)>>
LvsUserFnCallParse == <<Opt(39), Subs(51)>>

LvsConstraintOptionEncoder == <<Opt(33), Opt(35), Sub(49)>>
LvsConstraintOptionParse == <<Opt(33), Opt(35), Sub(49)>>

LvsPatternConstraintEncoder == <<Subs(65)>>
LvsPatternConstraintParse == <<Subs(65)>>

LvsPatternEdgeEncoder == <<Req(37), Req(35), Subs(67)>>
LvsPatternEdgeParse == <<Req(37), Req(35), Subs(67)>>

LvsValueEdgeEncoder == <<Req(37), Opt(33)>>
LvsValueEdgeParse == <<Req(37), Opt(33)>>

LvsNodeEncoder == <<Req(37), Opt(87), Many(41), Subs(81), Subs(83), Many(85)>>
LvsNodeParse == <<Req(37), Opt(87), Many(41), Subs(81), Subs(83), Many(85)>>

LvsTagSymbolEncoder == <<Opt(35), Opt(41)>>
LvsTagSymbolParse == <<Opt(35), Opt(41)>>

LvsModelEncoder == <<Req(97), Req(37), Req(105), Subs(99), Subs(103)>>
LvsModelParse == <<Req(97), Req(37), Req(105), Subs(99), Subs(103)>>

-----------------------------------------------------------------------------
(* std/security/ndncert/tlv: certificate issuance                          *)
CaProfileEncoder == <<Sub(129), Req(131), Many(133), Req(139), Opt(137)>>
CaProfileParse == <<Sub(129), Req(131), Many(133), Req(139), Opt(137)>>

ProbeReqEncoder == <<Pairs(133, 135)>>
ProbeReqParse == <<Pairs(133, 135)>>

ProbeResValsEncoder == <<Sub(7), Opt(143)>>
ProbeResValsParse == <<Sub(7), Opt(143)>>

ProbeResEncoder == <<Subs(141), Sub(179)>>
ProbeResParse == <<Subs(141), Sub(179)>>

NewReqEncoder == <<Opt(145), Opt(147)>>
NewReqParse == <<Opt(145), Opt(147)>>

NewResEncoder == <<Opt(145), Opt(149), Opt(151), Many(153)>>
NewResParse == <<Opt(145), Opt(149), Opt(151), Many(153)>>

CipherMsgEncoder == <<Opt(157), Opt(175), Opt(159)>>
CipherMsgParse == <<Opt(157), Opt(175), Opt(159)>>

ChallengeReqEncoder == <<Req(161), Pairs(133, 135)>>
ChallengeReqParse == <<Req(161), Pairs(133, 135)>>

ChallengeResEncoder ==
    <<Req(155), Opt(163), Opt(165), Opt(167), Sub(169), Sub(30), Pairs(133,
      135)>>
ChallengeResParse ==
    <<Req(155), Opt(163), Opt(165), Opt(167), Sub(169), Sub(30), Pairs(133,
      135)>>

ErrorResEncoder == <<Req(171), Req(173)>>
ErrorResParse == <<Req(171), Req(173)>>

-----------------------------------------------------------------------------
(* repo/tlv: repository commands                                           *)
RepoCmdEncoder == <<Sub(7600), Sub(7601), Sub(7602)>>
RepoCmdParse == <<Sub(7600), Sub(7601), Sub(7602)>>

RepoCmdResEncoder == <<Req(657), Req(658)>>
RepoCmdResParse == <<Req(657), Req(658)>>

SyncJoinEncoder == <<Sub(401), Sub(403), Sub(404), Sub(420), Sub(7604)>>
SyncJoinParse == <<Sub(401), Sub(403), Sub(404), Sub(420), Sub(7604)>>

SyncLeaveEncoder == <<Sub(401), Sub(403)>>
SyncLeaveParse == <<Sub(401), Sub(403)>>

HistorySnapshotConfigEncoder == <<Req(421)>>
HistorySnapshotConfigParse == <<Req(421)>>

BlobFetchEncoder == <<Sub(440), Many(442)>>
BlobFetchParse == <<Sub(440), Many(442)>>

SecurityConfigObjectEncoder == <<Opt(421), Many(442)>>
SecurityConfigObjectParse == <<Opt(421), Many(442)>>

-----------------------------------------------------------------------------
(* std/schema/demosec: encrypted content                                   *)
EncryptedContentEncoder == <<Opt(130), Opt(132), Req(134), Opt(136)>>
EncryptedContentParse == <<Opt(130), Opt(132), Req(134), Opt(136)>>
-----------------------------------------------------------------------------
AppMessage ==
    [DvPacket |-> Msg(DvPacketEncoder, DvPacketParse),
     Advertisement |-> Msg(AdvertisementEncoder, AdvertisementParse),
     AdvEntry |-> Msg(AdvEntryEncoder, AdvEntryParse),
     Destination |-> Msg(DestinationEncoder, DestinationParse),
     PrefixOpList |-> Msg(PrefixOpListEncoder, PrefixOpListParse),
     PrefixOpAdd |-> Msg(PrefixOpAddEncoder, PrefixOpAddParse),
     PrefixOpRemove |-> Msg(PrefixOpRemoveEncoder, PrefixOpRemoveParse),
     Status |-> Msg(StatusEncoder, StatusParse),
     PrefixInsertion |-> Msg(PrefixInsertionEncoder, PrefixInsertionParse),
     PrefixInsertionInnerContent |-> Msg(PrefixInsertionInnerContentEncoder, PrefixInsertionInnerContentParse),
     CrossSchemaContent |-> Msg(CrossSchemaContentEncoder, CrossSchemaContentParse),
     SimpleSchemaRule |-> Msg(SimpleSchemaRuleEncoder, SimpleSchemaRuleParse),
     PrefixSchemaRule |-> Msg(PrefixSchemaRuleEncoder, PrefixSchemaRuleParse),
     ComponentSchemaRule |-> Msg(ComponentSchemaRuleEncoder, ComponentSchemaRuleParse),
     LvsUserFnArg |-> Msg(LvsUserFnArgEncoder, LvsUserFnArgParse),
     LvsUserFnCall |-> Msg(LvsUserFnCallEncoder, LvsUserFnCallParse),
     LvsConstraintOption |-> Msg(LvsConstraintOptionEncoder, LvsConstraintOptionParse),
     LvsPatternConstraint |-> Msg(LvsPatternConstraintEncoder, LvsPatternConstraintParse),
     LvsPatternEdge |-> Msg(LvsPatternEdgeEncoder, LvsPatternEdgeParse),
     LvsValueEdge |-> Msg(LvsValueEdgeEncoder, LvsValueEdgeParse),
     LvsNode |-> Msg(LvsNodeEncoder, LvsNodeParse),
     LvsTagSymbol |-> Msg(LvsTagSymbolEncoder, LvsTagSymbolParse),
     LvsModel |-> Msg(LvsModelEncoder, LvsModelParse),
     CaProfile |-> Msg(CaProfileEncoder, CaProfileParse),
     ProbeReq |-> Msg(ProbeReqEncoder, ProbeReqParse),
     ProbeResVals |-> Msg(ProbeResValsEncoder, ProbeResValsParse),
     ProbeRes |-> Msg(ProbeResEncoder, ProbeResParse),
     NewReq |-> Msg(NewReqEncoder, NewReqParse),
     NewRes |-> Msg(NewResEncoder, NewResParse),
     CipherMsg |-> Msg(CipherMsgEncoder, CipherMsgParse),
     ChallengeReq |-> Msg(ChallengeReqEncoder, ChallengeReqParse),
     ChallengeRes |-> Msg(ChallengeResEncoder, ChallengeResParse),
     ErrorRes |-> Msg(ErrorResEncoder, ErrorResParse),
     RepoCmd |-> Msg(RepoCmdEncoder, RepoCmdParse),
     RepoCmdRes |-> Msg(RepoCmdResEncoder, RepoCmdResParse),
     SyncJoin |-> Msg(SyncJoinEncoder, SyncJoinParse),
     SyncLeave |-> Msg(SyncLeaveEncoder, SyncLeaveParse),
     HistorySnapshotConfig |-> Msg(HistorySnapshotConfigEncoder, HistorySnapshotConfigParse),
     BlobFetch |-> Msg(BlobFetchEncoder, BlobFetchParse),
     SecurityConfigObject |-> Msg(SecurityConfigObjectEncoder, SecurityConfigObjectParse),
     EncryptedContent |-> Msg(EncryptedContentEncoder, EncryptedContentParse)]
=============================================================================
