---------------------------- MODULE MCDeployment ----------------------------
\* A document whose parts have two versions each, hosts of every kind, a request with
\* a token for one of the two documents that there may be at first.
EXTENDS Deployment, TLC

MCCaller == {"owner", "other"}
MCDoc == {"doc"}
MCVersion == {1, 2}
MCIssued == [p \in Part |-> 1]
MCFirst == { MCIssued, [MCIssued EXCEPT !["methods"] = 2] }
MCHost == {"open", "private", "localhost", "idn"}
MCAddressOf == "private" :> "internal"
MCDeniedName == {"localhost"}
MCIndirect == {"idn"}
MCAddr == {"public", "another", "internal"}
MCBlocked == {"internal"}
MCAnswers == { <<>>, <<"internal">>, <<"another", "public">> }
MCMaxRequests == 3
MCPayloadLimit == 1
MCLengths == {1, 2}
MCRequest == {"request"}
MCBodyLength == "request" :> 3
MCLimit == {0, 1, 3}
MCDefaultLimit == 3
MCOwner == "owner"
MCMaxChanges == 3
=============================================================================
