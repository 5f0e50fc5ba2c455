CONSTANT MaxPackets <- MCMaxPackets
SPECIFICATION Spec
INVARIANT TypeOK
INVARIANT RoleMatchesGrant
PROPERTY EstablishedSessionTerminates
PROPERTY SessionRefinesLifecycle
