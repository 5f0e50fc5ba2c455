CONSTANT MaxPackets <- MCMaxPackets
SPECIFICATION Spec
PROPERTY ProcessTerminates
