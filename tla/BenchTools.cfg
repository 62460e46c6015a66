\* Any tools one after the other, killed or failing at any register write.
SPECIFICATION BenchSpec
CONSTANT Solutions <- MCSolutions
INVARIANTS NoMixedPulse CubeInGoodHands StateIsTrue FacesTrulyNamed MovesAsAsked
