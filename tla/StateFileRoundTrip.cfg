CONSTANTS
    N = 2
    MaxVersions = 1
    MaxAcked = 2
SPECIFICATION Spec
PROPERTY RoundTrip
