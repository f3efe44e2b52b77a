\* A sighting stored between the read and the write of a scan: an offline verdict not earned.
SPECIFICATION Spec
CONSTANTS
    d1 = d1
    Device = {d1}
    Thresholds = {2}
    OccasionalFactor = 2
    OccasionalMin = 3
    Cap = 4
    EventLimit = 2
PROPERTIES
    EverySightingCounts
